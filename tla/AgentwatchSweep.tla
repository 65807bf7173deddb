--------------------------- MODULE AgentwatchSweep ---------------------------
(***************************************************************************)
(* Whom signal_tree() reaches, and whom it leaves alone, while the tree it *)
(* goes round forks, detaches, is orphaned and dies under it.              *)
(***************************************************************************)
EXTENDS AgentwatchProofs

(* What a step cannot take from a process that is there before and after. *)
Outlives(p) ==
  /\ proc'[p].birth = proc[p].birth /\ proc'[p].ours = proc[p].ours
  /\ proc'[p].ppid = proc[p].ppid \/ proc'[p].ppid \notin Pids
  /\ Live(p)' => Live(p)
  /\ proc[p].got \subseteq proc'[p].got
  /\ proc[p].pgid = p => proc'[p].pgid = p

(* A number is never handed on within a step, and only with a start time   *)
(* nothing has had.                                                        *)
Persistence ==
  /\ nextBirth' = nextBirth \/ nextBirth' = nextBirth + 1
  /\ \A p \in Pids : InUse(p)' =>
       \/ InUse(p) /\ Outlives(p)
       \/ ~InUse(p) /\ proc'[p].birth = nextBirth /\ nextBirth' = nextBirth + 1

LEMMA ProcessesPersist ==
  ASSUME Base, [Next]_vars
  PROVE  Persistence
<1> USE DEF Base, Types, ProcTypeOK, Process, Persistence
<1>0. SUP \notin Pids /\ PID1 \notin Pids
  BY ProcTreeAssumption
<1>1. CASE UNCHANGED kernel
  BY <1>1 DEF InUse, Live, Outlives, kernel
<1>2. ASSUME NEW q \in Pids, NEW parent, NEW group, NEW own,
             Spawn(q, parent, group, own)
      PROVE  Persistence
  BY <1>2 DEF Spawn, Available, InUse, Live, Outlives
<1>3. ASSUME NEW z \in Pids, Collect(z) PROVE Persistence
  BY <1>3 DEF Collect, Free, InUse, Live, Outlives
<1>4. ASSUME NEW p \in Pids, Perish(p) PROVE Persistence
  <2>1. SUFFICES ASSUME NEW q \in Pids, InUse(q)' PROVE InUse(q) /\ Outlives(q)
    BY <1>4 DEF Perish
  <2>2. proc'[q].st # "free" /\ Live(p)
    BY <1>4, <2>1 DEF InUse, Perish
  <2>3. CASE q = p
    BY <1>4, <2>2, <2>3 DEF Perish, Free, InUse, Live, Outlives
  <2>4. CASE q # p /\ q \notin ChildrenOf(p)
    BY <1>4, <2>2, <2>4 DEF Perish, InUse, Live, Outlives
  <2>5. CASE q # p /\ q \in ChildrenOf(p)
    <3>1. \E heir \in {SUP, PID1} : proc'[q] = [proc[q] EXCEPT !.ppid = heir]
      BY <1>4, <2>2, <2>5 DEF Perish, Free
    <3> QED
      BY <1>0, <2>5, <3>1 DEF ChildrenOf, InUse, Live, Outlives
  <2> QED
    BY <2>3, <2>4, <2>5
<1>5. ASSUME NEW p \in Pids, proc' = Grouped(p), UNCHANGED nextBirth PROVE Persistence
  BY <1>5 DEF Grouped, InUse, Live, Outlives
<1>6. ASSUME NEW set, proc' = Signalled(set, signum), UNCHANGED nextBirth
      PROVE  Persistence
  BY <1>6 DEF Signalled, InUse, Live, Outlives
<1>7. QED
  BY StepsMoveTheTable, <1>1, <1>2, <1>3, <1>4, <1>5, <1>6
     DEF TableMove, Fork, OutsiderStart, Reap, WaitChild

SweepStep ==
  \/ OpenProc \/ (\E p \in Pids : ReadStat(p)) \/ ScanEnd \/ GroupKill
  \/ (\E i \in targets : Revalidate(i)) \/ KillOne \/ SweepEnd

(* Everybody else leaves signal_tree()'s locals alone. *)
LEMMA OutsideTheSweep ==
  ASSUME Base, [Next]_vars, ~SweepStep
  PROVE  /\ UNCHANGED <<unread, items, targets, target, scanned>>
         /\ \/ pc' = pc /\ signum' = signum
            \/ pc \notin Sweeping /\ pc' \notin Sweeping \ {"open"}
         /\ Has("armed")' <=> Has("armed")
         /\ Has("killed")' <=> Has("killed")
         /\ Has("direct_done") => Has("direct_done")'
<1> USE DEF Has, Raise, Goto, Return
<1>1. CASE \/ Setup \/ Prepare \/ ForkChild \/ ForkFails \/ ParentSetpgid \/ Handshake
           \/ (\E z \in Pids : Reap(z)) \/ DrainEnd \/ Sleep \/ Finish
  <2>1. UNCHANGED sweep /\ pc \notin Sweeping /\ pc' \notin Sweeping
    BY <1>1 DEF Setup, Prepare, ForkChild, ForkFails, ParentSetpgid, Handshake, Reap, DrainEnd,
       Sleep, Finish, Sweeping
  <2>2. /\ flags \subseteq flags'
        /\ flags' \subseteq flags \cup {"start_failed", "direct_done", "no_children",
                                        "internal"}
    BY <1>1 DEF Setup, Prepare, ForkChild, ForkFails, ParentSetpgid, Handshake, Reap, DrainEnd,
       Sleep, Finish
  <2> QED
    BY <2>1, <2>2 DEF sweep
<1>2. ASSUME NEW noclock,
             StartTerm(noclock) \/ StartKill(noclock) \/ GiveUp(noclock) \/ KeepWaiting(noclock)
      PROVE  /\ UNCHANGED <<unread, items, targets, target, scanned>>
             /\ pc \notin Sweeping /\ pc' \notin Sweeping \ {"open"}
             /\ Has("armed")' <=> Has("armed")
             /\ Has("killed")' <=> Has("killed")
             /\ Has("direct_done") => Has("direct_done")'
  <2>1. /\ "armed" \in Checked(noclock) <=> Has("armed")
        /\ "killed" \in Checked(noclock) <=> Has("killed")
        /\ "direct_done" \in Checked(noclock) <=> Has("direct_done")
    BY DEF Checked
  <2>2. /\ UNCHANGED <<unread, items, targets, target, scanned>>
        /\ pc = "decide" /\ pc' \in {"open", "finish", "sleep"}
    BY <1>2 DEF StartTerm, StartKill, GiveUp, KeepWaiting, sweep
  <2>3. flags' = Checked(noclock) \/ flags' = Checked(noclock) \cup {"internal"}
    BY <1>2 DEF StartTerm, StartKill, GiveUp, KeepWaiting
  <2> QED
    BY <2>1, <2>2, <2>3 DEF Sweeping
<1>3. CASE World \/ (\E n \in Interrupts : Interrupt(n)) \/ Tick \/ UNCHANGED vars
  BY <1>3 DEF World, Interrupt, Tick, supervisor, sweep, vars
<1> QED
  BY <1>1, <1>2, <1>3 DEF Next, Supervise, Terminated, SweepStep

LEMMA SweepStepIs ==
  ASSUME Base, SweepStep
  PROVE  /\ UNCHANGED <<rootVars, stage, signum>>
         /\ pc \in Sweeping /\ pc' \in Sweeping \cup {"sleep"}
         /\ flags \subseteq flags'
         /\ Has("direct_done")' <=> Has("direct_done")
<1>1. /\ UNCHANGED <<rootVars, stage, signum>>
      /\ pc \in Sweeping /\ pc' \in Sweeping \cup {"sleep"}
  BY DEF SweepStep, OpenProc, ReadStat, ScanEnd, GroupKill, Freed, Revalidate, KillOne, SweepEnd,
     Swept, sweep, Goto, Sweeping
<1>2. /\ flags \subseteq flags'
      /\ flags' \subseteq flags \cup {"uncertain", "internal", "armed", "killed"}
  BY ReadingOnlyDoubts DEF SweepStep, OpenProc, ScanEnd, GroupKill, Freed, KillOne, SweepEnd, Swept,
     Raise
<1> QED
  BY <1>1, <1>2 DEF Has

-----------------------------------------------------------------------------
(* The direct child is reached. *)

RootAlive == root \in Pids /\ IsRoot(root) /\ Live(root)

RootInv ==
  /\ scanned.from <= nextBirth
  /\ root \in Pids => rootBirth < nextBirth
  /\ pc \in {"setup", "prepare", "fork"} => root = NoPid

LEMMA RootInvStep ==
  ASSUME Base, RootInv, [Next]_vars
  PROVE  RootInv'
<1> USE DEF RootInv
<1>0. nextBirth \in Nat /\ rootBirth \in Nat /\ scanned.from \in Nat /\ NoPid \notin Pids
  BY AgentwatchAssumption DEF Base, Types, ProcTypeOK
<1>1. nextBirth' = nextBirth \/ nextBirth' = nextBirth + 1
  BY ProcessesPersist DEF Persistence
<1>2. scanned'.from \in {scanned.from, nextBirth}
  <2>1. CASE SweepStep
    <3>1. scanned' = scanned \/ scanned' = [from |-> nextBirth, to |-> nextBirth]
          \/ scanned' = [scanned EXCEPT !.to = nextBirth]
      BY <2>1 DEF SweepStep, OpenProc, ReadStat, ScanEnd, GroupKill, Freed, Revalidate, KillOne,
         SweepEnd, sweep
    <3>2. scanned \in [from : Nat, to : Nat]
      BY DEF Base, Types
    <3> QED
      BY <3>1, <3>2
  <2>2. CASE ~SweepStep
    BY <2>2, OutsideTheSweep
  <2> QED
    BY <2>1, <2>2
<1>3. CASE ForkChild
  <2>1. PICK q \in Pids : Spawn(q, SUP, SUP, TRUE) /\ root' = q /\ rootBirth' = nextBirth
    BY <1>3 DEF ForkChild
  <2>2. nextBirth' = nextBirth + 1 /\ pc' = "setpgid"
    BY <1>3, <2>1 DEF Spawn, ForkChild, Goto
  <2> QED
    BY <1>0, <1>2, <2>1, <2>2
<1>4. CASE UNCHANGED rootVars
  <2>1. pc' \in {"setup", "prepare", "fork"} => pc \in {"setup", "prepare", "fork"}
    <3>1. CASE Supervise
      BY <3>1 DEF Supervise, Setup, Prepare, ForkChild, ForkFails, ParentSetpgid, Handshake, Reap,
         DrainEnd, StartTerm, StartKill, GiveUp, KeepWaiting, Sleep, Finish, OpenProc,
         ReadStat, ScanEnd, GroupKill, Freed, Revalidate, KillOne, SweepEnd, Swept, Goto, Return
    <3>2. CASE World \/ (\E n \in Interrupts : Interrupt(n)) \/ Tick \/ UNCHANGED vars
      BY <3>2 DEF World, Interrupt, Tick, supervisor, vars
    <3> QED
      BY <3>1, <3>2 DEF Next, Terminated
  <2> QED
    BY <1>0, <1>1, <1>2, <1>4, <2>1 DEF rootVars
<1> QED
  BY <1>3, <1>4, RootIsChosenOnce

LEMMA RootInvAlways == Spec => []RootInv
<1>1. Init => RootInv
  BY AgentwatchAssumption DEF Init, ProcInit, RootInv
<1>2. Base /\ RootInv /\ [Next]_vars => RootInv'
  BY RootInvStep
<1> QED
  BY <1>1, <1>2, BaseAlways, PTL DEF Spec

(* Whoever is the direct child after a step was it before, or was forked.  *)
LEMMA SameRoot ==
  ASSUME Base, RootInv, [Next]_vars, RootAlive'
  PROVE  \/ ForkChild
         \/ /\ RootAlive /\ root' = root /\ Outlives(root)
            /\ pc \notin {"setup", "prepare", "fork"}
<1>1. CASE UNCHANGED rootVars
  <2>1. root' = root /\ rootBirth' = rootBirth /\ root \in Pids
    BY <1>1 DEF rootVars, RootAlive
  <2>2. InUse(root)' /\ proc'[root].birth = rootBirth /\ Live(root)'
    BY <2>1 DEF RootAlive, IsRoot, InUse, Live
  <2>3. proc'[root].st # "free" /\ proc'[root].st = "live"
    BY <2>1 DEF RootAlive, Live
  <2>4. InUse(root) /\ Outlives(root)
    <3>1. rootBirth < nextBirth /\ nextBirth \in Nat /\ rootBirth \in Nat
      BY <2>1 DEF RootInv, Base, Types, ProcTypeOK
    <3> QED
      BY <2>1, <2>2, <2>3, <3>1, ProcessesPersist DEF Persistence, InUse
  <2>5. RootAlive
    BY <2>1, <2>2, <2>3, <2>4 DEF RootAlive, IsRoot, Outlives, Live
  <2>6. pc \notin {"setup", "prepare", "fork"}
    BY <2>1, AgentwatchAssumption DEF RootInv
  <2> QED
    BY <2>1, <2>4, <2>5, <2>6
<1>2. CASE ForkChild
  BY <1>2
<1> QED
  BY <1>1, <1>2, RootIsChosenOnce

(* Whichever of the two setpgid calls comes first, the direct child leads  *)
(* its own group by the time anybody could signal that group.              *)
GroupedRoot ==
  RootAlive /\ ~(stage = "forked" /\ pc = "setpgid") => proc[root].pgid = root

LEMMA GroupedRootStep ==
  ASSUME "setpgid" \notin Faults, Base, RootInv, GroupedRoot, [Next]_vars
  PROVE  GroupedRoot'
<1> SUFFICES ASSUME RootAlive', ~(stage' = "forked" /\ pc' = "setpgid")
             PROVE  proc'[root'].pgid = root'
  BY DEF GroupedRoot
<1> USE DEF Base, Types, ProcTypeOK, Process
<1>1. /\ RootAlive /\ root' = root /\ Outlives(root) /\ root \in Pids
      /\ Live(root) /\ proc'[root].st = "live"
  <2>1. ~ForkChild
    BY DEF ForkChild, Goto
  <2>2. RootAlive /\ root' = root /\ Outlives(root)
    BY <2>1, SameRoot
  <2> QED
    BY <2>2 DEF RootAlive, Live
<1>2. CASE ~(stage = "forked" /\ pc = "setpgid")
  BY <1>1, <1>2 DEF GroupedRoot, Outlives
<1>3. CASE stage = "forked" /\ pc = "setpgid"
  <2>1. ASSUME proc' = Grouped(root) PROVE proc'[root'].pgid = root'
    BY <1>1, <2>1 DEF Grouped
  <2>2. CASE ParentSetpgid
    BY <1>1, <1>3, <2>1, <2>2 DEF ParentSetpgid, Fails
  <2>3. CASE World
    <3>1. pc' = pc /\ stage' # "forked"
      BY <1>3, <2>3 DEF World, supervisor
    <3>2. CASE ChildSetpgid
      BY <1>3, <2>1, <3>2 DEF ChildSetpgid, Fails
    <3>3. CASE ChildExec
      BY <1>3, <3>3 DEF ChildExec
    <3>4. ASSUME NEW p \in Pids, Exit(p) PROVE FALSE
      <4>1. p = root /\ Perish(p)
        BY <1>3, <3>1, <3>4 DEF Exit, IsRoot
      <4> QED
        BY <1>1, <4>1 DEF Perish, Free
    <3>5. ASSUME NEW p \in Pids, Act(p) PROVE FALSE
      BY <1>3, <3>1, <3>5 DEF Act
    <3> QED
      BY <1>3, <2>3, <3>1, <3>2, <3>3, <3>4, <3>5 DEF World
  <2>4. CASE (\E n \in Interrupts : Interrupt(n)) \/ Tick \/ UNCHANGED vars
    BY <1>3, <2>4 DEF Interrupt, Tick, supervisor, vars
  <2>5. CASE Supervise /\ ~ParentSetpgid
    BY <1>3, <2>5 DEF Supervise, Setup, Prepare, ForkChild, ForkFails, Handshake, Reap, DrainEnd,
       StartTerm, StartKill, GiveUp, KeepWaiting, Sleep, Finish, OpenProc, ReadStat,
       ScanEnd, GroupKill, Freed, Revalidate, KillOne, SweepEnd
  <2> QED
    BY <2>2, <2>3, <2>4, <2>5 DEF Next, Terminated
<1> QED
  BY <1>2, <1>3

(* A sweep past its group signal has reached the direct child. *)
RootHit ==
  pc \in {"next", "kill"} /\ RootAlive => signum \in proc[root].got

LEMMA RootHitStep ==
  ASSUME "kill" \notin Faults, Base, RootInv, GroupedRoot, RootHit, [Next]_vars
  PROVE  RootHit'
<1> SUFFICES ASSUME pc' \in {"next", "kill"}, RootAlive'
             PROVE  signum' \in proc'[root'].got
  BY DEF RootHit
<1>1. RootAlive /\ root' = root /\ proc[root].got \subseteq proc'[root].got
  <2>1. ~ForkChild
    BY DEF ForkChild, Goto
  <2> QED
    BY <2>1, SameRoot DEF Outlives
<1>2. CASE ~SweepStep
  BY <1>1, <1>2, OutsideTheSweep DEF RootHit, Sweeping
<1>3. CASE GroupKill
  <2>1. /\ pc = "group" /\ signum' = signum
        /\ proc' = Signalled(GroupSignalled, signum)
    BY <1>3 DEF GroupKill, Freed, Fails
  <2>2. root \in Pids /\ Live(root) /\ root \in GroupSignalled
    BY <1>1, <2>1 DEF RootAlive, GroupedRoot, GroupSignalled, GroupOf, InUse, Live
  <2> QED
    BY <1>1, <2>1, <2>2 DEF Signalled, Base, Types, ProcTypeOK, Process
<1>4. CASE (\E i \in targets : Revalidate(i)) \/ KillOne
  <2>1. pc \in {"next", "kill"} /\ signum' = signum
    BY <1>4 DEF Revalidate, KillOne
  <2> QED
    BY <1>1, <2>1 DEF RootHit
<1>5. CASE OpenProc \/ (\E p \in Pids : ReadStat(p)) \/ ScanEnd \/ SweepEnd
  BY <1>5 DEF OpenProc, ReadStat, ScanEnd, SweepEnd, Swept, Goto
<1> QED
  BY <1>2, <1>3, <1>4, <1>5 DEF SweepStep

LEMMA RootHitAlways ==
  ASSUME {"kill", "setpgid"} \cap Faults = {}
  PROVE  Spec => [](GroupedRoot /\ RootHit)
<1>1. Init => GroupedRoot /\ RootHit
  BY AgentwatchAssumption DEF Init, GroupedRoot, RootHit, RootAlive
<1>2. Base /\ RootInv /\ GroupedRoot /\ RootHit /\ [Next]_vars => (GroupedRoot /\ RootHit)'
  BY GroupedRootStep, RootHitStep
<1> QED
  BY <1>1, <1>2, BaseAlways, RootInvAlways, PTL DEF Spec

LEMMA SignalledRootStep ==
  ASSUME "calloc" \notin Faults, Base, GoneInv, RootInv, RootHit, SweepReachesRoot,
         [Next]_vars
  PROVE  SweepReachesRoot'
<1>1. SUFFICES ASSUME RootAlive'
               PROVE  /\ Has("armed")' => "TERM" \in proc'[root'].got
                      /\ Has("killed")' => "KILL" \in proc'[root'].got
  BY DEF SweepReachesRoot, RootAlive, IsRoot, Live
<1>2. CASE ForkChild
  BY <1>2 DEF ForkChild, GoneInv, Has
<1>3. CASE ~ForkChild
  <2>1. RootAlive /\ root' = root /\ proc[root].got \subseteq proc'[root].got
    BY <1>1, <1>3, SameRoot DEF Outlives
  <2>2. /\ Has("armed") => "TERM" \in proc[root].got
        /\ Has("killed") => "KILL" \in proc[root].got
    BY <2>1 DEF SweepReachesRoot, RootAlive
  <2>3. CASE ~SweepStep
    BY <2>1, <2>2, <2>3, OutsideTheSweep
  <2>4. CASE SweepEnd
    <3>1. pc = "next" /\ Swept({})
      BY <2>4 DEF SweepEnd
    <3>2. signum \in proc[root].got /\ signum \in {"TERM", "KILL"}
      BY <2>1, <3>1 DEF RootHit, Base, Types, Signals
    <3>3. \/ signum = "TERM" /\ flags' = flags \cup {"armed"}
          \/ signum = "KILL" /\ flags' = flags \cup {"killed"}
      BY <3>1, <3>2 DEF Swept, Raise
    <3> QED
      BY <2>1, <2>2, <3>2, <3>3 DEF Has
  <2>5. CASE \/ OpenProc \/ (\E p \in Pids : ReadStat(p)) \/ ScanEnd \/ GroupKill
             \/ (\E i \in targets : Revalidate(i)) \/ KillOne
    <3>1. flags' \subseteq flags \cup {"uncertain", "internal"}
      BY <2>5, ReadingOnlyDoubts DEF OpenProc, ScanEnd, GroupKill, Freed, KillOne, Fails, Raise
    <3> QED
      BY <2>1, <2>2, <3>1 DEF Has
  <2> QED
    BY <2>3, <2>4, <2>5 DEF SweepStep
<1> QED
  BY <1>2, <1>3

(* A direct child that is alive after a sweep was sent the sweep's signal, *)
(* whatever else goes wrong, unless one of the three calls that take part  *)
(* fails: setpgid(2), kill(2), and the allocation of the scan's table.     *)
THEOREM DirectChildIsReached ==
  ASSUME {"kill", "setpgid", "calloc"} \cap Faults = {}
  PROVE  Spec => []SweepReachesRoot
<1>1. Init => SweepReachesRoot
  BY DEF Init, SweepReachesRoot, Has
<1>2. Base /\ GoneInv /\ RootInv /\ GroupedRoot /\ RootHit /\ SweepReachesRoot /\ [Next]_vars
        => SweepReachesRoot'
  BY SignalledRootStep
<1>3. {"kill", "setpgid"} \cap Faults = {}
  OBVIOUS
<1>4. Spec => [](GroupedRoot /\ RootHit)
  BY <1>3, RootHitAlways
<1> QED
  BY <1>1, <1>2, <1>4, BaseAlways, GoneAlways, RootInvAlways, PTL DEF Spec

-----------------------------------------------------------------------------
(* The descendants are reached. *)

(* Was there when the scan began. *)
Old(p) == InUse(p) /\ proc[p].birth < scanned.from

(* What was there when the scan began and has a parent in the table has    *)
(* had that parent ever since: it is in the scan's records once it was     *)
(* read, among the targets if it is connected, and signalled in the end.   *)
ReachInv ==
  /\ pc = "scan" => \A p \in Pids \ unread :
       Old(p) /\ proc[p].ppid \in Pids => StatOf(p) \in items
  /\ pc = "group" => \A p \in Pids :
       Old(p) /\ proc[p].ppid \in Pids => StatOf(p) \in items
  /\ pc \in {"next", "kill"} => \A p \in Pids :
       Live(p) /\ Old(p) /\ Attached(p) /\ p # root =>
         StatOf(p) \in targets \/ signum \in proc[p].got \/ (pc = "kill" /\ target = p)

(* A process on its own is attached only if it is the direct child. *)
LEMMA AttachedHasParent ==
  ASSUME NEW p \in Pids, Attached(p), p # root
  PROVE  proc[p].ppid \in Pids
<1>1. SUFFICES ASSUME proc[p].ppid \notin Pids PROVE FALSE
  OBVIOUS
<1>2. {p} \in SUBSET Pids /\ p \in {p} /\ \A q \in {p} : proc[q].ppid \notin Pids
  BY <1>1
<1>3. \E q \in {p} : IsRoot(q) /\ Live(q)
  BY <1>2 DEF Attached
<1> QED
  BY <1>3 DEF IsRoot

LEMMA AttachedHasRoot ==
  ASSUME NEW p \in Pids, Attached(p)
  PROVE  RootAlive
<1>1. Pids \in SUBSET Pids
  OBVIOUS
<1>2. \E q \in Pids : IsRoot(q) /\ Live(q)
  BY <1>1 DEF Attached
<1> QED
  BY <1>2 DEF RootAlive, IsRoot

(* Nothing old becomes attached, and what stays attached keeps its parent. *)
LEMMA NothingIsAttachedAnew ==
  ASSUME Base, [Next]_vars, UNCHANGED rootVars,
         NEW p \in Pids, InUse(p), InUse(p)', Attached(p)'
  PROVE  /\ Attached(p)
         /\ p # root => proc'[p].ppid \in Pids
<1>1. Ancestry /\ Ancestry'
  BY BaseStep DEF Base
<1>2. \A q \in Pids : InUse(q) /\ InUse(q)' => Outlives(q)
  BY ProcessesPersist DEF Persistence
<1>3. \A T \in SUBSET Pids :
        (p \in T /\ \A q \in T : proc'[q].ppid \in Pids => proc'[q].ppid \in T)
          => \E q \in T : q = root /\ proc'[q].birth = rootBirth /\ proc'[q].st = "live"
  BY DEF Attached, IsRoot, Live, rootVars
<1>4. Attached(p)
  <2>1. SUFFICES ASSUME NEW S \in SUBSET Pids, p \in S,
                        \A q \in S : proc[q].ppid \in Pids => proc[q].ppid \in S
                 PROVE  \E q \in S : IsRoot(q) /\ Live(q)
    BY DEF Attached
  <2> DEFINE T == {q \in S : proc[q].st # "free" /\ proc'[q].st # "free"}
  <2>2. T \in SUBSET Pids /\ p \in T
    BY <2>1 DEF InUse
  <2>3. ASSUME NEW q \in T, proc'[q].ppid \in Pids PROVE proc'[q].ppid \in T
    <3>1. InUse(q) /\ InUse(q)' /\ q \in Pids /\ q \in S
      BY DEF InUse
    <3>2. proc'[q].ppid = proc[q].ppid
      BY <1>2, <2>3, <3>1 DEF Outlives
    <3>3. proc[proc[q].ppid].st = "live" /\ proc'[proc'[q].ppid].st = "live"
      BY <1>1, <2>3, <3>1, <3>2 DEF Ancestry, Live
    <3> QED
      BY <2>1, <2>3, <3>1, <3>2, <3>3
  <2>4. PICK q \in T : q = root /\ proc'[q].birth = rootBirth /\ proc'[q].st = "live"
    <3> HIDE DEF T
    <3> QED
      BY <1>3, <2>2, <2>3
  <2>5. q \in S /\ InUse(q) /\ InUse(q)' /\ Live(q)'
    BY <2>4 DEF InUse, Live
  <2>6. Outlives(q)
    BY <1>2, <2>5
  <2> QED
    BY <2>4, <2>5, <2>6 DEF Outlives, IsRoot
<1>5. ASSUME p # root PROVE proc'[p].ppid \in Pids
  <2>1. SUFFICES ASSUME proc'[p].ppid \notin Pids PROVE FALSE
    OBVIOUS
  <2>2. {p} \in SUBSET Pids /\ p \in {p} /\ \A q \in {p} : proc'[q].ppid \notin Pids
    BY <2>1
  <2>3. \E q \in {p} : q = root
    BY <1>3, <2>2
  <2> QED
    BY <1>5, <2>3
<1> QED
  BY <1>4, <1>5

(* The old were there a step ago, with the record they have now. *)
LEMMA TheOldWereThere ==
  ASSUME Base, RootInv, [Next]_vars, scanned'.from = scanned.from,
         NEW p \in Pids, Old(p)'
  PROVE  /\ Old(p) /\ InUse(p)' /\ Outlives(p)
         /\ proc'[p].ppid \in Pids => proc[p].ppid \in Pids /\ StatOf(p)' = StatOf(p)
<1>1. InUse(p)' /\ proc'[p].birth < scanned.from /\ scanned.from <= nextBirth
      /\ scanned.from \in Nat /\ nextBirth \in Nat
  BY DEF Old, RootInv, Base, Types, ProcTypeOK
<1>2. InUse(p) /\ Outlives(p)
  BY <1>1, ProcessesPersist DEF Persistence
<1> QED
  BY <1>1, <1>2 DEF Old, Outlives, StatOf

(* The connection loop finds all of them: the ones it missed would be a    *)
(* set that is closed under parents and has no direct child in it.         *)
LEMMA ConnectionFindsTheAttached ==
  ASSUME Base,
         \A q \in Pids : Old(q) /\ proc[q].ppid \in Pids => StatOf(q) \in items,
         NEW p \in Pids, Live(p), Old(p), Attached(p), p # root
  PROVE  StatOf(p) \in {i \in Connected : i.pid # root}
<1> USE DEF Base, Types, ProcTypeOK, Process
<1>1. proc[p].ppid \in Pids
  BY AttachedHasParent
<1>2. StatOf(p) \in items /\ StatOf(p).pid = p
  BY <1>1 DEF StatOf
<1>3. ASSUME NEW S \in SUBSET items, Closed(S) PROVE StatOf(p) \in S
  <2> DEFINE Missed == {q \in Pids : Old(q) /\ q # root /\ StatOf(q) \notin S}
  <2>1. SUFFICES ASSUME p \in Missed PROVE FALSE
    BY <1>2
  <2>2. ASSUME NEW q \in Missed, proc[q].ppid \in Pids PROVE proc[q].ppid \in Missed
    <3>1. q \in Pids /\ Old(q) /\ StatOf(q) \notin S
      OBVIOUS
    <3> DEFINE r == proc[q].ppid
    <3>2. StatOf(q) \in items /\ StatOf(q).ppid = r
      BY <2>2, <3>1 DEF StatOf
    <3>3. r # root /\ \A j \in S : r # j.pid
      BY <1>3, <3>1, <3>2 DEF Closed
    <3>4. StatOf(r) \notin S
      BY <3>3 DEF StatOf
    <3>5. Old(r)
      <4>1. Live(r) /\ proc[r].birth < proc[q].birth
        BY <2>2, <3>1 DEF Ancestry, Old
      <4>2. proc[r].birth \in Nat /\ proc[q].birth \in Nat /\ scanned.from \in Nat
        BY <2>2, <3>1
      <4> QED
        BY <3>1, <4>1, <4>2 DEF Old, Live, InUse
    <3> QED
      BY <2>2, <3>3, <3>4, <3>5
  <2>3. Missed \in SUBSET Pids /\ \A q \in Missed : ~IsRoot(q)
    BY DEF IsRoot
  <2> HIDE DEF Missed
  <2> QED
    BY <2>1, <2>2, <2>3 DEF Attached
<1>4. StatOf(p) \in Connected
  BY <1>2, <1>3 DEF Connected
<1> QED
  BY <1>2, <1>4

LEMMA ReachInvStep ==
  ASSUME {"opendir", "limit", "stat", "kill"} \cap Faults = {},
         Base, RootInv, ReachInv, [Next]_vars
  PROVE  ReachInv'
<1> SUFFICES ASSUME pc' \in {"scan", "group", "next", "kill"} PROVE ReachInv'
  BY DEF ReachInv
<1> USE DEF Fails
<1>0. ASSUME NEW p \in Pids, Live(p)', Old(p)', Attached(p)', p # root',
             scanned'.from = scanned.from, UNCHANGED rootVars
      PROVE  /\ Live(p) /\ Old(p) /\ Attached(p) /\ p # root
             /\ StatOf(p)' = StatOf(p) /\ proc[p].got \subseteq proc'[p].got
  <2>1. /\ Old(p) /\ InUse(p) /\ InUse(p)' /\ Outlives(p)
        /\ proc'[p].ppid \in Pids => StatOf(p)' = StatOf(p)
    BY <1>0, TheOldWereThere DEF Old
  <2>2. Attached(p) /\ p # root /\ proc'[p].ppid \in Pids
    BY <1>0, <2>1, NothingIsAttachedAnew DEF rootVars
  <2> QED
    BY <1>0, <2>1, <2>2 DEF Outlives
<1>1. CASE ~SweepStep
  <2>1. /\ pc' = pc /\ signum' = signum
        /\ UNCHANGED <<unread, items, targets, target, scanned>>
    BY <1>1, OutsideTheSweep DEF Sweeping
  <2>2. UNCHANGED rootVars
    BY <2>1, RootIsChosenOnce
  <2>3. \A p \in Pids : Old(p)' /\ proc'[p].ppid \in Pids =>
          Old(p) /\ proc[p].ppid \in Pids /\ StatOf(p)' = StatOf(p)
    BY <2>1, TheOldWereThere
  <2>4. CASE pc \in {"scan", "group"}
    BY <2>1, <2>3, <2>4 DEF ReachInv
  <2>5. CASE pc \in {"next", "kill"}
    <3>1. SUFFICES ASSUME NEW p \in Pids, Live(p)', Old(p)', Attached(p)', p # root'
                   PROVE  (StatOf(p) \in targets \/ signum \in proc[p].got
                           \/ (pc = "kill" /\ target = p))'
      BY <2>1, <2>5 DEF ReachInv
    <3>2. /\ Live(p) /\ Old(p) /\ Attached(p) /\ p # root
          /\ StatOf(p)' = StatOf(p) /\ proc[p].got \subseteq proc'[p].got
      BY <1>0, <2>1, <2>2, <3>1
    <3>3. StatOf(p) \in targets \/ signum \in proc[p].got \/ (pc = "kill" /\ target = p)
      BY <2>5, <3>2 DEF ReachInv
    <3> QED
      BY <2>1, <3>2, <3>3
  <2> QED
    BY <2>1, <2>4, <2>5
<1>2. CASE OpenProc
  BY <1>2 DEF OpenProc, Goto, Swept, ReachInv
<1>3. ASSUME NEW p \in Pids, ReadStat(p) PROVE ReachInv'
  <2>1. /\ pc = "scan" /\ pc' = "scan" /\ UNCHANGED <<kernel, scanned>>
        /\ unread' = unread \ {p}
    BY <1>3 DEF ReadStat
  <2>2. items \subseteq items' /\ (InUse(p) => StatOf(p) \in items')
    BY <1>3 DEF ReadStat, ReadIdentity
  <2>3. SUFFICES ASSUME NEW q \in Pids \ unread', Old(q)', proc'[q].ppid \in Pids
                 PROVE  StatOf(q)' \in items'
    BY <2>1 DEF ReachInv
  <2>4. Old(q) /\ InUse(q) /\ proc[q].ppid \in Pids /\ StatOf(q)' = StatOf(q)
    BY <2>1, <2>3 DEF Old, InUse, StatOf, kernel
  <2> QED
    BY <2>1, <2>2, <2>3, <2>4 DEF ReachInv
<1>4. CASE ScanEnd
  <2>1. /\ pc = "scan" /\ pc' = "group" /\ unread = {} /\ UNCHANGED <<kernel, items>>
        /\ scanned'.from = scanned.from
    BY <1>4 DEF ScanEnd, Goto, Base, Types
  <2>2. \A q \in Pids : Old(q)' /\ proc'[q].ppid \in Pids =>
          Old(q) /\ proc[q].ppid \in Pids /\ StatOf(q)' = StatOf(q)
    BY <2>1 DEF Old, InUse, StatOf, kernel
  <2> QED
    BY <2>1, <2>2 DEF ReachInv
<1>5. CASE GroupKill
  <2>1. /\ pc = "group" /\ pc' = "next" /\ UNCHANGED <<scanned, rootVars>>
        /\ targets' = {i \in Connected : i.pid # root}
    BY <1>5 DEF GroupKill, Freed, Goto
  <2>2. SUFFICES ASSUME NEW p \in Pids, Live(p)', Old(p)', Attached(p)', p # root'
                 PROVE  StatOf(p)' \in targets'
    BY <2>1 DEF ReachInv
  <2>3. Live(p) /\ Old(p) /\ Attached(p) /\ p # root /\ StatOf(p)' = StatOf(p)
    BY <1>0, <2>1, <2>2
  <2> QED
    BY <2>1, <2>3, ConnectionFindsTheAttached DEF ReachInv
<1>6. ASSUME NEW i \in targets, Revalidate(i) PROVE ReachInv'
  <2>1. /\ pc = "next" /\ pc' \in {"next", "kill"} /\ UNCHANGED <<kernel, scanned, rootVars, signum>>
        /\ targets' = targets \ {i}
    BY <1>6 DEF Revalidate, Goto
  <2>2. SUFFICES ASSUME NEW p \in Pids, Live(p)', Old(p)', Attached(p)', p # root'
                 PROVE  (StatOf(p) \in targets \/ signum \in proc[p].got
                         \/ (pc = "kill" /\ target = p))'
    BY <2>1 DEF ReachInv
  <2>3. /\ Live(p) /\ Old(p) /\ Attached(p) /\ p # root
        /\ StatOf(p)' = StatOf(p) /\ proc[p].got \subseteq proc'[p].got
    BY <1>0, <2>1, <2>2
  <2>4. StatOf(p) \in targets \/ signum \in proc[p].got
    BY <2>1, <2>3 DEF ReachInv
  <2>5. CASE StatOf(p) = i
    <3>1. i.pid = p /\ i.birth = proc[p].birth /\ InUse(p)
      BY <2>3, <2>5 DEF StatOf, Old
    <3>2. \A r \in ReadIdentity(i.pid) : r.found = {StatOf(p)}
      BY <3>1 DEF ReadIdentity
    <3>3. \A r \in ReadIdentity(i.pid) : SameProcess(i, r)
      BY <2>5, <3>2 DEF SameProcess
    <3>4. target' = p /\ pc' = "kill"
      BY <1>6, <3>1, <3>3 DEF Revalidate, Goto
    <3> QED
      BY <3>4
  <2>6. CASE StatOf(p) # i
    BY <2>1, <2>3, <2>4, <2>6
  <2> QED
    BY <2>5, <2>6
<1>7. CASE KillOne
  <2>1. /\ pc = "kill" /\ pc' = "next" /\ UNCHANGED <<scanned, rootVars, signum, targets>>
        /\ proc' = Signalled({target}, signum)
    BY <1>7 DEF KillOne, Goto
  <2>2. SUFFICES ASSUME NEW p \in Pids, Live(p)', Old(p)', Attached(p)', p # root'
                 PROVE  (StatOf(p) \in targets \/ signum \in proc[p].got)'
    BY <2>1 DEF ReachInv
  <2>3. /\ Live(p) /\ Old(p) /\ Attached(p) /\ p # root
        /\ StatOf(p)' = StatOf(p) /\ proc[p].got \subseteq proc'[p].got
    BY <1>0, <2>1, <2>2
  <2>4. StatOf(p) \in targets \/ signum \in proc[p].got \/ target = p
    BY <2>1, <2>3 DEF ReachInv
  <2>5. CASE target = p
    BY <2>1, <2>3, <2>5 DEF Signalled, Base, Types, ProcTypeOK, Process
  <2> QED
    BY <2>1, <2>3, <2>4, <2>5
<1>8. CASE SweepEnd
  BY <1>8 DEF SweepEnd, Swept, Goto
<1> QED
  BY <1>1, <1>2, <1>3, <1>4, <1>5, <1>6, <1>7, <1>8 DEF SweepStep

(* No descendant that stays attached is missed, whatever else the tree     *)
(* does: if /proc can be listed to its end and read, and if kill(2) and    *)
(* setpgid(2) work.                                                        *)
THEOREM SweepReachesTheAttached ==
  ASSUME {"opendir", "limit", "stat", "kill", "setpgid"} \cap Faults = {}
  PROVE  Spec => []SweepComplete
<1>1. Init => ReachInv
  BY DEF Init, ReachInv
<1>2. {"opendir", "limit", "stat", "kill"} \cap Faults = {} /\ {"kill", "setpgid"} \cap Faults = {}
  OBVIOUS
<1>3. Base /\ RootInv /\ ReachInv /\ [Next]_vars => ReachInv'
  BY <1>2, ReachInvStep
<1>4. Spec => [](GroupedRoot /\ RootHit)
  BY <1>2, RootHitAlways
<1>5. ReachInv /\ RootHit => SweepComplete
  <2>1. SUFFICES ASSUME ReachInv, RootHit, SweepOver,
                        NEW p \in Pids, Live(p), proc[p].birth < scanned.from, Attached(p)
                 PROVE  signum \in proc[p].got
    BY DEF SweepComplete
  <2>2. CASE p = root
    BY <2>1, <2>2, AttachedHasRoot DEF RootHit, SweepOver
  <2>3. CASE p # root
    BY <2>1, <2>3 DEF ReachInv, SweepOver, Old, Live, InUse
  <2> QED
    BY <2>2, <2>3
<1> QED
  BY <1>1, <1>3, <1>4, <1>5, BaseAlways, RootInvAlways, PTL DEF Spec

-----------------------------------------------------------------------------
(* Strangers are spared. *)

(* O is the set of the numbers that were the command's while i was read.   *)
Agrees(O, i) ==
  /\ i.ppid \in Pids => (i.pid \in O <=> i.ppid \in O)
  /\ InUse(i.pid) /\ proc[i.pid].birth = i.birth => (proc[i.pid].ours <=> i.pid \in O)

(* As long as no process is created, one set of numbers says what was the  *)
(* command's all through the scan, and the records agree with it; what the *)
(* connection loop keeps is then the command's own, for as long as it      *)
(* lives.                                                                  *)
OriginInv ==
  /\ pc \notin {"scan", "group"} => items = {}
  /\ \A i \in items \cup targets : i.birth < nextBirth
  /\ ~Has("direct_done") /\ pc = "scan" /\ scanned.from = nextBirth =>
       \E O \in SUBSET Pids :
         /\ root \in O /\ \A i \in items : Agrees(O, i)
         /\ \A p \in Pids : InUse(p) => (proc[p].ours <=> p \in O)
  /\ ~Has("direct_done") /\ pc = "group" /\ scanned.from = scanned.to =>
       \E O \in SUBSET Pids : root \in O /\ \A i \in items : Agrees(O, i)
  /\ ~Has("direct_done") /\ pc \in {"next", "kill"} /\ scanned.from = scanned.to =>
       \A i \in targets :
         InUse(i.pid) /\ proc[i.pid].birth = i.birth => proc[i.pid].ours

(* A record of a process that was is about the same process afterwards.    *)
LEMMA RecordsStayTrue ==
  ASSUME Base, [Next]_vars, NEW i \in Identity, i.birth < nextBirth,
         InUse(i.pid)', proc'[i.pid].birth = i.birth
  PROVE  InUse(i.pid) /\ proc[i.pid].birth = i.birth
         /\ proc'[i.pid].ours = proc[i.pid].ours
<1>1. i.pid \in Pids /\ i.birth \in Nat /\ nextBirth \in Nat
  BY DEF Identity, Base, Types, ProcTypeOK
<1> QED
  BY <1>1, ProcessesPersist DEF Persistence, Outlives

LEMMA AgreementLasts ==
  ASSUME Base, [Next]_vars, NEW O \in SUBSET Pids, NEW i \in Identity,
         i.birth < nextBirth, Agrees(O, i)
  PROVE  Agrees(O, i)'
<1>1. SUFFICES ASSUME InUse(i.pid)', proc'[i.pid].birth = i.birth
               PROVE  proc'[i.pid].ours <=> i.pid \in O
  BY DEF Agrees
<1> QED
  BY <1>1, RecordsStayTrue DEF Agrees

(* What a record is read of agrees: a process and its parent are both of   *)
(* the tree or neither is.                                                 *)
LEMMA WhatIsReadAgrees ==
  ASSUME Base, NEW O \in SUBSET Pids, NEW p \in Pids, InUse(p),
         \A q \in Pids : InUse(q) => (proc[q].ours <=> q \in O)
  PROVE  Agrees(O, StatOf(p)) /\ StatOf(p).birth < nextBirth
<1>1. proc[p].ppid \in Pids =>
        InUse(proc[p].ppid) /\ proc[proc[p].ppid].ours = proc[p].ours
  BY DEF Base, Ancestry, Live, InUse
<1> QED
  BY <1>1 DEF Agrees, StatOf, Base, Ancestry

(* What is connected to a number of the command's is the command's. *)
LEMMA ConnectedIsOurs ==
  ASSUME NEW O \in SUBSET Pids, root \in O, \A i \in items : Agrees(O, i), items \subseteq Identity
  PROVE  \A i \in Connected : i.pid \in O
<1> DEFINE S == {i \in items : i.pid \in O}
<1>1. Closed(S)
  <2>1. SUFFICES ASSUME NEW i \in items, i.ppid = root \/ \E j \in S : i.ppid = j.pid
                 PROVE  i.pid \in O
    BY DEF Closed
  <2>2. i.ppid \in O
    BY <2>1
  <2> QED
    BY <2>2 DEF Agrees
<1>2. S \in SUBSET items
  OBVIOUS
<1> QED
  BY <1>1, <1>2 DEF Connected

LEMMA OriginInvStep ==
  ASSUME Base, RootHeld, FlagsInv, RootInv, OriginInv, [Next]_vars
  PROVE  OriginInv'
<1> USE DEF Base, Types
<1>0. /\ items \subseteq Identity /\ targets \subseteq Identity
      /\ nextBirth \in Nat /\ scanned \in [from : Nat, to : Nat]
      /\ scanned.from <= nextBirth
      /\ nextBirth' = nextBirth \/ nextBirth' = nextBirth + 1
  BY ProcessesPersist DEF ProcTypeOK, RootInv, Persistence
<1>1. \A i \in items \cup targets : i.birth < nextBirth /\ i.birth \in Nat /\ i.pid \in Pids
  BY <1>0 DEF OriginInv, Identity
<1>2. \A i \in items \cup targets : i.birth < nextBirth'
  BY <1>0, <1>1
<1>3. \A O \in SUBSET Pids : \A i \in items : Agrees(O, i) => Agrees(O, i)'
  BY <1>0, <1>1, AgreementLasts
<1>4. CASE ~SweepStep
  <2>1. /\ UNCHANGED <<unread, items, targets, target, scanned>>
        /\ pc' = pc \/ (pc \notin Sweeping /\ pc' \notin Sweeping \ {"open"})
        /\ Has("direct_done") => Has("direct_done")'
    BY <1>4, OutsideTheSweep
  <2>2. pc' \notin {"scan", "group"} => items' = {}
    BY <2>1 DEF OriginInv, Sweeping
  <2>3. CASE pc' \in {"scan", "group", "next", "kill"} /\ ~Has("direct_done")'
    <3>1. pc' = pc /\ ~Has("direct_done") /\ UNCHANGED rootVars
      <4>1. pc' = pc /\ ~Has("direct_done")
        BY <2>1, <2>3 DEF Sweeping
      <4> QED
        BY <2>3, <4>1, RootIsChosenOnce
    <3>2. CASE pc = "scan"
      <4>1. SUFFICES ASSUME scanned'.from = nextBirth'
                     PROVE  \E O \in SUBSET Pids :
                              /\ root' \in O /\ \A i \in items' : Agrees(O, i)'
                              /\ \A p \in Pids : InUse(p)' => (proc'[p].ours <=> p \in O)
        BY <1>2, <2>1, <2>2, <3>1, <3>2 DEF OriginInv
      <4>2. scanned.from = nextBirth /\ nextBirth' = nextBirth
        BY <1>0, <2>1, <4>1
      <4>3. PICK O \in SUBSET Pids :
              /\ root \in O /\ \A i \in items : Agrees(O, i)
              /\ \A p \in Pids : InUse(p) => (proc[p].ours <=> p \in O)
        BY <3>1, <3>2, <4>2 DEF OriginInv
      <4>4. \A p \in Pids : InUse(p)' => InUse(p) /\ proc'[p].ours = proc[p].ours
        BY <1>0, <4>2, ProcessesPersist DEF Persistence, Outlives
      <4> QED
        BY <1>3, <2>1, <3>1, <4>3, <4>4 DEF rootVars
    <3>3. CASE pc = "group"
      <4>1. SUFFICES ASSUME scanned.from = scanned.to
                     PROVE  \E O \in SUBSET Pids : root' \in O /\ \A i \in items' : Agrees(O, i)'
        BY <1>2, <2>1, <2>2, <3>1, <3>3 DEF OriginInv
      <4>2. PICK O \in SUBSET Pids : root \in O /\ \A i \in items : Agrees(O, i)
        BY <3>1, <3>3, <4>1 DEF OriginInv
      <4> QED
        BY <1>3, <2>1, <3>1, <4>2 DEF rootVars
    <3>4. CASE pc \in {"next", "kill"}
      <4>1. \A i \in targets : InUse(i.pid)' /\ proc'[i.pid].birth = i.birth =>
              InUse(i.pid) /\ proc[i.pid].birth = i.birth
              /\ proc'[i.pid].ours = proc[i.pid].ours
        BY <1>0, <1>1, RecordsStayTrue
      <4> QED
        BY <1>2, <2>1, <2>2, <3>1, <3>4, <4>1 DEF OriginInv
    <3> QED
      BY <2>3, <3>1, <3>2, <3>3, <3>4
  <2> QED
    BY <1>2, <2>1, <2>2, <2>3 DEF OriginInv
<1>5. CASE OpenProc
  <2>1. /\ items' = items /\ targets' = targets /\ items = {} /\ UNCHANGED <<kernel, rootVars, stage>>
        /\ pc = "open"
        /\ \/ pc' = "scan" /\ scanned' = [from |-> nextBirth, to |-> nextBirth] /\ flags' = flags
           \/ pc' \in {"group", "sleep"}
    BY <1>5 DEF OpenProc, Goto, Swept, OriginInv
  <2>2. CASE pc' = "scan"
    <3>1. SUFFICES ASSUME ~Has("direct_done")'
                   PROVE  \E O \in SUBSET Pids :
                            /\ root \in O
                            /\ \A p \in Pids : InUse(p)' => (proc'[p].ours <=> p \in O)
      BY <1>2, <2>1, <2>2 DEF OriginInv, rootVars
    <3>2. root \in Pids /\ InUse(root) /\ proc[root].ours
      BY <2>1, <2>2, <3>1 DEF RootHeld, FlagsInv, Has
    <3> DEFINE O == {p \in Pids : InUse(p) /\ proc[p].ours}
    <3>3. /\ O \in SUBSET Pids /\ root \in O
          /\ \A p \in Pids : InUse(p)' => (proc'[p].ours <=> p \in O)
      BY <2>1, <3>2 DEF InUse, kernel
    <3> QED
      BY <3>3
  <2>3. CASE pc' = "group"
    <3>1. SUFFICES ASSUME ~Has("direct_done")' PROVE \E O \in SUBSET Pids : root \in O
      BY <1>2, <2>1, <2>3 DEF OriginInv, rootVars
    <3>2. root \in Pids
      BY <2>1 DEF Base
    <3> QED
      BY <3>2
  <2> QED
    BY <1>2, <2>1, <2>2, <2>3 DEF OriginInv
<1>6. ASSUME NEW p \in Pids, ReadStat(p) PROVE OriginInv'
  <2>1. /\ pc = "scan" /\ pc' = "scan" /\ UNCHANGED <<kernel, scanned, rootVars, targets>>
        /\ \/ items' = items
           \/ InUse(p) /\ items' = items \cup {StatOf(p)}
    BY <1>6 DEF ReadStat, ReadIdentity
  <2>2. Has("direct_done")' <=> Has("direct_done")
    BY <1>6, SweepStepIs DEF SweepStep
  <2>3. \A i \in items' \cup targets' : i.birth < nextBirth'
    <3>1. InUse(p) => StatOf(p).birth < nextBirth
      BY DEF Ancestry, StatOf
    <3> QED
      BY <1>1, <2>1, <3>1 DEF kernel
  <2>4. SUFFICES ASSUME ~Has("direct_done"), scanned.from = nextBirth
                 PROVE  \E O \in SUBSET Pids :
                          /\ root \in O /\ \A i \in items' : Agrees(O, i)'
                          /\ \A q \in Pids : InUse(q)' => (proc'[q].ours <=> q \in O)
    BY <2>1, <2>2, <2>3 DEF OriginInv, kernel, rootVars
  <2>5. PICK O \in SUBSET Pids :
          /\ root \in O /\ \A i \in items : Agrees(O, i)
          /\ \A q \in Pids : InUse(q) => (proc[q].ours <=> q \in O)
    BY <2>1, <2>4 DEF OriginInv
  <2>6. \A i \in items' : Agrees(O, i)
    BY <2>1, <2>5, WhatIsReadAgrees
  <2>7. \A i : Agrees(O, i) => Agrees(O, i)'
    BY <2>1 DEF Agrees, InUse, kernel
  <2>8. \A q \in Pids : InUse(q)' => (proc'[q].ours <=> q \in O)
    BY <2>1, <2>5 DEF InUse, kernel
  <2> QED
    BY <2>5, <2>6, <2>7, <2>8
<1>7. CASE ScanEnd
  <2>1. /\ pc = "scan" /\ pc' = "group" /\ UNCHANGED <<kernel, rootVars, items, targets>>
        /\ scanned'.from = scanned.from /\ scanned'.to = nextBirth
    BY <1>0, <1>7 DEF ScanEnd, Goto
  <2>2. Has("direct_done")' <=> Has("direct_done")
    BY <1>7, SweepStepIs DEF SweepStep
  <2>3. SUFFICES ASSUME ~Has("direct_done"), scanned.from = nextBirth
                 PROVE  \E O \in SUBSET Pids : root \in O /\ \A i \in items : Agrees(O, i)'
    BY <1>2, <2>1, <2>2 DEF OriginInv, rootVars
  <2>4. PICK O \in SUBSET Pids : root \in O /\ \A i \in items : Agrees(O, i)
    BY <2>1, <2>3 DEF OriginInv
  <2> QED
    BY <1>3, <2>4
<1>8. CASE GroupKill
  <2>1. /\ pc = "group" /\ pc' = "next" /\ items' = {} /\ scanned' = scanned
        /\ targets' = {i \in Connected : i.pid # root}
    BY <1>8 DEF GroupKill, Freed, Goto
  <2>2. Has("direct_done")' <=> Has("direct_done")
    BY <1>8, SweepStepIs DEF SweepStep
  <2>3. targets' \subseteq items /\ targets' \subseteq Connected
    BY <2>1 DEF Connected
  <2>4. SUFFICES ASSUME ~Has("direct_done"), scanned.from = scanned.to,
                        NEW i \in targets', InUse(i.pid)', proc'[i.pid].birth = i.birth
                 PROVE  proc'[i.pid].ours
    BY <1>2, <2>1, <2>2, <2>3 DEF OriginInv
  <2>5. PICK O \in SUBSET Pids : root \in O /\ \A j \in items : Agrees(O, j)
    BY <2>1, <2>4 DEF OriginInv
  <2>6. i.pid \in O /\ Agrees(O, i)'
    BY <1>0, <1>3, <2>3, <2>5, ConnectedIsOurs
  <2> QED
    BY <2>4, <2>6 DEF Agrees
<1>9. CASE (\E i \in targets : Revalidate(i)) \/ KillOne \/ SweepEnd
  <2>1. /\ pc \in {"next", "kill"} /\ pc' \in {"next", "kill", "sleep"}
        /\ items' = items /\ targets' \subseteq targets /\ scanned' = scanned
    BY <1>9 DEF Revalidate, KillOne, SweepEnd, Swept, Goto, sweep
  <2>2. Has("direct_done")' <=> Has("direct_done")
    BY <1>9, SweepStepIs DEF SweepStep
  <2>3. \A i \in targets : InUse(i.pid)' /\ proc'[i.pid].birth = i.birth =>
          InUse(i.pid) /\ proc[i.pid].birth = i.birth
          /\ proc'[i.pid].ours = proc[i.pid].ours
    BY <1>0, <1>1, RecordsStayTrue
  <2> QED
    BY <1>2, <2>1, <2>2, <2>3 DEF OriginInv
<1> QED
  BY <1>4, <1>5, <1>6, <1>7, <1>8, <1>9 DEF SweepStep

(* A number is signalled on its own only if it names a descendant at the   *)
(* moment of the second look: whatever was freed and handed out again      *)
(* since the scan, and whatever fails, if no process was created during    *)
(* the scan itself and the direct child still held its number.             *)
THEOREM StrangersAreSpared == Spec => RevalidationSparesStrangers
<1>1. Init => OriginInv
  BY DEF Init, OriginInv
<1>2. Base /\ RootHeld /\ FlagsInv /\ RootInv /\ OriginInv /\ [Next]_vars => OriginInv'
  BY OriginInvStep
<1>3. Base /\ OriginInv /\ [Next]_vars =>
        [pc = "next" /\ pc' = "kill" /\ scanned.from = scanned.to /\ ~Has("direct_done")
           => proc[target'].ours]_vars
  <2>1. SUFFICES ASSUME Base, OriginInv, [Next]_vars, pc = "next", pc' = "kill",
                        scanned.from = scanned.to, ~Has("direct_done")
                 PROVE  proc[target'].ours
    OBVIOUS
  <2>2. PICK i \in targets : Revalidate(i)
    <3>1. CASE ~SweepStep
      BY <2>1, <3>1, OutsideTheSweep DEF Sweeping
    <3>2. CASE SweepStep
      BY <2>1, <3>2 DEF SweepStep, OpenProc, ReadStat, ScanEnd, GroupKill, Freed, KillOne,
         SweepEnd, Swept, Goto
    <3> QED
      BY <3>1, <3>2
  <2>3. PICK r \in ReadIdentity(i.pid) : SameProcess(i, r) /\ target' = i.pid
    BY <2>1, <2>2 DEF Revalidate
  <2>4. InUse(i.pid) /\ proc[i.pid].birth = i.birth
    BY <2>3 DEF ReadIdentity, SameProcess, StatOf
  <2> QED
    BY <2>1, <2>3, <2>4 DEF OriginInv
<1> QED
  BY <1>1, <1>2, <1>3, BaseAlways, RootHeldAlways, FlagsInvAlways, RootInvAlways, PTL
     DEF Spec, RevalidationSparesStrangers
=============================================================================
