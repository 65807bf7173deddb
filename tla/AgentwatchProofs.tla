-------------------------- MODULE AgentwatchProofs --------------------------
(***************************************************************************)
(* Theorems about Agentwatch, for every value of its constants: any number *)
(* of pids, processes, ticks and faults, with and without unrelated        *)
(* processes.                                                              *)
(***************************************************************************)
EXTENDS Agentwatch, WellFoundedInduction, TLAPS

(* Every process has a parent that is alive, older and of the same tree,   *)
(* or one of the two reapers, SUP for the command's own processes.         *)
Ancestry ==
  \A p \in Pids : InUse(p) =>
    /\ proc[p].birth < nextBirth
    /\ proc[p].ppid = SUP => proc[p].ours
    /\ proc[p].ppid = PID1 => ~proc[p].ours
    /\ proc[p].ppid \in Pids =>
         /\ Live(proc[p].ppid)
         /\ proc[proc[p].ppid].ours = proc[p].ours
         /\ proc[proc[p].ppid].birth < proc[p].birth

(* The order of the naturals, as a set of pairs, is well-founded. *)
LEMMA NaturalOrder ==
  \E R : /\ IsWellFoundedOn(R, Nat)
         /\ \A m, n \in Nat : n < m => <<n, m>> \in R
<1>1. \A m, n \in Nat : n < m => <<n, m>> \in OpToRel(<, Nat)
  BY DEF OpToRel
<1>2. QED
  BY <1>1, NatLessThanWellFounded, Zenon

(* A set of naturals that is not empty has a least member. *)
LEMMA LeastNatural ==
  ASSUME NEW T, T \subseteq Nat, T # {}
  PROVE  \E m \in T : \A n \in T : m <= n
<1>1. PICK R : /\ IsWellFoundedOn(R, Nat)
               /\ \A m, n \in Nat : n < m => <<n, m>> \in R
  BY NaturalOrder
<1>2. PICK m \in T : \A n \in T : ~(<<n, m>> \in R)
  BY <1>1, WFMin
<1>3. ASSUME NEW n \in T PROVE m <= n
  <2>1. m \in Nat /\ n \in Nat
    OBVIOUS
  <2>2. ~(n < m)
    BY <1>1, <1>2, <2>1, Zenon
  <2>3. QED
    BY <2>1, <2>2
<1>4. QED
  BY <1>3

(* The argument behind ECHILD (agentwatch.c:661): a reaper whose child     *)
(* list is empty has no descendants at all.  The oldest of the command's   *)
(* processes would have a parent that is older still, or SUP.              *)
LEMMA ChildlessMeansGone ==
  ASSUME ProcTypeOK, Ancestry, ChildrenOf(SUP) = {}
  PROVE  \A p \in Pids : InUse(p) => ~proc[p].ours
<1> DEFINE Ours == {p \in Pids : InUse(p) /\ proc[p].ours}
           Births == {proc[p].birth : p \in Ours}
<1>1. SUFFICES ASSUME Ours # {} PROVE FALSE
  OBVIOUS
<1>2. Births \subseteq Nat /\ Births # {}
  BY <1>1 DEF ProcTypeOK, Process
<1>3. PICK p \in Ours : \A q \in Ours : proc[p].birth <= proc[q].birth
  <2> HIDE DEF Births
  <2>1. PICK m \in Births : \A n \in Births : m <= n
    BY <1>2, LeastNatural
  <2>2. QED
    BY <2>1 DEF Births
<1>4. proc[p].ppid # SUP /\ proc[p].ppid # PID1
  BY ProcTreeAssumption DEF ChildrenOf, Ancestry
<1>5. proc[p].ppid \in Pids
  BY <1>4 DEF ProcTypeOK, Process
<1>6. proc[p].ppid \in Ours /\ proc[proc[p].ppid].birth < proc[p].birth
  BY <1>5 DEF Ancestry, Live, InUse
<1>7. QED
  BY <1>3, <1>5, <1>6 DEF ProcTypeOK, Process
-----------------------------------------------------------------------------
(* The kernel operations keep the table well-typed and the tree sound.     *)

Sound == ProcTypeOK /\ Ancestry

LEMMA SpawnKeepsSound ==
  ASSUME Sound, NEW q \in Pids, NEW parent \in Pids \cup {SUP, PID1},
         NEW group \in Pids \cup {SUP}, NEW own \in BOOLEAN,
         Spawn(q, parent, group, own),
         parent \in Pids => Live(parent) /\ proc[parent].ours = own,
         parent = SUP => own, parent = PID1 => ~own
  PROVE  Sound'
<1> USE DEF Sound, ProcTypeOK, Process
<1>1. ProcTypeOK'
  BY DEF Spawn
<1>2. Ancestry'
  <2>1. proc[q].st = "free"
    BY DEF Spawn, Available, InUse
  <2>2. SUFFICES ASSUME NEW p \in Pids, InUse(p)'
                 PROVE  (/\ proc[p].birth < nextBirth
                         /\ proc[p].ppid = SUP => proc[p].ours
                         /\ proc[p].ppid = PID1 => ~proc[p].ours
                         /\ proc[p].ppid \in Pids =>
                              /\ Live(proc[p].ppid)
                              /\ proc[proc[p].ppid].ours = proc[p].ours
                              /\ proc[proc[p].ppid].birth < proc[p].birth)'
    BY DEF Ancestry
  <2>3. CASE p = q
    BY <2>1, <2>3, ProcTreeAssumption DEF Spawn, Ancestry, InUse, Live
  <2>4. CASE p # q
    BY <2>1, <2>2, <2>4 DEF Spawn, Ancestry, InUse, Live
  <2>5. QED
    BY <2>3, <2>4
<1>3. QED
  BY <1>1, <1>2

LEMMA CollectKeepsSound ==
  ASSUME Sound, NEW z \in Pids, Collect(z)
  PROVE  Sound'
<1> USE DEF Sound, ProcTypeOK, Process
<1>1. ProcTypeOK'
  BY DEF Collect, Free
<1>2. /\ nextBirth' = nextBirth /\ Zombie(z) /\ ~InUse(z)'
      /\ \A q \in Pids \ {z} : proc'[q] = proc[q]
  BY DEF Collect, Free, InUse
<1>3. \A q \in Pids : InUse(q) => proc[q].ppid # z
  BY <1>2 DEF Ancestry, Live, Zombie
<1>4. Ancestry'
  BY <1>2, <1>3 DEF Ancestry, InUse, Live
<1>5. QED
  BY <1>1, <1>4

LEMMA PerishKeepsSound ==
  ASSUME Sound, NEW p \in Pids, Perish(p)
  PROVE  Sound'
<1> USE DEF Sound, ProcTypeOK, Process
<1>1. ProcTypeOK'
  BY DEF Perish, Free, ChildrenOf
<1>2. \A q \in Pids : InUse(q)' =>
        /\ InUse(q) /\ proc'[q].birth = proc[q].birth /\ proc'[q].ours = proc[q].ours
        /\ q # p /\ Live(q) => Live(q)'
        /\ \/ proc'[q].ppid = proc[q].ppid /\ (q = p \/ proc[q].ppid # p)
           \/ /\ q # p /\ proc[q].ppid = p
              /\ proc'[q].ppid = IF proc[p].ours THEN SUP ELSE PID1
  BY DEF Perish, Free, ChildrenOf, Zombie, InUse, Live
<1>3. \A q \in Pids : q # p /\ Live(q) => Live(q)' /\ InUse(q)'
  BY DEF Perish, Free, ChildrenOf, Zombie, InUse, Live
<1>4. nextBirth' = nextBirth /\ Live(p)
  BY DEF Perish
<1>5. Ancestry'
  <2>1. SUFFICES ASSUME NEW q \in Pids, InUse(q)'
                 PROVE  (/\ proc[q].birth < nextBirth
                         /\ proc[q].ppid = SUP => proc[q].ours
                         /\ proc[q].ppid = PID1 => ~proc[q].ours
                         /\ proc[q].ppid \in Pids =>
                              /\ Live(proc[q].ppid)
                              /\ proc[proc[q].ppid].ours = proc[q].ours
                              /\ proc[proc[q].ppid].birth < proc[q].birth)'
    BY DEF Ancestry
  <2>2. CASE q # p /\ proc[q].ppid = p
    BY <1>2, <1>4, <2>1, <2>2, ProcTreeAssumption DEF Ancestry
  <2>3. CASE q = p \/ proc[q].ppid # p
    <3>1. proc'[q].ppid = proc[q].ppid
      BY <1>2, <2>1, <2>3
    <3>2. proc[q].ppid # p
      BY <1>2, <2>1, <2>3 DEF Ancestry
    <3>3. QED
      BY <1>2, <1>3, <1>4, <2>1, <3>1, <3>2 DEF Ancestry
  <2>4. QED
    BY <2>2, <2>3
<1>6. QED
  BY <1>1, <1>5

LEMMA SignalKeepsSound ==
  ASSUME Sound, NEW set, NEW s \in Signals,
         proc' = Signalled(set, s), UNCHANGED nextBirth
  PROVE  Sound'
<1> USE DEF Sound, ProcTypeOK, Process
<1>1. ProcTypeOK'
  BY DEF Signalled
<1>2. \A q \in Pids : /\ proc'[q].st = proc[q].st
                       /\ proc'[q].ppid = proc[q].ppid
                       /\ proc'[q].birth = proc[q].birth
                       /\ proc'[q].ours = proc[q].ours
  BY DEF Signalled
<1>3. Ancestry'
  BY <1>2 DEF Ancestry, InUse, Live
<1>4. QED
  BY <1>1, <1>3

LEMMA GroupingKeepsSound ==
  ASSUME Sound, NEW p \in Pids, proc' = Grouped(p), UNCHANGED nextBirth
  PROVE  Sound'
<1> USE DEF Sound, ProcTypeOK, Process
<1>1. ProcTypeOK'
  BY DEF Grouped
<1>2. Ancestry'
  BY DEF Grouped, Ancestry, InUse, Live
<1>3. QED
  BY <1>1, <1>2

LEMMA SameTableIsSound ==
  ASSUME Sound, UNCHANGED kernel
  PROVE  Sound'
BY DEF Sound, ProcTypeOK, Ancestry, kernel, InUse, Live

(* The clocks stay within the horizon. *)
LEMMA HorizonBounds ==
  /\ Horizon \in Nat /\ Horizon >= Timeout /\ Horizon >= Grace
  /\ Horizon >= FinalReap
BY AgentwatchAssumption DEF Horizon, Larger

-----------------------------------------------------------------------------
(* Type correctness. *)

Base ==
  /\ Types
  /\ Ancestry
  /\ pc \notin {"setup", "prepare", "fork", "done"} => root \in Pids

LEMMA BaseInit == Init => Base
<1>1. SUFFICES ASSUME Init PROVE Base
  OBVIOUS
<1>2. ProcTypeOK /\ Ancestry
  <2>1. Free \in Process
    BY DEF Free, Process
  <2>2. ProcTypeOK
    <3>1. [p \in Pids |-> Free] \in [Pids -> Process]
      BY <2>1
    <3>2. QED
      BY <1>1, <3>1 DEF Init, ProcInit, ProcTypeOK
  <2>3. Ancestry
    BY <1>1 DEF Init, ProcInit, Ancestry, InUse, Free
  <2>4. QED
    BY <2>2, <2>3
<1>3. Types
  <2>1. 0 \in 0..Horizon
    BY HorizonBounds
  <2>2. QED
    BY <1>1, <1>2, <2>1 DEF Init, Types, Places, Stages, Exits, FlagNames, Signals
<1>4. QED
  BY <1>1, <1>2, <1>3 DEF Base, Init

(* The steps of supervise() outside signal_tree(). *)
LEMMA LoopKeepsBase ==
  ASSUME Base,
         \/ Setup \/ Prepare \/ ForkChild \/ ForkFails \/ ParentSetpgid \/ Handshake
         \/ \E z \in Pids : Reap(z)
         \/ DrainEnd
         \/ \E noclock \in ClockReadings :
              StartTerm(noclock) \/ StartKill(noclock) \/ GiveUp(noclock)
              \/ KeepWaiting(noclock)
         \/ Sleep \/ Finish
  PROVE  Base'
<1> USE DEF Base, Types, Places, Exits, FlagNames, Goto, Raise, Return
<1>1. Sound
  BY DEF Sound
<1>2. CASE Setup \/ Prepare
  BY <1>1, <1>2, SameTableIsSound DEF Setup, Prepare, Sound, clocks, sweep, rootVars
<1>3. CASE ForkChild
  <2>1. PICK q \in Pids : Spawn(q, SUP, SUP, TRUE) /\ root' = q /\ rootBirth' = nextBirth
    BY <1>3 DEF ForkChild
  <2>2. Sound'
    BY <1>1, <2>1, SpawnKeepsSound, ProcTreeAssumption
  <2>3. QED
    BY <1>1, <1>3, <2>1, <2>2 DEF ForkChild, Sound, ProcTypeOK, clocks, sweep, Stages
<1>4. CASE ForkFails
  BY <1>1, <1>4, SameTableIsSound DEF ForkFails, Sound, clocks, sweep, rootVars
<1>5. CASE ParentSetpgid
  <2>1. root \in Pids
    BY <1>5 DEF ParentSetpgid
  <2>2. Sound'
    BY <1>1, <1>5, <2>1, SameTableIsSound, GroupingKeepsSound DEF ParentSetpgid
  <2>3. QED
    BY <1>5, <2>1, <2>2 DEF ParentSetpgid, Sound, clocks, sweep, rootVars
<1>6. CASE Handshake
  BY <1>1, <1>6, SameTableIsSound DEF Handshake, Sound, clocks, sweep, rootVars
<1>7. ASSUME NEW z \in Pids, Reap(z) PROVE Base'
  <2>1. Sound'
    BY <1>1, <1>7, CollectKeepsSound DEF Reap
  <2>2. proc[z].birth \in Nat
    BY DEF ProcTypeOK, Process
  <2>3. QED
    BY <1>7, <2>1, <2>2 DEF Reap, Sound, clocks, sweep, rootVars
<1>8. CASE DrainEnd
  BY <1>1, <1>8, SameTableIsSound DEF DrainEnd, Sound, clocks, sweep, rootVars
<1>9. ASSUME NEW noclock \in ClockReadings,
             \/ StartTerm(noclock) \/ StartKill(noclock) \/ GiveUp(noclock)
             \/ KeepWaiting(noclock)
      PROVE  Base'
  <2>1. Checked(noclock) \subseteq FlagNames
    BY DEF Checked
  <2>2. CASE StartTerm(noclock)
    <3>1. Sound'
      BY <1>1, <2>2, SameTableIsSound DEF StartTerm
    <3>2. QED
      BY <2>1, <2>2, <3>1, HorizonBounds DEF StartTerm, Sound, Sweeping, Signals, rootVars
  <2>3. CASE StartKill(noclock)
    <3>1. Sound'
      BY <1>1, <2>3, SameTableIsSound DEF StartKill
    <3>2. QED
      BY <2>1, <2>3, <3>1, HorizonBounds DEF StartKill, Sound, Sweeping, Signals, rootVars
  <2>4. CASE GiveUp(noclock)
    BY <1>1, <2>1, <2>4, SameTableIsSound DEF GiveUp, Sound, clocks, sweep, rootVars
  <2>5. CASE KeepWaiting(noclock)
    BY <1>1, <2>1, <2>5, SameTableIsSound DEF KeepWaiting, Sound, clocks, sweep, rootVars
  <2>6. QED
    BY <1>9, <2>2, <2>3, <2>4, <2>5
<1>10. CASE Sleep
  BY <1>1, <1>10, SameTableIsSound DEF Sleep, Sound, clocks, sweep, rootVars
<1>11. CASE Finish
  BY <1>1, <1>11, SameTableIsSound DEF Finish, Status, Sound, clocks, sweep, rootVars
<1>12. QED
  BY <1>2, <1>3, <1>4, <1>5, <1>6, <1>7, <1>8, <1>9, <1>10, <1>11

(* The steps of signal_tree(). *)
(* Reading a stat record can do nothing to the flags but raise uncertain.  *)
LEMMA ReadingOnlyDoubts ==
  /\ \A p : ReadStat(p) => flags' = flags \/ flags' = flags \cup {"uncertain"}
  /\ \A i : Revalidate(i) => flags' = flags \/ flags' = flags \cup {"uncertain"}
<1>1. \A r : flags \cup Doubt(r) \in {flags, flags \cup {"uncertain"}}
  BY DEF Doubt
<1>2. QED
  BY <1>1 DEF ReadStat, Revalidate, Raise

LEMMA SweepKeepsBase ==
  ASSUME Base,
         \/ OpenProc \/ (\E p \in Pids : ReadStat(p)) \/ ScanEnd \/ GroupKill
         \/ (\E i \in targets : Revalidate(i)) \/ KillOne \/ SweepEnd
  PROVE  Base'
<1> USE DEF Base, Types, Places, FlagNames, Goto, Raise
<1>1. Sound
  BY DEF Sound
<1>2. ASSUME NEW new \in SUBSET FlagNames, Swept(new)
      PROVE  /\ flags' \subseteq FlagNames /\ pc' = "sleep"
             /\ elapsed' \in 0..Horizon /\ lag' \in 0..Horizon
             /\ left' \in 0..Horizon /\ sinceTerm' \in 0..Horizon
  <2>1. Grace \in Nat /\ FinalReap \in Nat /\ lag \in Nat
    BY HorizonBounds, AgentwatchAssumption
  <2>2. Monus(Grace, lag) \in 0..Horizon /\ Monus(FinalReap, lag) \in 0..Horizon
    BY <2>1, HorizonBounds DEF Monus
  <2>3. left' \in {Monus(Grace, lag), Monus(FinalReap, lag)}
    BY <1>2 DEF Swept
  <2>4. flags' \subseteq FlagNames
    BY <1>2 DEF Swept
  <2>5. pc' = "sleep" /\ elapsed' = elapsed /\ lag' = 0 /\ sinceTerm' = sinceTerm
    BY <1>2 DEF Swept
  <2>6. QED
    BY <2>2, <2>3, <2>4, <2>5, HorizonBounds
<1>3. CASE OpenProc
  <2>1. Sound'
    BY <1>1, <1>3, SameTableIsSound DEF OpenProc
  <2>2. /\ flags' \subseteq FlagNames /\ pc' \in Places \ {"setup", "prepare", "fork", "done"}
        /\ elapsed' \in 0..Horizon /\ lag' \in 0..Horizon
        /\ left' \in 0..Horizon /\ sinceTerm' \in 0..Horizon
    <3>1. CASE Swept({"uncertain", "internal"})
      <4>1. {"uncertain", "internal"} \in SUBSET FlagNames
        OBVIOUS
      <4>2. QED
        BY <1>2, <3>1, <4>1
    <3>2. CASE /\ UNCHANGED clocks /\ pc' \in {"scan", "group"}
               /\ flags' \subseteq flags \cup {"uncertain"}
      BY <3>2, HorizonBounds DEF clocks, Sweeping
    <3>3. QED
      BY <1>3, <3>1, <3>2 DEF OpenProc
  <2>3. QED
    BY <1>3, <2>1, <2>2 DEF OpenProc, Sound, rootVars, ProcTypeOK
<1>4. ASSUME NEW p \in Pids, ReadStat(p) PROVE Base'
  <2>1. Sound'
    BY <1>1, <1>4, SameTableIsSound DEF ReadStat
  <2>2. StatOf(p) \in Identity
    BY DEF ProcTypeOK, Process, Identity, StatOf
  <2>3. \A r \in ReadIdentity(p) : r.found \subseteq Identity
    BY <2>2 DEF ReadIdentity
  <2>4. items' \subseteq Identity
    BY <1>4, <2>3 DEF ReadStat
  <2>5. flags' \subseteq FlagNames
    BY <1>4, ReadingOnlyDoubts DEF FlagNames
  <2>6. QED
    BY <1>4, <2>1, <2>4, <2>5 DEF ReadStat, Sound, clocks, rootVars
<1>5. CASE ScanEnd
  <2>1. Sound'
    BY <1>1, <1>5, SameTableIsSound DEF ScanEnd
  <2>2. scanned' \in [from : Nat, to : Nat]
    BY <1>5 DEF ScanEnd, ProcTypeOK
  <2>3. flags' \subseteq FlagNames
    BY <1>5 DEF ScanEnd, FlagNames
  <2>4. QED
    BY <1>5, <2>1, <2>2, <2>3 DEF ScanEnd, Sound, clocks, rootVars, Sweeping
<1>6. CASE GroupKill
  <2>1. Sound'
    BY <1>1, <1>6, SameTableIsSound, SignalKeepsSound DEF GroupKill, Freed
  <2>2. QED
    BY <1>6, <2>1 DEF GroupKill, Freed, Sound, clocks, rootVars, Sweeping, Connected
<1>7. ASSUME NEW i \in targets, Revalidate(i) PROVE Base'
  <2>1. Sound'
    BY <1>1, <1>7, SameTableIsSound DEF Revalidate
  <2>2. i.pid \in Pids
    BY DEF Identity
  <2>3. flags' \subseteq FlagNames
    BY <1>7, ReadingOnlyDoubts DEF FlagNames
  <2>4. target' \in Pids \cup {NoPid} /\ pc' \in {"next", "kill"}
    BY <1>7, <2>2 DEF Revalidate
  <2>5. QED
    BY <1>7, <2>1, <2>3, <2>4 DEF Revalidate, Sound, clocks, rootVars, Sweeping
<1>8. CASE KillOne
  <2>1. Sound'
    BY <1>1, <1>8, SameTableIsSound, SignalKeepsSound DEF KillOne
  <2>2. QED
    BY <1>8, <2>1 DEF KillOne, Sound, clocks, rootVars, Sweeping
<1>9. CASE SweepEnd
  <2>1. Sound'
    BY <1>1, <1>9, SameTableIsSound DEF SweepEnd
  <2>2. QED
    BY <1>2, <1>9, <2>1 DEF SweepEnd, Sound, sweep, rootVars
<1>10. QED
  BY <1>3, <1>4, <1>5, <1>6, <1>7, <1>8, <1>9

(* What the command, other processes, the user and the clock do. *)
LEMMA WorldKeepsBase ==
  ASSUME Base,
         World \/ (\E n \in Interrupts : Interrupt(n)) \/ Tick \/ Terminated
  PROVE  Base'
<1> USE DEF Base, Types
<1>1. Sound
  BY DEF Sound
<1>2. CASE World
  <2>1. root \in Pids
    BY <1>2 DEF World
  <2>2. SUFFICES Sound' /\ stage' \in Stages
    BY <1>2 DEF World, Sound, supervisor, clocks, sweep, rootVars
  <2>3. CASE ChildSetpgid
    BY <1>1, <2>1, <2>3, GroupingKeepsSound, SameTableIsSound DEF ChildSetpgid, Stages
  <2>4. CASE ChildExec
    BY <1>1, <2>4, SameTableIsSound DEF ChildExec, Stages
  <2>5. ASSUME NEW p \in Pids, Exit(p) PROVE Sound' /\ stage' \in Stages
    BY <1>1, <2>5, PerishKeepsSound DEF Exit, Stages
  <2>6. ASSUME NEW p \in Pids, Act(p) PROVE Sound' /\ stage' \in Stages
    <3>1. Live(p) /\ proc[p].ours /\ stage' = stage
      BY <2>6 DEF Act, Running
    <3>2. proc[p].pgid \in Pids \cup {SUP}
      BY DEF ProcTypeOK, Process
    <3>3. ASSUME NEW q \in Pids, Fork(p, q) PROVE Sound'
      <4>1. Spawn(q, p, proc[p].pgid, TRUE)
        BY <3>3 DEF Fork
      <4>2. proc[p].ours = TRUE
        BY <3>1 DEF ProcTypeOK, Process
      <4>3. p # SUP /\ p # PID1
        BY ProcTreeAssumption
      <4>4. QED
        BY <1>1, <3>1, <3>2, <4>1, <4>2, <4>3, SpawnKeepsSound
    <3>4. CASE Setsid(p)
      <4>1. proc' = Grouped(p) /\ UNCHANGED nextBirth
        BY <3>4 DEF Setsid
      <4>2. QED
        BY <1>1, <3>1, <4>1, GroupingKeepsSound
    <3>5. ASSUME NEW z \in Pids, WaitChild(p, z) PROVE Sound'
      BY <1>1, <3>5, CollectKeepsSound DEF WaitChild
    <3>6. QED
      BY <2>6, <3>1, <3>3, <3>4, <3>5 DEF Act
  <2>7. ASSUME NEW q \in Pids, OutsiderStart(q), UNCHANGED stage
        PROVE  Sound' /\ stage' \in Stages
    <3>1. CASE Spawn(q, PID1, q, FALSE)
      BY <1>1, <2>7, <3>1, SpawnKeepsSound, ProcTreeAssumption
    <3>2. ASSUME NEW p \in Pids, Running(p), ~proc[p].ours,
                 NEW group \in {q, proc[p].pgid}, Spawn(q, p, group, FALSE)
          PROVE  Sound'
      <4>1. group \in Pids \cup {SUP} /\ proc[p].ours = FALSE /\ Live(p)
        BY <3>2 DEF ProcTypeOK, Process, Running
      <4>2. QED
        BY <1>1, <3>2, <4>1, SpawnKeepsSound, ProcTreeAssumption
    <3>3. QED
      BY <2>7, <3>1, <3>2 DEF OutsiderStart
  <2>8. QED
    BY <1>2, <2>3, <2>4, <2>5, <2>6, <2>7 DEF World
<1>3. ASSUME NEW n \in Interrupts, Interrupt(n) PROVE Base'
  BY <1>1, <1>3, SameTableIsSound DEF Interrupt, Sound, supervisor, clocks, sweep, rootVars
<1>4. CASE Tick
  <2>1. Sound'
    BY <1>1, <1>4, SameTableIsSound DEF Tick
  <2>2. /\ elapsed' \in 0..Horizon /\ lag' \in 0..Horizon
        /\ left' \in 0..Horizon /\ sinceTerm' \in 0..Horizon
    BY <1>4, HorizonBounds DEF Tick, Monus
  <2>3. QED
    BY <1>4, <2>1, <2>2 DEF Tick, Sound, supervisor, sweep, rootVars
<1>5. CASE Terminated
  <2>1. Sound'
    BY <1>1, <1>5, SameTableIsSound DEF Terminated, vars
  <2>2. QED
    BY <1>5, <2>1 DEF Terminated, vars, Sound, supervisor, clocks, sweep, rootVars
<1>6. QED
  BY <1>2, <1>3, <1>4, <1>5

LEMMA BaseStep == Base /\ [Next]_vars => Base'
<1>1. SUFFICES ASSUME Base, [Next]_vars PROVE Base'
  OBVIOUS
<1>2. CASE Supervise
  BY <1>1, <1>2, LoopKeepsBase, SweepKeepsBase DEF Supervise
<1>3. CASE World \/ (\E n \in Interrupts : Interrupt(n)) \/ Tick \/ Terminated
  BY <1>1, <1>3, WorldKeepsBase
<1>4. CASE UNCHANGED vars
  <2>1. Sound'
    BY <1>1, <1>4, SameTableIsSound DEF vars, Base, Types, Sound
  <2>2. QED
    BY <1>1, <1>4, <2>1
       DEF vars, Base, Types, Sound, supervisor, clocks, sweep, rootVars
<1>5. QED
  BY <1>1, <1>2, <1>3, <1>4 DEF Next

LEMMA BaseAlways == Spec => []Base
<1>1. QED
  BY BaseInit, BaseStep, PTL DEF Spec

(* The records are of one scan: there are none outside it, and during it   *)
(* none of a number that is still to be read.                              *)
RecordInv ==
  /\ RecordedOnce
  /\ pc \notin {"scan", "group"} => items = {}
  /\ pc = "scan" => \A i \in items : i.pid \notin unread

(* One record more, of a number that has none yet. *)
LEMMA ReadingRecordsOnce ==
  ASSUME RecordInv, NEW p \in Pids, ReadStat(p)
  PROVE  RecordInv'
<1>1. /\ pc = "scan" /\ pc' = pc /\ p \in unread /\ unread' = unread \ {p}
      /\ items' = items \/ items' = items \cup {StatOf(p)}
  BY DEF ReadStat, ReadIdentity
<1>2. \A i \in items : i.pid \notin unread /\ i.pid # p
  BY <1>1 DEF RecordInv
<1>3. \A i \in items' : i \in items \/ (i = StatOf(p) /\ i.pid = p)
  BY <1>1 DEF StatOf
<1>4. RecordedOnce'
  BY <1>2, <1>3 DEF RecordInv, RecordedOnce
<1>5. QED
  BY <1>1, <1>2, <1>3, <1>4 DEF RecordInv

LEMMA RecordStep == RecordInv /\ [Next]_vars => RecordInv'
<1>1. SUFFICES ASSUME RecordInv, [Next]_vars PROVE RecordInv'
  OBVIOUS
<1>2. ASSUME NEW p \in Pids, ReadStat(p) PROVE RecordInv'
  BY <1>1, <1>2, ReadingRecordsOnce
<1>3. CASE ScanEnd
  BY <1>1, <1>3 DEF ScanEnd, Goto, RecordInv, RecordedOnce
<1>4. CASE GroupKill
  BY <1>4 DEF GroupKill, Freed, Goto, RecordInv, RecordedOnce
<1>5. CASE Supervise /\ ~(\E p \in Pids : ReadStat(p)) /\ ~ScanEnd /\ ~GroupKill
  <2>1. pc \notin {"scan", "group"} /\ items' = items
    BY <1>5 DEF Supervise, Setup, Prepare, ForkChild, ForkFails, ParentSetpgid, Handshake,
       Reap, DrainEnd, StartTerm, StartKill, GiveUp, KeepWaiting, Sleep, Finish, OpenProc,
       Revalidate, KillOne, SweepEnd, sweep
  <2>2. items = {} /\ items' = {}
    BY <1>1, <2>1 DEF RecordInv
  <2>3. QED
    BY <2>2 DEF RecordInv, RecordedOnce
<1>6. CASE World \/ (\E n \in Interrupts : Interrupt(n)) \/ Tick \/ UNCHANGED vars
  <2>1. UNCHANGED <<pc, items, unread>>
    BY <1>6 DEF World, Interrupt, Tick, vars, supervisor, sweep
  <2>2. QED
    BY <1>1, <2>1 DEF RecordInv, RecordedOnce
<1>7. QED
  BY <1>1, <1>2, <1>3, <1>4, <1>5, <1>6 DEF Next, Terminated

(* Every variable keeps its type and a scan has at most one record of a    *)
(* number, for every value of the constants.                               *)
THEOREM TypeCorrect == Spec => []TypeOK
<1>1. Init => RecordInv
  BY DEF Init, RecordInv, RecordedOnce
<1>2. Base /\ RecordInv => TypeOK
  BY DEF Base, RecordInv, TypeOK
<1>3. QED
  BY <1>1, <1>2, BaseAlways, RecordStep, PTL DEF Spec

-----------------------------------------------------------------------------
(* Normal return means that nothing is left. *)

(* What one step may do to the process table, whoever takes it. *)
TableMove ==
  \/ UNCHANGED kernel
  \/ pc = "fork" /\ \E q \in Pids : Spawn(q, SUP, SUP, TRUE) /\ root' = q /\ rootBirth' = nextBirth
  \/ \E z \in Pids : Reap(z)
  \/ \E p, z \in Pids : WaitChild(p, z)
  \/ \E p \in Pids : Perish(p)
  \/ \E p, q \in Pids : Running(p) /\ proc[p].ours /\ Fork(p, q)
  \/ \E q \in Pids : OutsiderStart(q)
  \/ /\ UNCHANGED nextBirth
     /\ \/ \E p \in Pids : proc' = Grouped(p)
        \/ \E set : proc' = Signalled(set, signum)

LEMMA StepsMoveTheTable ==
  ASSUME Base, [Next]_vars
  PROVE  TableMove
<1> USE DEF TableMove
<1>1. CASE UNCHANGED vars
  BY <1>1 DEF vars
<1>2. CASE Supervise
  <2>1. CASE ForkChild
    BY <2>1 DEF ForkChild
  <2>2. CASE ParentSetpgid
    BY <2>2 DEF ParentSetpgid, Base
  <2>3. CASE GroupKill
    BY <2>3 DEF GroupKill, Freed, kernel
  <2>4. CASE KillOne
    BY <2>4 DEF KillOne, kernel
  <2>5. CASE \E z \in Pids : Reap(z)
    BY <2>5
  <2>6. CASE \/ Setup \/ Prepare \/ ForkFails \/ Handshake \/ DrainEnd \/ Sleep \/ Finish
             \/ OpenProc \/ (\E p \in Pids : ReadStat(p)) \/ ScanEnd
             \/ (\E i \in targets : Revalidate(i)) \/ SweepEnd
    BY <2>6 DEF Setup, Prepare, ForkFails, Handshake, DrainEnd, Sleep, Finish, OpenProc,
                ReadStat, ScanEnd, Revalidate, SweepEnd
  <2>7. CASE \E noclock \in ClockReadings :
               StartTerm(noclock) \/ StartKill(noclock) \/ GiveUp(noclock)
               \/ KeepWaiting(noclock)
    BY <2>7 DEF StartTerm, StartKill, GiveUp, KeepWaiting
  <2>8. QED
    BY <1>2, <2>1, <2>2, <2>3, <2>4, <2>5, <2>6, <2>7 DEF Supervise
<1>3. CASE World
  <2>1. root \in Pids
    BY <1>3 DEF World, Base, Types
  <2>2. CASE ChildSetpgid
    BY <2>1, <2>2 DEF ChildSetpgid
  <2>3. CASE ChildExec
    BY <2>3 DEF ChildExec
  <2>4. ASSUME NEW p \in Pids, Exit(p) PROVE TableMove
    BY <2>4 DEF Exit
  <2>5. ASSUME NEW p \in Pids, Act(p) PROVE TableMove
    BY <2>5 DEF Act, Setsid
  <2>6. QED
    BY <1>3, <2>2, <2>3, <2>4, <2>5 DEF World
<1>4. CASE (\E n \in Interrupts : Interrupt(n)) \/ Tick \/ Terminated
  BY <1>4 DEF Interrupt, Tick, Terminated, vars
<1>5. QED
  BY <1>1, <1>2, <1>3, <1>4 DEF Next

NoneLeft == \A p \in Pids : InUse(p) => ~proc[p].ours

(* Only a process of the command can bring another one into being. *)
LEMMA GoneStaysGone ==
  ASSUME Base, [Next]_vars, pc # "fork", NoneLeft
  PROVE  NoneLeft'
<1> USE DEF Base, Types, ProcTypeOK, Process
<1>1. CASE UNCHANGED kernel
  BY <1>1 DEF NoneLeft, InUse, kernel
<1>2. ASSUME NEW z \in Pids, Collect(z) PROVE NoneLeft'
  BY <1>2 DEF Collect, Free, NoneLeft, InUse
<1>3. ASSUME NEW p \in Pids, Perish(p) PROVE NoneLeft'
  BY <1>3 DEF Perish, Free, ChildrenOf, Zombie, NoneLeft, InUse, Live
<1>4. ASSUME NEW p \in Pids, NEW q \in Pids, Running(p), proc[p].ours, Fork(p, q)
      PROVE  NoneLeft'
  BY <1>4 DEF NoneLeft, Running, Live, InUse
<1>5. ASSUME NEW q \in Pids, OutsiderStart(q) PROVE NoneLeft'
  BY <1>5 DEF OutsiderStart, Spawn, NoneLeft, InUse
<1>6. ASSUME NEW p \in Pids, proc' = Grouped(p) PROVE NoneLeft'
  BY <1>6 DEF Grouped, NoneLeft, InUse
<1>7. ASSUME NEW set, proc' = Signalled(set, signum) PROVE NoneLeft'
  BY <1>7 DEF Signalled, NoneLeft, InUse
<1>8. QED
  BY StepsMoveTheTable, <1>1, <1>2, <1>3, <1>4, <1>5, <1>6, <1>7
     DEF TableMove, Reap, WaitChild

(* NothingLeftBehind, with what makes it inductive: before the fork no     *)
(* flag is up.                                                             *)
GoneInv ==
  /\ NothingLeftBehind
  /\ pc \in {"setup", "prepare", "fork"} => flags = {}

LEMMA FlagsBeforeFork ==
  ASSUME Base, [Next]_vars, GoneInv
  PROVE  pc' \in {"setup", "prepare", "fork"} => flags' = {} /\ pc \in {"setup", "prepare", "fork"}
<1> USE DEF Base, Types, GoneInv, Goto, Return, Places, Sweeping
<1>1. CASE Supervise
  BY <1>1 DEF Supervise, Setup, Prepare, ForkChild, ForkFails, ParentSetpgid, Handshake, Reap,
     DrainEnd, StartTerm, StartKill, GiveUp, KeepWaiting, Sleep, Finish, OpenProc,
     ReadStat, ScanEnd, GroupKill, Freed, Revalidate, KillOne, SweepEnd, Swept
<1>2. CASE World \/ (\E n \in Interrupts : Interrupt(n)) \/ Tick \/ UNCHANGED vars
  BY <1>2 DEF World, Interrupt, Tick, supervisor, vars
<1>3. QED
  BY <1>1, <1>2 DEF Next, Terminated

LEMMA NoChildrenRaised ==
  ASSUME Base, [Next]_vars, Has("no_children")', ~Has("no_children")
  PROVE  pc = "drain" /\ ChildrenOf(SUP) = {} /\ UNCHANGED kernel
<1> USE DEF Has, Raise
<1>1. CASE Supervise
  <2>1. CASE DrainEnd
    <3>1. pc = "drain" /\ UNCHANGED kernel
      BY <2>1 DEF DrainEnd, NoChildLeft
    <3>2. ChildrenOf(SUP) = {}
      BY <2>1 DEF DrainEnd, NoChildLeft
    <3>3. QED
      BY <3>1, <3>2
  <2>2. CASE \/ Setup \/ Prepare \/ ForkChild \/ ForkFails \/ ParentSetpgid \/ Handshake
             \/ (\E z \in Pids : Reap(z)) \/ Sleep \/ Finish
    <3>1. flags' \subseteq flags \cup {"start_failed", "direct_done", "internal"}
      <4>1. CASE Setup \/ Prepare \/ ForkChild \/ ForkFails \/ Finish
        BY <4>1 DEF Setup, Prepare, ForkChild, ForkFails, Finish
      <4>2. CASE ParentSetpgid \/ Handshake \/ Sleep
        BY <4>2 DEF ParentSetpgid, Handshake, Sleep
      <4>3. ASSUME NEW z \in Pids, Reap(z)
            PROVE  flags' \subseteq flags \cup {"start_failed", "direct_done", "internal"}
        BY <4>3 DEF Reap
      <4>4. QED
        BY <2>2, <4>1, <4>2, <4>3
    <3>2. QED
      BY <3>1
  <2>3. CASE \E noclock \in ClockReadings :
               StartTerm(noclock) \/ StartKill(noclock) \/ GiveUp(noclock)
               \/ KeepWaiting(noclock)
    <3>1. ASSUME NEW noclock PROVE "no_children" \notin Checked(noclock)
      BY DEF Checked
    <3>2. QED
      BY <2>3, <3>1 DEF StartTerm, StartKill, GiveUp, KeepWaiting
  <2>4. CASE \/ OpenProc \/ (\E p \in Pids : ReadStat(p)) \/ ScanEnd \/ GroupKill
             \/ (\E i \in targets : Revalidate(i)) \/ KillOne \/ SweepEnd
    BY <2>4, ReadingOnlyDoubts DEF OpenProc, ScanEnd, GroupKill, Freed, KillOne, SweepEnd, Swept
  <2>5. QED
    BY <1>1, <2>1, <2>2, <2>3, <2>4 DEF Supervise
<1>2. CASE World \/ (\E n \in Interrupts : Interrupt(n)) \/ Tick \/ UNCHANGED vars
  BY <1>2 DEF World, Interrupt, Tick, supervisor, vars
<1>3. QED
  BY <1>1, <1>2 DEF Next, Terminated

LEMMA GoneAlways == Spec => []GoneInv
<1>1. Init => GoneInv
  BY DEF Init, GoneInv, NothingLeftBehind, Has
<1>2. Base /\ GoneInv /\ [Next]_vars => GoneInv'
  <2>1. SUFFICES ASSUME Base, GoneInv, [Next]_vars PROVE GoneInv'
    OBVIOUS
  <2>2. pc' \in {"setup", "prepare", "fork"} => flags' = {}
    BY <2>1, FlagsBeforeFork
  <2>3. CASE Has("no_children")
    <3>1. NoneLeft /\ pc # "fork"
      BY <2>1, <2>3 DEF GoneInv, NothingLeftBehind, NoneLeft, Has
    <3>2. QED
      BY <2>1, <2>2, <3>1, GoneStaysGone DEF GoneInv, NothingLeftBehind, NoneLeft
  <2>4. CASE ~Has("no_children") /\ Has("no_children")'
    <3>1. ChildrenOf(SUP) = {} /\ UNCHANGED kernel /\ pc # "fork"
      BY <2>1, <2>4, NoChildrenRaised
    <3>2. NoneLeft
      BY <2>1, <3>1, ChildlessMeansGone DEF NoneLeft, Base, Types
    <3>3. QED
      BY <2>1, <2>2, <3>1, <3>2, GoneStaysGone DEF GoneInv, NothingLeftBehind, NoneLeft
  <2>5. QED
    BY <2>2, <2>3, <2>4 DEF GoneInv, NothingLeftBehind
<1>3. QED
  BY <1>1, <1>2, BaseAlways, PTL DEF Spec

(* When agentwatch has seen ECHILD, the whole tree is gone: the command,   *)
(* everything it ever started and everything that was orphaned.            *)
THEOREM NormalReturnLeavesNothing == Spec => []NothingLeftBehind
<1>1. GoneInv => NothingLeftBehind
  BY DEF GoneInv
<1>2. QED
  BY <1>1, GoneAlways, PTL
-----------------------------------------------------------------------------
(* The grace interval: as long as the clock can be read, SIGKILL follows   *)
(* SIGTERM by the whole grace interval, however long the sweeps take and   *)
(* whatever else fails.                                                    *)

Killing == Has("killed") \/ (pc \in Sweeping /\ signum = "KILL")
Terming == pc \in Sweeping /\ signum = "TERM"

(* What is left of the grace interval and what has passed of it make it    *)
(* up; while SIGTERM goes round, lag is what has passed.                   *)
GraceInv ==
  /\ Terming => ~Has("armed") /\ ~Has("killed") /\ sinceTerm = lag
  /\ Has("armed") /\ ~Killing => sinceTerm + left >= Grace
  /\ Killing => Has("armed") /\ sinceTerm >= Grace

(* A step that leaves the clocks and the sweep's signal alone, keeps the   *)
(* two flags and does not begin a sweep.                                   *)
LEMMA QuietStepKeepsGrace ==
  ASSUME Base, GraceInv, UNCHANGED <<sinceTerm, lag, left, signum>>,
         Has("armed")' <=> Has("armed"), Has("killed")' <=> Has("killed"),
         pc' \in Sweeping => pc \in Sweeping,
         pc \in Sweeping => pc' \in Sweeping
  PROVE  GraceInv'
<1>1. /\ Terming' <=> Terming
      /\ Killing' <=> Killing
  BY DEF Terming, Killing
<1>2. QED
  BY <1>1 DEF GraceInv

LEMMA LoopKeepsGrace ==
  ASSUME Base, GraceInv, "clock" \notin Faults,
         NEW noclock \in ClockReadings,
         StartTerm(noclock) \/ StartKill(noclock) \/ GiveUp(noclock) \/ KeepWaiting(noclock)
  PROVE  GraceInv'
<1>1. noclock = FALSE
  BY DEF ClockReadings, Fails
<1>2. /\ "armed" \in Checked(noclock) <=> Has("armed")
      /\ "killed" \in Checked(noclock) <=> Has("killed")
  BY DEF Checked, Has
<1>3. Grace \in Nat /\ left \in Nat /\ sinceTerm \in Nat
  BY AgentwatchAssumption, HorizonBounds DEF Base, Types
<1>4. CASE StartTerm(noclock)
  <2>1. /\ ~Has("armed") /\ flags' = Checked(noclock) /\ signum' = "TERM"
        /\ lag' = 0 /\ sinceTerm' = 0 /\ pc = "decide"
    BY <1>1, <1>4 DEF StartTerm
  <2>2. ~Has("killed")
    BY <2>1 DEF GraceInv, Killing
  <2>3. QED
    BY <1>2, <2>1, <2>2 DEF GraceInv, Killing, Terming, Has
<1>5. CASE StartKill(noclock)
  <2>1. /\ Has("armed") /\ ~Has("killed") /\ left = 0 /\ pc = "decide"
        /\ flags' = Checked(noclock) /\ signum' = "KILL"
        /\ sinceTerm' = sinceTerm /\ pc' = "open"
    BY <1>5 DEF StartKill, Due, Goto
  <2>2. sinceTerm >= Grace
    BY <1>3, <2>1 DEF GraceInv, Killing, Sweeping
  <2>3. QED
    BY <1>2, <2>1, <2>2 DEF GraceInv, Killing, Terming, Has, Sweeping
<1>6. CASE GiveUp(noclock) \/ KeepWaiting(noclock)
  <2>1. /\ pc = "decide" /\ pc' \in {"finish", "sleep"}
        /\ flags' = Checked(noclock) \/ flags' = Checked(noclock) \cup {"internal"}
        /\ UNCHANGED <<clocks, signum>>
    BY <1>6 DEF GiveUp, KeepWaiting, Goto, sweep
  <2>2. (Has("armed")' <=> Has("armed")) /\ (Has("killed")' <=> Has("killed"))
    BY <1>2, <2>1 DEF Has
  <2>3. pc \notin Sweeping /\ pc' \notin Sweeping
    BY <2>1 DEF Sweeping
  <2>4. UNCHANGED <<sinceTerm, lag, left, signum>>
    BY <2>1 DEF clocks
  <2>5. QED
    BY <2>2, <2>3, <2>4, QuietStepKeepsGrace
<1>7. QED
  BY <1>4, <1>5, <1>6

LEMMA SweepKeepsGrace ==
  ASSUME Base, GraceInv,
         \/ OpenProc \/ (\E p \in Pids : ReadStat(p)) \/ ScanEnd \/ GroupKill
         \/ (\E i \in targets : Revalidate(i)) \/ KillOne \/ SweepEnd
  PROVE  GraceInv'
<1>1. Grace \in Nat /\ lag \in Nat /\ sinceTerm \in Nat
  BY AgentwatchAssumption, HorizonBounds DEF Base, Types
<1>2. ASSUME NEW new \in {{}, {"uncertain", "internal"}}, Swept(new), UNCHANGED signum,
             pc \in Sweeping
      PROVE  GraceInv'
  <2>1. signum \in {"TERM", "KILL"} /\ pc' = "sleep"
    BY <1>2 DEF Base, Types, Signals, Swept, Goto
  <2>2. CASE signum = "TERM"
    <3>1. flags' = flags \cup new \cup {"armed"} /\ left' = Monus(Grace, lag)
          /\ sinceTerm' = sinceTerm
      BY <1>2, <2>2 DEF Swept, Raise
    <3>2. sinceTerm = lag /\ ~Has("killed")
      BY <1>2, <2>2 DEF GraceInv, Terming
    <3>3. ~Killing' /\ ~Terming'
      BY <1>2, <2>1, <3>1, <3>2 DEF Killing, Terming, Sweeping, Has
    <3>4. sinceTerm' + left' >= Grace
      BY <1>1, <3>1, <3>2 DEF Monus
    <3>5. QED
      BY <3>3, <3>4 DEF GraceInv
  <2>3. CASE signum = "KILL"
    <3>1. flags' = flags \cup new \cup {"killed"} /\ sinceTerm' = sinceTerm
      BY <1>2, <2>3 DEF Swept, Raise
    <3>2. Has("armed") /\ sinceTerm >= Grace
      BY <1>2, <2>3 DEF GraceInv, Killing
    <3>3. QED
      BY <2>1, <3>1, <3>2 DEF GraceInv, Killing, Terming, Has, Sweeping
  <2>4. QED
    BY <2>1, <2>2, <2>3
<1>3. CASE (\E p \in Pids : ReadStat(p)) \/ ScanEnd \/ GroupKill
           \/ (\E i \in targets : Revalidate(i)) \/ KillOne
  <2>1. /\ UNCHANGED <<clocks, signum>> /\ pc \in Sweeping /\ pc' \in Sweeping
    BY <1>3 DEF ReadStat, ScanEnd, GroupKill, Freed, Revalidate, KillOne, Goto, Sweeping
  <2>2. \/ flags' = flags \/ flags' = flags \cup {"uncertain"}
        \/ flags' = flags \cup {"internal"}
    BY <1>3, ReadingOnlyDoubts DEF ScanEnd, GroupKill, Freed, KillOne, Raise
  <2>3. QED
    BY <2>1, <2>2, QuietStepKeepsGrace DEF Has, clocks
<1>4. CASE OpenProc
  <2>1. CASE /\ UNCHANGED clocks /\ pc' \in Sweeping
             /\ flags' = flags \/ flags' = flags \cup {"uncertain"}
    BY <1>4, <2>1, QuietStepKeepsGrace DEF OpenProc, Has, clocks, Sweeping
  <2>2. CASE Swept({"uncertain", "internal"})
    BY <1>2, <1>4, <2>2 DEF OpenProc, Sweeping
  <2>3. QED
    BY <1>4, <2>1, <2>2 DEF OpenProc, Goto, Raise, Sweeping
<1>5. CASE SweepEnd
  BY <1>2, <1>5 DEF SweepEnd, sweep, Sweeping
<1>6. QED
  BY <1>3, <1>4, <1>5

LEMMA OthersKeepGrace ==
  ASSUME Base, GraceInv,
         \/ Setup \/ Prepare \/ ForkChild \/ ForkFails \/ ParentSetpgid \/ Handshake
         \/ (\E z \in Pids : Reap(z)) \/ DrainEnd \/ Sleep \/ Finish
         \/ World \/ (\E n \in Interrupts : Interrupt(n))
  PROVE  GraceInv'
<1>1. CASE World \/ (\E n \in Interrupts : Interrupt(n))
  <2>1. UNCHANGED <<pc, flags, clocks, sweep>>
    BY <1>1 DEF World, Interrupt, supervisor
  <2>2. QED
    BY <2>1, QuietStepKeepsGrace DEF clocks, sweep, Has
<1>2. CASE \/ Setup \/ Prepare \/ ForkChild \/ ForkFails \/ ParentSetpgid \/ Handshake
           \/ (\E z \in Pids : Reap(z)) \/ DrainEnd \/ Sleep \/ Finish
  <2>1. UNCHANGED <<clocks, sweep>> /\ pc \notin Sweeping /\ pc' \notin Sweeping
    BY <1>2 DEF Setup, Prepare, ForkChild, ForkFails, ParentSetpgid, Handshake, Reap, DrainEnd,
       Sleep, Finish, Goto, Return, Sweeping
  <2>2. /\ flags \subseteq flags'
        /\ flags' \subseteq flags \cup {"start_failed", "direct_done", "no_children",
                                        "internal"}
    BY <1>2 DEF Setup, Prepare, ForkChild, ForkFails, ParentSetpgid, Handshake, Reap, DrainEnd,
       Sleep, Finish, Raise
  <2>3. QED
    BY <2>1, <2>2, QuietStepKeepsGrace DEF Has, clocks, sweep
<1>3. QED
  BY <1>1, <1>2

LEMMA TickKeepsGrace ==
  ASSUME Base, GraceInv, Tick
  PROVE  GraceInv'
<1>1. /\ Grace \in Nat /\ left \in Nat /\ sinceTerm \in Nat /\ lag \in Nat
      /\ Horizon \in Nat /\ Horizon >= Grace
  BY AgentwatchAssumption, HorizonBounds DEF Base, Types
<1>2. UNCHANGED <<pc, flags, signum>>
  BY DEF Tick, supervisor, sweep
<1>3. (Terming' <=> Terming) /\ (Killing' <=> Killing) /\ (Has("armed")' <=> Has("armed"))
      /\ (Has("killed")' <=> Has("killed"))
  BY <1>2 DEF Terming, Killing, Has
<1>4. /\ sinceTerm' = IF sinceTerm < Horizon THEN sinceTerm + 1 ELSE sinceTerm
      /\ left' = IF left > 1 THEN left - 1 ELSE 0
      /\ sinceTerm <= Horizon
  BY DEF Tick, Monus, Base, Types
<1>5. sinceTerm' >= sinceTerm /\ (sinceTerm + left >= Grace => sinceTerm' + left' >= Grace)
  BY <1>1, <1>4
<1>6. Terming /\ sinceTerm = lag => sinceTerm' = lag'
  BY DEF Tick, Terming
<1>7. sinceTerm' \in Nat
  BY <1>1, <1>4
<1>8. QED
  BY <1>1, <1>3, <1>5, <1>6, <1>7 DEF GraceInv

(* SIGKILL is sent only to a tree that was sent SIGTERM and had the whole  *)
(* grace interval since, if clock_gettime(2) never fails.                  *)
THEOREM GraceIsHonoured ==
  ASSUME "clock" \notin Faults
  PROVE  Spec => []KillOnlyAfterGrace
<1>1. Init => GraceInv
  BY DEF Init, GraceInv, Has, Killing, Terming, Sweeping
<1>2. Base /\ GraceInv /\ [Next]_vars => GraceInv'
  <2>1. SUFFICES ASSUME Base, GraceInv, [Next]_vars PROVE GraceInv'
    OBVIOUS
  <2>2. CASE Tick
    BY <2>1, <2>2, TickKeepsGrace
  <2>3. CASE UNCHANGED vars
    BY <2>1, <2>3, QuietStepKeepsGrace DEF vars, supervisor, clocks, sweep, Has
  <2>4. QED
    BY <2>1, <2>2, <2>3, LoopKeepsGrace, SweepKeepsGrace, OthersKeepGrace
       DEF Next, Supervise, Terminated
<1>3. GraceInv => KillOnlyAfterGrace
  BY DEF GraceInv, Killing, KillOnlyAfterGrace
<1>4. QED
  BY <1>1, <1>2, <1>3, BaseAlways, PTL DEF Spec

-----------------------------------------------------------------------------
(* Whose status agentwatch returns: the command's own status is only ever  *)
(* the direct child's, and only ever that of a run nothing was done to.    *)

(* Until it is reaped the direct child holds its pid, as a child of the    *)
(* supervisor: nobody else may wait for it, so nothing else can get its    *)
(* number.  Afterwards direct_status is that of this child.                *)
RootHeld ==
  stage # "none" =>
    /\ root \in Pids
    /\ Has("direct_done") => direct_birth = rootBirth
    /\ ~Has("direct_done") =>
         /\ InUse(root) /\ proc[root].birth = rootBirth
         /\ proc[root].ppid = SUP /\ proc[root].ours

Caused == first_interrupt # 0 \/ flags \cap AllCauses # {}

(* How the flags, the place in the program and the exit status hang        *)
(* together.                                                               *)
FlagsInv ==
  /\ Has("terminating") => Caused
  /\ pc \in Sweeping \/ Has("uncertain") \/ Has("armed") \/ Has("killed")
       => Has("terminating")
  /\ pc = "finish" => Has("no_children") \/ Has("internal")
  /\ pc \notin {"setup", "prepare", "fork", "done"} => stage # "none"
  /\ exit # "none" => pc = "done"

-----------------------------------------------------------------------------
(* direct_status is written by the reaping of the direct child only.       *)
LEMMA StatusIsTakenOnce ==
  ASSUME [Next]_vars
  PROVE  \/ (\E z \in Pids : Reap(z))
         \/ direct_birth' = direct_birth /\ (Has("direct_done")' <=> Has("direct_done"))
<1> USE DEF Has, Raise
<1>1. CASE Setup \/ Prepare \/ ForkChild \/ ForkFails \/ Finish
  BY <1>1 DEF Setup, Prepare, ForkChild, ForkFails, Finish
<1>2. CASE ParentSetpgid \/ Handshake \/ DrainEnd \/ Sleep
  <2>1. direct_birth' = direct_birth
    BY <1>2 DEF ParentSetpgid, Handshake, DrainEnd, Sleep
  <2>2. /\ flags \subseteq flags'
        /\ flags' \subseteq flags \cup {"start_failed", "internal", "no_children"}
    BY <1>2 DEF ParentSetpgid, Handshake, DrainEnd, Sleep
  <2>3. QED
    BY <2>1, <2>2
<1>3. CASE \E noclock \in ClockReadings :
             StartTerm(noclock) \/ StartKill(noclock) \/ GiveUp(noclock)
             \/ KeepWaiting(noclock)
  <2>1. ASSUME NEW noclock
        PROVE  "direct_done" \in Checked(noclock) <=> "direct_done" \in flags
    BY DEF Checked
  <2>2. QED
    BY <1>3, <2>1 DEF StartTerm, StartKill, GiveUp, KeepWaiting
<1>4. CASE \/ OpenProc \/ (\E p \in Pids : ReadStat(p)) \/ ScanEnd \/ GroupKill
           \/ (\E i \in targets : Revalidate(i)) \/ KillOne \/ SweepEnd
  <2>1. direct_birth' = direct_birth
    BY <1>4 DEF OpenProc, ReadStat, ScanEnd, GroupKill, Freed, Revalidate, KillOne, SweepEnd
  <2>2. /\ flags \subseteq flags'
        /\ flags' \subseteq flags \cup {"uncertain", "internal", "armed", "killed"}
    BY <1>4, ReadingOnlyDoubts DEF OpenProc, ScanEnd, GroupKill, Freed, KillOne, SweepEnd, Swept
  <2>3. QED
    BY <2>1, <2>2
<1>5. CASE World \/ (\E n \in Interrupts : Interrupt(n)) \/ Tick \/ UNCHANGED vars
  BY <1>5 DEF World, Interrupt, Tick, supervisor, vars
<1>6. QED
  BY <1>1, <1>2, <1>3, <1>4, <1>5 DEF Next, Supervise, Terminated

LEMMA RootIsChosenOnce ==
  ASSUME [Next]_vars
  PROVE  \/ pc = "fork" /\ (ForkChild \/ UNCHANGED <<rootVars, stage>>)
         \/ UNCHANGED rootVars /\ (stage # "none" <=> stage' # "none")
<1>1. CASE Setup \/ Prepare \/ ForkChild \/ ForkFails \/ Finish
  BY <1>1 DEF Setup, Prepare, ForkChild, ForkFails, Finish
<1>2. CASE ParentSetpgid \/ Handshake \/ DrainEnd \/ Sleep \/ (\E z \in Pids : Reap(z))
  BY <1>2 DEF ParentSetpgid, Handshake, DrainEnd, Sleep, Reap
<1>3. CASE \E noclock \in ClockReadings :
             StartTerm(noclock) \/ StartKill(noclock) \/ GiveUp(noclock)
             \/ KeepWaiting(noclock)
  BY <1>3 DEF StartTerm, StartKill, GiveUp, KeepWaiting
<1>4. CASE \/ OpenProc \/ (\E p \in Pids : ReadStat(p)) \/ ScanEnd \/ GroupKill
           \/ (\E i \in targets : Revalidate(i)) \/ KillOne \/ SweepEnd
  BY <1>4 DEF OpenProc, ReadStat, ScanEnd, GroupKill, Freed, Revalidate, KillOne, SweepEnd
<1>5. CASE World
  BY <1>5 DEF World, ChildSetpgid, ChildExec, Exit, Act, OutsiderStart, IsRoot, PreExec
<1>6. CASE (\E n \in Interrupts : Interrupt(n)) \/ Tick \/ UNCHANGED vars
  BY <1>6 DEF Interrupt, Tick, vars
<1>7. QED
  BY <1>1, <1>2, <1>3, <1>4, <1>5, <1>6 DEF Next, Supervise, Terminated

(* No step but its reaping takes the direct child's number from it.        *)
LEMMA PinnedStaysPinned ==
  ASSUME Base, [Next]_vars, NEW r \in Pids, InUse(r), proc[r].ppid = SUP,
         ~ \E z \in Pids : Reap(z)
  PROVE  /\ InUse(r)' /\ proc'[r].ppid = SUP
         /\ proc'[r].birth = proc[r].birth /\ proc'[r].ours = proc[r].ours
<1> DEFINE Kept == /\ InUse(r)' /\ proc'[r].ppid = SUP
                   /\ proc'[r].birth = proc[r].birth /\ proc'[r].ours = proc[r].ours
<1> USE DEF Base, Types, ProcTypeOK, Process
<1>0. SUP \notin Pids /\ SUP # PID1
  BY ProcTreeAssumption
<1>1. CASE UNCHANGED kernel
  BY <1>1 DEF InUse, kernel
<1>2. ASSUME NEW q \in Pids, NEW parent, NEW group, NEW own,
             Spawn(q, parent, group, own)
      PROVE  Kept
  BY <1>2 DEF Spawn, Available, InUse
<1>3. ASSUME NEW p \in Pids, NEW z \in Pids, WaitChild(p, z) PROVE Kept
  <2>1. z # r
    BY <1>0, <1>3 DEF WaitChild
  <2>2. QED
    BY <1>3, <2>1 DEF WaitChild, Collect, InUse
<1>4. ASSUME NEW p \in Pids, Perish(p) PROVE Kept
  BY <1>0, <1>4 DEF Perish, ChildrenOf, InUse, Live, Zombie
<1>5. ASSUME NEW p \in Pids, proc' = Grouped(p) PROVE Kept
  BY <1>5 DEF Grouped, InUse
<1>6. ASSUME NEW set, proc' = Signalled(set, signum) PROVE Kept
  BY <1>6 DEF Signalled, InUse
<1>7. QED
  BY StepsMoveTheTable, <1>1, <1>2, <1>3, <1>4, <1>5, <1>6
     DEF TableMove, Fork, OutsiderStart

LEMMA RootHeldStep ==
  ASSUME Base, GoneInv, RootHeld, [Next]_vars
  PROVE  RootHeld'
<1>1. CASE pc = "fork" /\ ForkChild
  <2>1. flags' = {}
    BY <1>1 DEF GoneInv, ForkChild
  <2>2. PICK q \in Pids : Spawn(q, SUP, SUP, TRUE) /\ root' = q /\ rootBirth' = nextBirth
    BY <1>1 DEF ForkChild
  <2>3. proc'[q] = [st |-> "live", ppid |-> SUP, pgid |-> SUP, birth |-> nextBirth,
                    ours |-> TRUE, got |-> {}]
    BY <2>2 DEF Spawn, Base, Types, ProcTypeOK
  <2>4. QED
    BY <2>1, <2>2, <2>3 DEF RootHeld, Has, InUse
<1>2. CASE \E z \in Pids : Reap(z)
  <2>1. PICK z \in Pids : Reap(z)
    BY <1>2
  <2>2. SUFFICES ASSUME stage # "none" PROVE RootHeld'
    BY <2>1 DEF Reap, RootHeld
  <2>3. UNCHANGED <<root, rootBirth, stage>>
    BY <2>1 DEF Reap, rootVars
  <2>4. CASE Has("direct_done")
    BY <2>1, <2>2, <2>3, <2>4 DEF Reap, TakesStatus, RootHeld, Has
  <2>5. CASE ~Has("direct_done") /\ z = root
    BY <2>1, <2>2, <2>3, <2>5 DEF Reap, TakesStatus, RootHeld, Has, Raise
  <2>6. CASE ~Has("direct_done") /\ z # root
    BY <2>1, <2>2, <2>3, <2>6
       DEF Reap, TakesStatus, RootHeld, Has, Collect, InUse, Base, Types, ProcTypeOK
  <2>7. QED
    BY <2>4, <2>5, <2>6
<1>3. CASE /\ UNCHANGED rootVars /\ (stage # "none" <=> stage' # "none")
           /\ ~ \E z \in Pids : Reap(z)
  <2>1. SUFFICES ASSUME stage # "none" PROVE RootHeld'
    BY <1>3 DEF RootHeld
  <2>2. root \in Pids /\ UNCHANGED <<root, rootBirth>>
    BY <1>3, <2>1 DEF RootHeld, rootVars
  <2>3. direct_birth' = direct_birth /\ (Has("direct_done")' <=> Has("direct_done"))
    BY <1>3, StatusIsTakenOnce
  <2>4. CASE Has("direct_done")
    BY <2>1, <2>2, <2>3, <2>4 DEF RootHeld
  <2>5. CASE ~Has("direct_done")
    <3>1. /\ InUse(root) /\ proc[root].birth = rootBirth
          /\ proc[root].ppid = SUP /\ proc[root].ours
      BY <2>1, <2>5 DEF RootHeld
    <3>2. /\ (proc'[root].st # "free") /\ proc'[root].ppid = SUP
          /\ proc'[root].birth = proc[root].birth /\ proc'[root].ours = proc[root].ours
      BY <1>3, <2>2, <3>1, PinnedStaysPinned DEF InUse
    <3>3. QED
      BY <2>2, <2>3, <2>5, <3>1, <3>2 DEF RootHeld, InUse
  <2>6. QED
    BY <2>4, <2>5
<1>4. QED
  BY RootIsChosenOnce, <1>1, <1>2, <1>3

LEMMA RootHeldAlways == Spec => []RootHeld
<1>1. Init => RootHeld
  BY DEF Init, RootHeld
<1>2. Base /\ GoneInv /\ RootHeld /\ [Next]_vars => RootHeld'
  BY RootHeldStep
<1>3. QED
  BY <1>1, <1>2, BaseAlways, GoneAlways, PTL DEF Spec

-----------------------------------------------------------------------------
(* The flags. *)

LEMMA FlagsInvStep ==
  ASSUME Base, GoneInv, FlagsInv, [Next]_vars
  PROVE  FlagsInv'
<1> USE DEF FlagsInv, Caused, Has, Raise, Goto, Return, AllCauses
<1>0. pc \in Places
  BY DEF Base, Types
<1>1. CASE Setup \/ Prepare \/ ForkChild \/ ForkFails
  BY <1>0, <1>1 DEF Setup, Prepare, ForkChild, ForkFails, GoneInv, Sweeping
<1>2. CASE ParentSetpgid \/ Handshake \/ Sleep
  <2>1. UNCHANGED <<stage, first_interrupt, exit>> /\ pc' \in {"handshake", "drain"}
        /\ pc \in {"setpgid", "handshake", "sleep"}
    BY <1>2 DEF ParentSetpgid, Handshake, Sleep
  <2>2. flags' = flags \/ flags' = flags \cup {"start_failed"}
        \/ flags' = flags \cup {"internal"}
    BY <1>2 DEF ParentSetpgid, Handshake, Sleep
  <2>3. QED
    BY <2>1, <2>2 DEF Sweeping
<1>3. CASE \E z \in Pids : Reap(z)
  BY <1>3 DEF Reap
<1>4. CASE DrainEnd
  BY <1>4 DEF DrainEnd, Sweeping
<1>5. CASE \E noclock \in ClockReadings :
             StartTerm(noclock) \/ StartKill(noclock) \/ GiveUp(noclock)
             \/ KeepWaiting(noclock)
  <2>1. PICK noclock : \/ StartTerm(noclock) \/ StartKill(noclock) \/ GiveUp(noclock)
                       \/ KeepWaiting(noclock)
    BY <1>5
  <2> DEFINE C == Checked(noclock)
  <2>2. /\ flags \subseteq C
        /\ C \subseteq flags \cup {"internal", "timed_out", "terminating"}
        /\ "terminating" \in C => first_interrupt # 0 \/ C \cap AllCauses # {}
    BY DEF Checked, Late
  <2>3. /\ pc = "decide" /\ exit' = exit /\ stage' = stage
        /\ first_interrupt' = first_interrupt
        /\ \/ flags' = C /\ pc' = "open" /\ "terminating" \in C
           \/ flags' = C /\ pc' = "sleep"
           \/ flags' = C \cup {"internal"} /\ pc' = "finish"
    <3>1. CASE StartTerm(noclock)
      BY <3>1 DEF StartTerm
    <3>2. CASE StartKill(noclock)
      BY <2>2, <3>2 DEF StartKill
    <3>3. CASE GiveUp(noclock)
      BY <3>3 DEF GiveUp
    <3>4. CASE KeepWaiting(noclock)
      BY <3>4 DEF KeepWaiting
    <3>5. QED
      BY <2>1, <3>1, <3>2, <3>3, <3>4
  <2> HIDE DEF C
  <2>4. QED
    BY <2>2, <2>3 DEF Sweeping
<1>6. CASE Finish
  BY <1>0, <1>6 DEF Finish, Sweeping
<1>7. CASE \/ OpenProc \/ (\E p \in Pids : ReadStat(p)) \/ ScanEnd \/ GroupKill
           \/ (\E i \in targets : Revalidate(i)) \/ KillOne \/ SweepEnd
  <2>1. /\ pc \in Sweeping /\ pc' \in Sweeping \cup {"sleep"}
        /\ UNCHANGED <<stage, first_interrupt, exit>>
    BY <1>7 DEF OpenProc, ReadStat, ScanEnd, GroupKill, Freed, Revalidate, KillOne, SweepEnd,
       Swept, Sweeping
  <2>2. /\ flags \subseteq flags'
        /\ flags' \subseteq flags \cup {"uncertain", "internal", "armed", "killed"}
    BY <1>7, ReadingOnlyDoubts DEF OpenProc, ScanEnd, GroupKill, Freed, KillOne, SweepEnd, Swept
  <2>3. QED
    BY <2>1, <2>2 DEF Sweeping
<1>8. CASE World
  <2>1. stage # "none" => stage' # "none"
    BY <1>8 DEF World, ChildSetpgid, ChildExec, Exit, Act
  <2>2. QED
    BY <1>8, <2>1 DEF World, supervisor
<1>9. CASE (\E n \in Interrupts : Interrupt(n)) \/ Tick \/ UNCHANGED vars
  <2>1. UNCHANGED <<pc, flags, exit, stage>>
    BY <1>9 DEF Interrupt, Tick, supervisor, vars
  <2>2. first_interrupt # 0 => first_interrupt' # 0
    BY <1>9 DEF Interrupt, Tick, vars
  <2>3. QED
    BY <2>1, <2>2
<1>10. QED
  BY <1>1, <1>2, <1>3, <1>4, <1>5, <1>6, <1>7, <1>8, <1>9
     DEF Next, Supervise, Terminated

LEMMA FlagsInvAlways == Spec => []FlagsInv
<1>1. Init => FlagsInv
  BY DEF Init, FlagsInv, Has, Sweeping
<1>2. Base /\ GoneInv /\ FlagsInv /\ [Next]_vars => FlagsInv'
  BY FlagsInvStep
<1>3. QED
  BY <1>1, <1>2, BaseAlways, GoneAlways, PTL DEF Spec

-----------------------------------------------------------------------------
(* What finish reports as "direct" is what DirectStatusIsGenuine says.     *)
LEMMA FinishIsGenuine ==
  ASSUME Base, GoneInv, RootHeld, FlagsInv, Finish, Status = "direct"
  PROVE  /\ Has("direct_done") /\ direct_birth = rootBirth
         /\ flags \cap {"terminating", "uncertain"} = {}
         /\ Has("no_children")
<1>1. first_interrupt = 0 /\ flags \cap AllCauses = {}
  BY DEF Status, Has, AllCauses
<1>2. ~Has("terminating") /\ ~Has("uncertain")
  BY <1>1 DEF FlagsInv, Caused
<1>3. Has("no_children")
  BY <1>1 DEF FlagsInv, Finish, Has, AllCauses
<1>4. stage # "none"
  BY DEF FlagsInv, Finish
<1>5. Has("direct_done") /\ direct_birth = rootBirth
  BY <1>3, <1>4 DEF RootHeld, GoneInv, NothingLeftBehind
<1>6. QED
  BY <1>2, <1>3, <1>5 DEF Has

(* Once done, the supervisor and its flags stay as they are. *)
LEMMA DoneIsDone ==
  ASSUME Base, [Next]_vars, pc = "done"
  PROVE  UNCHANGED <<supervisor, rootVars>>
<1> USE DEF Sweeping
<1>1. CASE Supervise
  BY <1>1 DEF Supervise, Setup, Prepare, ForkChild, ForkFails, ParentSetpgid, Handshake, Reap,
     DrainEnd, StartTerm, StartKill, GiveUp, KeepWaiting, Sleep, Finish, OpenProc,
     ReadStat, ScanEnd, GroupKill, Freed, Revalidate, KillOne, SweepEnd
<1>2. CASE World \/ (\E n \in Interrupts : Interrupt(n)) \/ Tick \/ UNCHANGED vars
  BY <1>2 DEF World, Interrupt, Tick, vars
<1>3. QED
  BY <1>1, <1>2 DEF Next, Terminated

(* Only finish sets the exit status "direct". *)
LEMMA DirectComesFromFinish ==
  ASSUME Base, [Next]_vars, exit' = "direct", exit # "direct"
  PROVE  Finish /\ Status = "direct"
<1>1. CASE Supervise
  BY <1>1 DEF Supervise, Setup, Prepare, ForkChild, ForkFails, ParentSetpgid, Handshake, Reap,
     DrainEnd, StartTerm, StartKill, GiveUp, KeepWaiting, Sleep, Finish, OpenProc,
     ReadStat, ScanEnd, GroupKill, Freed, Revalidate, KillOne, SweepEnd, Return
<1>2. CASE World \/ (\E n \in Interrupts : Interrupt(n)) \/ Tick \/ UNCHANGED vars
  BY <1>2 DEF World, Interrupt, Tick, vars, supervisor
<1>3. QED
  BY <1>1, <1>2 DEF Next, Terminated

(* agentwatch returns the command's own status only when the direct child  *)
(* itself was reaped, nothing was signalled and nothing is left behind.    *)
THEOREM StatusIsGenuine == Spec => []DirectStatusIsGenuine
<1>1. Init => DirectStatusIsGenuine
  BY DEF Init, DirectStatusIsGenuine
<1>2. Base /\ GoneInv /\ RootHeld /\ FlagsInv /\ DirectStatusIsGenuine /\ [Next]_vars
        => DirectStatusIsGenuine'
  <2>1. SUFFICES ASSUME Base, GoneInv, RootHeld, FlagsInv, DirectStatusIsGenuine,
                        [Next]_vars, exit' = "direct"
                 PROVE  DirectStatusIsGenuine'
    BY DEF DirectStatusIsGenuine
  <2>2. CASE exit = "direct"
    <3>1. UNCHANGED <<supervisor, rootVars>>
      BY <2>1, <2>2, DoneIsDone DEF FlagsInv
    <3>2. QED
      BY <2>1, <2>2, <3>1 DEF DirectStatusIsGenuine, supervisor, rootVars, Has
  <2>3. CASE exit # "direct"
    <3>1. Finish /\ Status = "direct"
      BY <2>1, <2>3, DirectComesFromFinish
    <3>2. QED
      BY <2>1, <3>1, FinishIsGenuine DEF DirectStatusIsGenuine, Finish, rootVars, Has
  <2>4. QED
    BY <2>2, <2>3
<1>3. QED
  BY <1>1, <1>2, BaseAlways, GoneAlways, RootHeldAlways, FlagsInvAlways, PTL DEF Spec

-----------------------------------------------------------------------------
(* Agentwatch implements Lifecycle. *)

(* A step that at most notes one more failure: Notice, or a stutter.       *)
LEMMA NotesOneCause ==
  ASSUME Phase' = Phase, Phase \in {"run", "term", "kill"},
         UNCHANGED <<first_interrupt, exit>>,
         NEW c \in {"start_failed", "internal"},
         flags \subseteq flags', flags' \cap AllCauses \subseteq flags \cup {c}
  PROVE  [L!LNext]_(L!lifecycle)
<1>1. \/ flags' \cap AllCauses = flags \cap AllCauses
      \/ flags' \cap AllCauses = (flags \cap AllCauses) \cup {c}
  BY DEF AllCauses
<1>2. CASE flags' \cap AllCauses = flags \cap AllCauses
  BY <1>2 DEF L!lifecycle
<1>3. CASE flags' \cap AllCauses = (flags \cap AllCauses) \cup {c}
  <2>1. L!Notice(c)
    BY <1>3 DEF L!Notice, L!Active
  <2> QED
    BY <2>1 DEF L!LNext, L!NoticeOnly, AllCauses
<1> QED
  BY <1>1, <1>2, <1>3

(* Before the fork there is nothing but the setup, and it may fail.        *)
LEMMA StartImplements ==
  ASSUME Base, GoneInv, FlagsInv, Setup \/ Prepare \/ ForkChild \/ ForkFails
  PROVE  [L!LNext]_(L!lifecycle)
<1>1. /\ flags = {} /\ flags' = {} /\ pc \in {"setup", "prepare", "fork"} /\ Phase = "start"
      /\ first_interrupt' = first_interrupt
  BY DEF Setup, Prepare, ForkChild, ForkFails, GoneInv, Phase
<1>2. CASE Setup \/ Prepare \/ ForkFails
  <2>1. \/ pc' \in {"prepare", "fork"} /\ exit' = exit
        \/ pc' = "done" /\ exit' \in {"internal", "start_failed"}
    BY <1>2 DEF Setup, Prepare, ForkFails, Goto, Return
  <2> QED
    BY <1>1, <2>1 DEF L!LNext, L!Refuse, L!lifecycle, Phase
<1>3. CASE ForkChild
  <2>1. pc' = "setpgid" /\ exit' = exit
    BY <1>3 DEF ForkChild, Goto
  <2>2. Phase' = "run"
    BY <1>1, <2>1 DEF Phase, Has
  <2> QED
    BY <1>1, <2>1, <2>2 DEF L!LNext, L!Launch
<1> QED
  BY <1>2, <1>3

(* The steps outside signal_tree() that decide nothing. *)
LEMMA LoopImplements ==
  ASSUME Base, FlagsInv,
         ParentSetpgid \/ Handshake \/ (\E z \in Pids : Reap(z)) \/ DrainEnd \/ Sleep
  PROVE  [L!LNext]_(L!lifecycle)
<1>1. /\ pc \in {"setpgid", "handshake", "drain", "sleep"}
      /\ pc' \in {"handshake", "drain", "decide", "finish"}
      /\ UNCHANGED <<first_interrupt, exit>>
  BY DEF ParentSetpgid, Handshake, Reap, DrainEnd, Sleep, Goto
<1>2. PICK c \in {"start_failed", "internal"} :
        flags \subseteq flags' /\ flags' \subseteq flags \cup {c, "direct_done", "no_children"}
  <2>1. CASE ParentSetpgid \/ Handshake
    BY <2>1 DEF ParentSetpgid, Handshake, Raise
  <2>2. CASE (\E z \in Pids : Reap(z)) \/ DrainEnd \/ Sleep
    BY <2>2 DEF Reap, DrainEnd, Sleep, Raise
  <2> QED
    BY <2>1, <2>2
<1>3. (Has("terminating")' <=> Has("terminating")) /\ (Has("killed")' <=> Has("killed"))
  BY <1>2 DEF Has
<1>4. Phase' = Phase /\ Phase \in {"run", "term", "kill"}
  BY <1>1, <1>3 DEF Phase, Sweeping
<1>5. flags' \cap AllCauses \subseteq flags \cup {c}
  BY <1>2 DEF AllCauses
<1> QED
  BY <1>1, <1>2, <1>4, <1>5, NotesOneCause

(* What the checks after the clock add: one cause at most, a deadline only *)
(* to a run that nothing has ended.                                        *)
LEMMA ChecksAddOneCause ==
  ASSUME NEW noclock \in BOOLEAN
  PROVE  /\ flags \subseteq Checked(noclock)
         /\ ("killed" \in Checked(noclock) <=> Has("killed"))
         /\ ("armed" \in Checked(noclock) <=> Has("armed"))
         /\ \/ /\ Checked(noclock) \cap AllCauses = (flags \cap AllCauses) \cup {"timed_out"}
               /\ ~Has("terminating") /\ first_interrupt = 0 /\ ~noclock
            \/ Checked(noclock) \cap AllCauses = (flags \cap AllCauses) \cup {"internal"}
            \/ Checked(noclock) \cap AllCauses = flags \cap AllCauses
         /\ "terminating" \in Checked(noclock) /\ ~Has("terminating")
              => first_interrupt # 0 \/ Checked(noclock) \cap AllCauses # {}
         /\ "terminating" \notin Checked(noclock) => Checked(noclock) = flags
<1>1. CASE noclock
  BY <1>1 DEF Checked, Late, AllCauses, Has
<1>2. CASE ~noclock
  <2>1. CASE ~Late("terminating" \notin flags /\ first_interrupt = 0, noclock)
    BY <1>2, <2>1 DEF Checked, AllCauses, Has
  <2>2. CASE Late("terminating" \notin flags /\ first_interrupt = 0, noclock)
    BY <1>2, <2>2 DEF Checked, Late, AllCauses, Has
  <2> QED
    BY <2>1, <2>2
<1> QED
  BY <1>1, <1>2

LEMMA DecisionImplements ==
  ASSUME Base, FlagsInv, NEW noclock \in ClockReadings,
         StartTerm(noclock) \/ StartKill(noclock) \/ GiveUp(noclock) \/ KeepWaiting(noclock)
  PROVE  [L!LNext]_(L!lifecycle)
<1> DEFINE C == Checked(noclock)
<1>0. noclock \in BOOLEAN
  BY DEF ClockReadings
<1>1. /\ flags \subseteq C /\ ("killed" \in C <=> Has("killed"))
      /\ ("armed" \in C <=> Has("armed"))
      /\ \/ /\ C \cap AllCauses = (flags \cap AllCauses) \cup {"timed_out"}
            /\ ~Has("terminating") /\ first_interrupt = 0 /\ ~noclock
         \/ C \cap AllCauses = (flags \cap AllCauses) \cup {"internal"}
         \/ C \cap AllCauses = flags \cap AllCauses
      /\ "terminating" \in C /\ ~Has("terminating")
           => first_interrupt # 0 \/ C \cap AllCauses # {}
      /\ "terminating" \notin C => C = flags
  BY <1>0, ChecksAddOneCause
<1>2. /\ pc = "decide" /\ UNCHANGED <<first_interrupt, exit>>
  BY DEF StartTerm, StartKill, GiveUp, KeepWaiting
<1>3. Has("armed") \/ Has("killed") => Has("terminating")
  BY DEF FlagsInv
<1>4. CASE StartTerm(noclock)
  <2>1. flags' = C /\ signum' = "TERM" /\ pc' = "open" /\ "terminating" \in C
    BY <1>4 DEF StartTerm, Goto
  <2> HIDE DEF C
  <2>2. CASE Has("terminating")
    <3>1. Phase' = Phase /\ Phase \in {"run", "term", "kill"}
      BY <1>1, <1>2, <2>1, <2>2 DEF Phase, Has, Sweeping
    <3>2. flags' \cap AllCauses \subseteq flags \cup {"internal"}
      BY <1>1, <2>1, <2>2 DEF AllCauses
    <3> QED
      BY <1>1, <1>2, <2>1, <3>1, <3>2, NotesOneCause
  <2>3. CASE ~Has("terminating")
    <3>1. Phase = "run" /\ Phase' = "term"
      BY <1>1, <1>2, <1>3, <2>1, <2>3 DEF Phase, Has, Sweeping
    <3>2. \/ first_interrupt # 0 /\ flags' \cap AllCauses = flags \cap AllCauses
          \/ flags \cap AllCauses # {} /\ flags' \cap AllCauses = flags \cap AllCauses
          \/ \E c \in AllCauses :
               /\ flags' \cap AllCauses = (flags \cap AllCauses) \cup {c}
               /\ c = "timed_out" => first_interrupt = 0
      BY <1>1, <2>1, <2>3 DEF AllCauses
    <3>3. L!Terminate
      BY <1>2, <3>1, <3>2 DEF L!Terminate, L!Notice, L!Active
    <3> QED
      BY <3>3 DEF L!LNext
  <2> QED
    BY <2>2, <2>3
<1>5. CASE StartKill(noclock)
  <2>1. /\ flags' = C /\ signum' = "KILL" /\ pc' = "open"
        /\ Has("armed") /\ ~Has("killed") /\ ~noclock
    BY <1>5 DEF StartKill, Goto, Due
  <2>2. Has("terminating")
    BY <1>3, <2>1
  <2>3. C \cap AllCauses = flags \cap AllCauses
    BY <2>1, <2>2 DEF Checked, Late, Has
  <2> HIDE DEF C
  <2>4. Phase = "term" /\ Phase' = "kill"
    BY <1>1, <1>2, <2>1, <2>2 DEF Phase, Has, Sweeping
  <2>5. L!Escalate
    BY <1>2, <2>1, <2>3, <2>4 DEF L!Escalate
  <2> QED
    BY <2>5 DEF L!LNext
<1>6. CASE GiveUp(noclock)
  <2>1. flags' = C \cup {"internal"} /\ pc' = "finish" /\ Has("killed") /\ ~noclock
    BY <1>6 DEF GiveUp, Goto, Due
  <2>2. Has("terminating")
    BY <1>3, <2>1
  <2> HIDE DEF C
  <2>3. Phase' = Phase /\ Phase \in {"run", "term", "kill"}
    BY <1>1, <1>2, <2>1, <2>2 DEF Phase, Has, Sweeping
  <2>4. flags' \cap AllCauses \subseteq flags \cup {"internal"} /\ flags \subseteq flags'
    BY <1>1, <2>1, <2>2 DEF AllCauses
  <2> QED
    BY <1>2, <2>3, <2>4, NotesOneCause
<1>7. CASE KeepWaiting(noclock)
  <2>1. flags' = C /\ pc' = "sleep" /\ ("terminating" \in C => Has("armed"))
    BY <1>7 DEF KeepWaiting, Goto
  <2> HIDE DEF C
  <2>2. "terminating" \in C <=> Has("terminating")
    BY <1>1, <1>3, <2>1 DEF Has
  <2>3. Phase' = Phase /\ Phase \in {"run", "term", "kill"}
    BY <1>1, <1>2, <2>1, <2>2 DEF Phase, Has, Sweeping
  <2>4. flags' \cap AllCauses \subseteq flags \cup {"internal"} /\ flags \subseteq flags'
    BY <1>1, <2>1, <2>2 DEF AllCauses
  <2> QED
    BY <1>2, <2>3, <2>4, NotesOneCause
<1> QED
  BY <1>4, <1>5, <1>6, <1>7

(* signal_tree() may fail, and ends where it began: in the same phase.     *)
LEMMA SweepImplements ==
  ASSUME Base, FlagsInv,
         \/ OpenProc \/ (\E p \in Pids : ReadStat(p)) \/ ScanEnd \/ GroupKill
         \/ (\E i \in targets : Revalidate(i)) \/ KillOne \/ SweepEnd
  PROVE  [L!LNext]_(L!lifecycle)
<1>1. /\ pc \in Sweeping /\ UNCHANGED <<first_interrupt, exit, signum>>
      /\ \/ pc' \in Sweeping
         \/ pc' = "sleep" /\ flags' \cap {"armed", "killed"} # {}
            /\ (signum = "KILL" => "killed" \in flags')
  BY DEF OpenProc, ReadStat, ScanEnd, GroupKill, Freed, Revalidate, KillOne, SweepEnd, Swept, Goto,
     Raise, Sweeping, sweep
<1>2. flags \subseteq flags' /\ flags' \subseteq flags \cup {"uncertain", "internal", "armed", "killed"}
      /\ ("killed" \in flags' => "killed" \in flags \/ signum # "TERM")
  BY ReadingOnlyDoubts DEF OpenProc, ScanEnd, GroupKill, Freed, KillOne, SweepEnd, Swept, Raise
<1>3. signum \in {"TERM", "KILL"} /\ Has("terminating") /\ Has("terminating")'
  BY <1>1, <1>2 DEF Base, Types, Signals, FlagsInv, Has
<1>4. Phase' = Phase /\ Phase \in {"run", "term", "kill"}
  BY <1>1, <1>2, <1>3 DEF Phase, Has, Sweeping
<1>5. flags' \cap AllCauses \subseteq flags \cup {"internal"}
  BY <1>2 DEF AllCauses
<1> QED
  BY <1>1, <1>2, <1>4, <1>5, NotesOneCause

(* finish reports by Lifecycle's order of precedence: what was uncertain   *)
(* is not told from what failed, for the one is never there without the    *)
(* other when the reap ceiling was met.                                    *)
LEMMA FinishImplements ==
  ASSUME Base, FlagsInv, Finish
  PROVE  [L!LNext]_(L!lifecycle)
<1>1. /\ pc = "finish" /\ pc' = "done" /\ exit' = Status
      /\ UNCHANGED <<flags, first_interrupt>>
  BY DEF Finish, Return
<1>2. Has("no_children") \/ Has("internal")
  BY <1>1 DEF FlagsInv
<1>3. Status = L!Verdict
  BY <1>2 DEF Status, L!Verdict, Has, AllCauses
<1>4. Phase \in {"run", "term", "kill"} /\ Phase' = "done"
      /\ (Phase = "run" <=> ~Has("terminating"))
  BY <1>1 DEF Phase, Sweeping
<1>5. L!Verdict = "direct" => ~Has("terminating")
  BY DEF L!Verdict, FlagsInv, Caused, AllCauses
<1>6. L!Report
  BY <1>1, <1>3, <1>4, <1>5 DEF L!Report, L!Active
<1> QED
  BY <1>6 DEF L!LNext

(* Other processes and the clock are not there for Lifecycle; the user is. *)
LEMMA OthersImplement ==
  ASSUME Base,
         World \/ (\E n \in Interrupts : Interrupt(n)) \/ Tick \/ UNCHANGED vars
  PROVE  [L!LNext]_(L!lifecycle)
<1>1. UNCHANGED <<pc, flags, exit, signum>>
  BY DEF World, Interrupt, Tick, supervisor, sweep, vars
<1>2. Phase' = Phase
  BY <1>1 DEF Phase, Has
<1>3. CASE World \/ Tick \/ UNCHANGED vars
  <2>1. first_interrupt' = first_interrupt
    BY <1>3 DEF World, Tick, vars
  <2> QED
    BY <1>1, <1>2, <2>1 DEF L!lifecycle
<1>4. CASE \E n \in Interrupts : Interrupt(n)
  <2>1. first_interrupt' # 0 /\ pc # "done"
    BY <1>4, AgentwatchAssumption DEF Interrupt
  <2>2. Phase # "done"
    BY <2>1 DEF Phase
  <2>3. L!InterruptRun
    BY <1>1, <1>2, <2>1, <2>2 DEF L!InterruptRun
  <2> QED
    BY <2>3 DEF L!LNext
<1> QED
  BY <1>3, <1>4

(* Whatever the tree, the user, the clock and the failing system calls do, *)
(* supervise() runs as Lifecycle says: terminated for a cause and for no   *)
(* other reason, SIGTERM before SIGKILL, and one status that says why it   *)
(* ended.                                                                  *)
THEOREM SupervisionIsALifecycle == Spec => ImplementsLifecycle
<1>1. Init => L!LInit
  BY DEF Init, L!LInit, Phase
<1>2. Base /\ GoneInv /\ FlagsInv /\ [Next]_vars => [L!LNext]_(L!lifecycle)
  <2>1. SUFFICES ASSUME Base, GoneInv, FlagsInv, [Next]_vars
                 PROVE  [L!LNext]_(L!lifecycle)
    OBVIOUS
  <2>2. CASE Supervise
    BY <2>1, <2>2, StartImplements, LoopImplements, DecisionImplements, FinishImplements,
       SweepImplements DEF Supervise
  <2>3. CASE World \/ (\E n \in Interrupts : Interrupt(n)) \/ Tick \/ UNCHANGED vars
    BY <2>1, <2>3, OthersImplement
  <2> QED
    BY <2>1, <2>2, <2>3 DEF Next, Terminated
<1> QED
  BY <1>1, <1>2, BaseAlways, GoneAlways, FlagsInvAlways, PTL
     DEF Spec, ImplementsLifecycle, L!LSpec
=============================================================================
