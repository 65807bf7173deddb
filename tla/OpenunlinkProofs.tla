-------------------------- MODULE OpenunlinkProofs --------------------------
(***************************************************************************)
(* Proofs about Openunlink, for every set of descriptors and inodes, every *)
(* FD_RETAIN_CAP and every fault.                                          *)
(***************************************************************************)
EXTENDS Openunlink, TLAPS

Places == {"start", "dup", "allocate", "fdopendir", "enumerate", "closedir", "sort",
           "next", "stat1", "readlink", "stat2", "close", "cleanup", "done"}

(* Who owns which handle, and where. *)
Owned ==
  /\ pc \in Places
  /\ dir_fd => closed["dir_fd"] = 0
  /\ dir \/ dup_fd => closed["dup"] = 0
  /\ ~(dir /\ dup_fd)
  /\ pc \in {"start", "dup"} => closed["dup"] = 0
  /\ pc = "start" => closed["dir_fd"] = 0 /\ ~dir_fd
  /\ pc \in {"start", "dup"} => ~dir /\ ~dup_fd
  /\ pc \in {"allocate", "fdopendir"} => ~dir /\ dup_fd
  /\ pc \in {"enumerate", "closedir"} => dir /\ ~dup_fd
  /\ pc \in {"sort", "next", "stat1", "readlink", "stat2", "close"} => ~dir /\ ~dup_fd
  /\ pc \notin {"start", "cleanup", "done"} => dir_fd
  /\ pc = "done" => ~dir_fd /\ ~dup_fd /\ ~dir

Reported(d) == verdict[d] \in Advisories \cup {"found"}

(* Where a descriptor that was held all the time is, as the scan goes on. *)
Kept ==
  /\ held \subseteq Deleted
  /\ ~alive => \A d \in Fds : table[d] = NoFile
  /\ pc \in {"start", "dup", "allocate", "fdopendir"} => held = {}
  /\ pc = "enumerate" => held \subseteq steady
  /\ pc \in {"closedir", "sort"} => fd_count_limit \/ held \subseteq retained
  /\ pc \in {"next", "stat1", "readlink", "stat2"} =>
       fd_count_limit \/ \A d \in held : d \in todo \/ d = current \/ Reported(d)
  /\ pc \in {"start", "dup", "allocate", "fdopendir", "enumerate", "closedir", "sort",
             "next", "close"} => current = NoFd
  /\ pc = "close" \/ (pc \in {"cleanup", "done"} /\ op = "NONE") =>
       fd_count_limit \/ \A d \in held : Reported(d)

IInv == TypeOK /\ Owned /\ Kept

LEMMA NoFdIsNoFd == NoFd \notin Fds
BY OpenunlinkAssumption DEF NoFd

LEMMA InitOK == Init => IInv
<1> SUFFICES ASSUME Init PROVE IInv
  OBVIOUS
<1>1. TypeOK
  <2>1. verdict \in [Fds -> Verdicts] /\ op \in Ops /\ fd_count \in 0 .. Cap
    BY OpenunlinkAssumption DEF Init, Verdicts, Ops
  <2>2. closed \in [{"dir_fd", "dup"} -> 0 .. 1]
    BY DEF Init
  <2> QED
    BY <2>1, <2>2 DEF Init, TypeOK
<1>2. Owned
  BY DEF Init, Owned, Places
<1>3. Kept
  BY DEF Init, Kept
<1> QED
  BY <1>1, <1>2, <1>3 DEF IInv

(* The inspected process may do what it likes. *)
LEMMA ProcessOK == ASSUME IInv, Process PROVE IInv'
<1>1. table' \in [Fds -> Inodes \cup {NoFile}] /\ alive' \in BOOLEAN
  BY DEF IInv, TypeOK, Process
<1>2. file' \in [Inodes -> File]
  <2>1. ASSUME NEW f \in Inodes, file' = [file EXCEPT ![f] = Flipped(@)]
        PROVE  file' \in [Inodes -> File]
    <3>1. file[f] \in File
      BY DEF IInv, TypeOK
    <3>2. Flipped(file[f]) \in File
      BY <3>1 DEF File, Flipped
    <3> QED
      BY <2>1, <3>2 DEF IInv, TypeOK
  <2>2. ASSUME NEW f \in Inodes, NEW new \in File, file' = [file EXCEPT ![f] = new]
        PROVE  file' \in [Inodes -> File]
    BY <2>2 DEF IInv, TypeOK
  <2> QED
    BY <2>1, <2>2 DEF Process, IInv, TypeOK
<1>3. steady' \subseteq offered' /\ offered' \subseteq Fds /\ held' \subseteq Fds
  BY DEF Process, Remember, IInv, TypeOK, Open
<1>4. held' \subseteq held /\ held' \subseteq Deleted' /\ Deleted' \subseteq Open'
  BY DEF Process, Remember, Deleted
<1>5. UNCHANGED <<pc, listing, inspection, op, handles>>
  BY DEF Process
<1>6. TypeOK'
  BY <1>1, <1>2, <1>3, <1>5 DEF IInv, TypeOK, listing, inspection, handles
<1>7. Owned'
  BY <1>5 DEF IInv, Owned, handles
<1>8. Kept'
  <2>1. ~alive' => \A d \in Fds : table'[d] = NoFile
    BY DEF Process
  <2>2. pc' = "enumerate" => held' \subseteq steady'
    BY <1>4, <1>5 DEF Process, Remember, IInv, Kept
  <2>3. \A d : Reported(d)' <=> Reported(d)
    BY <1>5 DEF Reported, inspection
  <2> QED
    BY <1>4, <1>5, <2>1, <2>2, <2>3 DEF IInv, Kept, listing, inspection
<1> QED
  BY <1>6, <1>7, <1>8 DEF IInv

-----------------------------------------------------------------------------
(* run_scan() up to the enumeration, and after the last descriptor. *)

Codes == Ops \ {"NONE"}

LEMMA StopOK ==
  ASSUME IInv, NEW code \in Codes, Stop(code)
  PROVE  op' \in Ops /\ op' # "NONE" /\ pc' = "cleanup"
BY DEF Stop, Goto, Codes, IInv, TypeOK

LEMMA SetupOK == ASSUME IInv, OpenDir \/ Dup \/ Allocate PROVE IInv'
<1>1. /\ UNCHANGED <<process, listing, inspection, dir, closed, history>>
      /\ pc \in {"start", "dup", "allocate"}
  BY DEF OpenDir, Dup, Allocate, handles
<1>2. \/ pc' = "cleanup" /\ op' \in Codes /\ dir_fd' = dir_fd /\ dup_fd' = dup_fd
      \/ pc = "start" /\ pc' = "dup" /\ dir_fd' = TRUE /\ dup_fd' = dup_fd /\ op' = op
      \/ pc = "dup" /\ pc' = "allocate" /\ dup_fd' = TRUE /\ dir_fd' = dir_fd /\ op' = op
      \/ pc = "allocate" /\ pc' = "fdopendir" /\ UNCHANGED <<dir_fd, dup_fd, op>>
  BY StopOK DEF OpenDir, Dup, Allocate, Goto, handles, Ops, Codes
<1>3. TypeOK'
  BY <1>1, <1>2 DEF IInv, TypeOK, Owned, process, listing, inspection, history, Codes,
     Regular, Open
<1>4. Owned'
  BY <1>1, <1>2 DEF IInv, Owned, Places, TypeOK
<1>5. Kept'
  <2>1. Deleted' = Deleted
    BY <1>1 DEF Deleted, Open, Regular, process
  <2> QED
    BY <1>1, <1>2, <2>1 DEF IInv, Kept, process, listing, inspection, history, Codes
<1> QED
  BY <1>3, <1>4, <1>5 DEF IInv

LEMMA FdopendirOK == ASSUME IInv, Fdopendir PROVE IInv'
<1>1. UNCHANGED <<process, listing, inspection, dir_fd, closed>> /\ pc = "fdopendir"
  BY DEF Fdopendir
<1>2. Deleted' = Deleted /\ Deleted \subseteq Open /\ Open \subseteq Fds
  BY <1>1 DEF Deleted, Open, Regular, process
<1>3. CASE /\ dir' = TRUE /\ dup_fd' = FALSE /\ pc' = "enumerate" /\ op' = op
           /\ steady' = Open /\ offered' = Open /\ held' = Deleted
  <2>1. TypeOK'
    BY <1>1, <1>2, <1>3 DEF IInv, TypeOK, process, listing, inspection
  <2>2. Owned'
    BY <1>1, <1>3 DEF IInv, Owned, Places
  <2>3. Kept'
    BY <1>1, <1>2, <1>3 DEF IInv, Kept, process, listing, inspection
  <2> QED
    BY <2>1, <2>2, <2>3 DEF IInv
<1>4. CASE /\ pc' = "cleanup" /\ op' \in Codes /\ UNCHANGED <<dup_fd, dir, history>>
  <2>1. TypeOK'
    BY <1>1, <1>4 DEF IInv, TypeOK, process, listing, inspection, history, Codes
  <2>2. Owned'
    BY <1>1, <1>4 DEF IInv, Owned, Places
  <2>3. Kept'
    BY <1>1, <1>2, <1>4 DEF IInv, Kept, process, listing, inspection, history, Codes
  <2> QED
    BY <2>1, <2>2, <2>3 DEF IInv
<1> QED
  BY <1>3, <1>4, StopOK DEF Fdopendir, Goto, DupAfterTransfer, Ops, Codes

LEMMA EntryOK == ASSUME IInv, NEW d \in Fds, Entry(d) PROVE IInv'
<1>1. /\ UNCHANGED <<process, inspection, op, handles, history>>
      /\ pc = "enumerate"
      /\ \/ /\ fd_count_limit' = TRUE /\ pc' = "closedir"
            /\ UNCHANGED <<retained, fd_count>>
         \/ /\ fd_count < Cap /\ fd_count' = fd_count + 1 /\ pc' = "enumerate"
            /\ retained' = retained \cup {d} /\ UNCHANGED fd_count_limit
  BY OpenunlinkAssumption DEF Entry, Full, Goto, IInv, TypeOK
<1>2. TypeOK'
  <2>1. fd_count' \in 0 .. Cap /\ fd_count_limit' \in BOOLEAN
    <3>1. fd_count \in 0 .. Cap /\ fd_count_limit \in BOOLEAN /\ Cap \in Nat
      BY OpenunlinkAssumption DEF IInv, TypeOK
    <3>2. fd_count' = fd_count \/ (fd_count < Cap /\ fd_count' = fd_count + 1)
      BY <1>1
    <3>3. fd_count' \in 0 .. Cap
      BY <3>1, <3>2
    <3>4. fd_count_limit' = TRUE \/ fd_count_limit' = fd_count_limit
      BY <1>1
    <3> QED
      BY <3>1, <3>3, <3>4
  <2>2. retained' \subseteq Fds /\ retained \subseteq retained'
    BY <1>1 DEF IInv, TypeOK
  <2>3. pc' \notin {"stat1", "readlink", "stat2"} /\ todo' \subseteq retained'
    BY <1>1, <2>2 DEF IInv, TypeOK, inspection
  <2>4. UNCHANGED <<table, file, alive, current, verdict, op, dir_fd, dup_fd, dir, closed,
                    steady, offered, held>>
    BY <1>1 DEF process, inspection, handles, history
  <2> QED
    BY <2>1, <2>2, <2>3, <2>4 DEF IInv, TypeOK
<1>3. Owned'
  BY <1>1 DEF IInv, Owned, Places, handles
<1>4. Kept'
  <2>1. Deleted' = Deleted
    BY <1>1 DEF Deleted, Open, Regular, process
  <2> QED
    BY <1>1, <2>1 DEF IInv, Kept, process, inspection, history
<1> QED
  BY <1>2, <1>3, <1>4 DEF IInv

LEMMA EnumerationEndsOK == ASSUME IInv, EnumerationEnds PROVE IInv'
<1>1. /\ UNCHANGED <<process, listing, inspection, handles, history>>
      /\ pc = "enumerate"
      /\ \/ pc' = "closedir" /\ op' = op /\ (steady \subseteq retained \/ ~alive)
         \/ pc' = "cleanup" /\ op' \in Codes
  BY StopOK DEF EnumerationEnds, Goto, Ops, Codes
<1>2. TypeOK'
  BY <1>1 DEF IInv, TypeOK, process, listing, inspection, handles, history, Codes
<1>3. Owned'
  BY <1>1 DEF IInv, Owned, Places, handles
<1>4. Kept'
  <2>1. Deleted' = Deleted
    BY <1>1 DEF Deleted, Open, Regular, process
  <2>2. ~alive => held = {}
    BY DEF IInv, Kept, Deleted, Open
  <2> QED
    BY <1>1, <2>1, <2>2 DEF IInv, Kept, process, listing, inspection, history, Codes
<1> QED
  BY <1>2, <1>3, <1>4 DEF IInv

LEMMA ClosedirOK == ASSUME IInv, Closedir PROVE IInv'
<1>1. /\ UNCHANGED <<process, listing, inspection, dir_fd, dup_fd, history>>
      /\ pc = "closedir" /\ dir' = FALSE
      /\ closed' = [closed EXCEPT !["dup"] = @ + 1]
      /\ \/ pc' = "sort" /\ op' = op
         \/ pc' = "cleanup" /\ op' \in Codes
  BY StopOK DEF Closedir, Goto, Ops, Codes
<1>2. closed["dup"] = 0 /\ closed'["dup"] = 1 /\ closed'["dir_fd"] = closed["dir_fd"]
      /\ closed' \in [{"dir_fd", "dup"} -> 0 .. 1]
  BY <1>1 DEF IInv, TypeOK, Owned
<1>3. TypeOK'
  BY <1>1, <1>2 DEF IInv, TypeOK, process, listing, inspection, history, Codes
<1>4. Owned'
  BY <1>1, <1>2 DEF IInv, Owned, Places
<1>5. Kept'
  <2>1. Deleted' = Deleted
    BY <1>1 DEF Deleted, Open, Regular, process
  <2> QED
    BY <1>1, <2>1 DEF IInv, Kept, process, listing, inspection, history, Codes
<1> QED
  BY <1>3, <1>4, <1>5 DEF IInv

LEMMA SortOK == ASSUME IInv, Sort PROVE IInv'
<1>1. /\ UNCHANGED <<process, listing, current, first, verdict, handles>> /\ pc = "sort"
      /\ \/ pc' = "cleanup" /\ op' \in Codes /\ UNCHANGED <<todo, history>>
         \/ /\ pc' = "next" /\ todo' = retained /\ op' = op
            /\ steady' = {} /\ offered' = {} /\ held' = held
  BY StopOK DEF Sort, Goto, ToInspect, Ops, Codes
<1>2. TypeOK'
  BY <1>1 DEF IInv, TypeOK, process, listing, handles, history, Codes
<1>3. Owned'
  BY <1>1 DEF IInv, Owned, Places, handles
<1>4. Kept'
  <2>1. Deleted' = Deleted
    BY <1>1 DEF Deleted, Open, Regular, process
  <2> QED
    BY <1>1, <2>1 DEF IInv, Kept, process, listing, history, Codes
<1> QED
  BY <1>2, <1>3, <1>4 DEF IInv

-----------------------------------------------------------------------------
(* inspect_one(): a held descriptor gets a verdict that is not silence.    *)

LEMMA NextFdOK == ASSUME IInv, NextFd PROVE IInv'
<1>1. /\ UNCHANGED <<process, listing, first, verdict, op, handles, history>>
      /\ pc = "next" /\ pc' = "stat1"
      /\ current' \in todo /\ todo' = todo \ {current'}
  BY DEF NextFd, Goto
<1>2. TypeOK'
  BY <1>1 DEF IInv, TypeOK, process, listing, handles, history
<1>3. Owned'
  BY <1>1 DEF IInv, Owned, Places, handles
<1>4. Kept'
  <2>1. Deleted' = Deleted
    BY <1>1 DEF Deleted, Open, Regular, process
  <2>2. held \subseteq Fds /\ current = NoFd
    BY <1>1 DEF IInv, TypeOK, Kept
  <2> QED
    BY <1>1, <2>1, <2>2, NoFdIsNoFd DEF IInv, Kept, Reported, process, listing, history
<1> QED
  BY <1>2, <1>3, <1>4 DEF IInv

LEMMA ClassifyOK ==
  ASSUME IInv, NEW code \in Verdicts, Classify(code),
         pc \in {"stat1", "readlink", "stat2"},
         UNCHANGED <<process, listing, handles, history>>,
         current \in held => code \in Advisories \cup {"found"}
  PROVE  IInv'
<1>1. /\ verdict' = [verdict EXCEPT ![current] = code]
      /\ pc' = "next" /\ current' = NoFd /\ todo' = todo /\ op' = op
      /\ current \in retained
  BY DEF Classify, Goto, IInv, TypeOK
<1>2. TypeOK'
  BY <1>1 DEF IInv, TypeOK, process, listing, handles, history
<1>3. Owned'
  BY <1>1 DEF IInv, Owned, Places, handles
<1>4. Kept'
  <2>1. Deleted' = Deleted
    BY DEF Deleted, Open, Regular, process
  <2>2. \A d \in held : (d = current \/ Reported(d)) => Reported(d)'
    BY <1>1 DEF Reported, IInv, TypeOK
  <2> QED
    BY <1>1, <2>1, <2>2 DEF IInv, Kept, process, listing, history
<1> QED
  BY <1>2, <1>3, <1>4 DEF IInv

(* A step to the next system call of the same inspection. *)
LEMMA AdvanceOK ==
  ASSUME IInv, pc \in {"stat1", "readlink"}, pc' \in {"readlink", "stat2"},
         UNCHANGED <<process, listing, todo, current, verdict, op, handles, history>>
  PROVE  IInv'
<1>1. TypeOK'
  BY DEF IInv, TypeOK, process, listing, handles, history
<1>2. Owned'
  BY DEF IInv, Owned, Places, handles
<1>3. Kept'
  <2>1. Deleted' = Deleted
    BY DEF Deleted, Open, Regular, process
  <2> QED
    BY <2>1 DEF IInv, Kept, Reported, process, listing, history
<1> QED
  BY <1>1, <1>2, <1>3 DEF IInv

LEMMA Stat1OK == ASSUME IInv, Stat1 PROVE IInv'
<1>1. /\ UNCHANGED <<process, listing, handles, history>> /\ pc = "stat1"
      /\ \/ \E code \in Advisories : Classify(code)
         \/ ~Regular(table[current]) /\ Classify("silent")
         \/ pc' = "readlink" /\ UNCHANGED <<todo, current, verdict, op>>
  BY DEF Stat1, Goto, Advisories
<1>2. ~Regular(table[current]) => current \notin held
  BY DEF IInv, Kept, Deleted
<1> QED
  BY <1>1, <1>2, ClassifyOK, AdvanceOK DEF Verdicts

LEMMA ReadlinkOK == ASSUME IInv, Readlink PROVE IInv'
<1>1. /\ UNCHANGED <<process, listing, handles, history>> /\ pc = "readlink"
      /\ \/ \E code \in Advisories : Classify(code)
         \/ pc' = "stat2" /\ UNCHANGED <<todo, current, verdict, op>>
  BY DEF Readlink, Goto, Advisories, inspection
<1> QED
  BY <1>1, ClassifyOK, AdvanceOK DEF Verdicts

(* An operational failure: what is held does not matter any more. *)
LEMMA FailureOK ==
  ASSUME IInv, pc' = "cleanup", op' \in Codes,
         UNCHANGED <<process, listing, inspection, handles, history>>
  PROVE  IInv'
<1>1. TypeOK'
  BY DEF IInv, TypeOK, process, listing, inspection, handles, history, Codes
<1>2. Owned'
  BY DEF IInv, Owned, Places, handles
<1>3. Kept'
  <2>1. Deleted' = Deleted
    BY DEF Deleted, Open, Regular, process
  <2> QED
    BY <2>1 DEF IInv, Kept, process, history, Codes
<1> QED
  BY <1>1, <1>2, <1>3 DEF IInv

LEMMA Stat2OK == ASSUME IInv, Stat2 PROVE IInv'
<1>1. /\ UNCHANGED <<process, listing, handles, history>> /\ pc = "stat2"
      /\ \/ \E code \in Advisories \cup {"found"} : Classify(code)
         \/ file[table[current]].nlink # 0 /\ Classify("silent")
         \/ pc' = "cleanup" /\ op' \in Codes /\ UNCHANGED inspection
  BY StopOK DEF Stat2, NoLinks, Advisories, Ops, Codes
<1>2. file[table[current]].nlink # 0 => current \notin held
  BY DEF IInv, Kept, Deleted
<1> QED
  BY <1>1, <1>2, ClassifyOK, FailureOK DEF Verdicts

LEMMA FlushOK == ASSUME IInv, Flush PROVE IInv'
<1>1. /\ UNCHANGED <<process, listing, inspection, handles, history>>
      /\ pc = "next" /\ todo = {}
      /\ \/ pc' = "close" /\ op' = op
         \/ pc' = "cleanup" /\ op' \in Codes
  BY StopOK DEF Flush, Goto, Ops, Codes
<1>2. CASE pc' = "close" /\ op' = op
  <2>1. TypeOK'
    BY <1>1, <1>2 DEF IInv, TypeOK, process, listing, inspection, handles, history
  <2>2. Owned'
    BY <1>1, <1>2 DEF IInv, Owned, Places, handles
  <2>3. Kept'
    <3>1. Deleted' = Deleted
      BY <1>1 DEF Deleted, Open, Regular, process
    <3>2. fd_count_limit \/ \A d \in held : Reported(d)
      <4>1. current = NoFd /\ held \subseteq Fds
        BY <1>1 DEF IInv, TypeOK, Kept
      <4> QED
        BY <1>1, <4>1, NoFdIsNoFd DEF IInv, Kept
    <3> QED
      BY <1>1, <1>2, <3>1, <3>2 DEF IInv, Kept, Reported, process, listing, inspection,
         history
  <2> QED
    BY <2>1, <2>2, <2>3 DEF IInv
<1> QED
  BY <1>1, <1>2, FailureOK

LEMMA CloseDirOK == ASSUME IInv, CloseDir PROVE IInv'
<1>1. /\ UNCHANGED <<process, listing, inspection, dup_fd, dir, history>>
      /\ pc = "close" /\ dir_fd' = FALSE
      /\ closed' = [closed EXCEPT !["dir_fd"] = @ + 1]
      /\ pc' = "cleanup" /\ op' \in Ops
  BY StopOK DEF CloseDir, Goto, Ops, Codes, IInv, TypeOK
<1>2. closed["dir_fd"] = 0 /\ closed'["dir_fd"] = 1 /\ closed'["dup"] = closed["dup"]
      /\ closed' \in [{"dir_fd", "dup"} -> 0 .. 1]
  BY <1>1 DEF IInv, TypeOK, Owned
<1>3. TypeOK'
  BY <1>1, <1>2 DEF IInv, TypeOK, process, listing, inspection, history
<1>4. Owned'
  BY <1>1, <1>2 DEF IInv, Owned, Places
<1>5. Kept'
  <2>1. Deleted' = Deleted
    BY <1>1 DEF Deleted, Open, Regular, process
  <2> QED
    BY <1>1, <2>1 DEF IInv, Kept, Reported, process, listing, inspection, history
<1> QED
  BY <1>3, <1>4, <1>5 DEF IInv

LEMMA CleanupOK == ASSUME IInv, Cleanup PROVE IInv'
<1>1. /\ UNCHANGED <<process, listing, inspection, op, history>>
      /\ pc = "cleanup" /\ pc' = "done"
      /\ dir' = FALSE /\ dup_fd' = FALSE /\ dir_fd' = FALSE
  BY DEF Cleanup, Goto
<1>2. closed' \in [{"dir_fd", "dup"} -> 0 .. 1]
  BY DEF Cleanup, IInv, TypeOK, Owned
<1>3. TypeOK'
  BY <1>1, <1>2 DEF IInv, TypeOK, process, listing, inspection, history
<1>4. Owned'
  BY <1>1 DEF IInv, Owned, Places
<1>5. Kept'
  <2>1. Deleted' = Deleted
    BY <1>1 DEF Deleted, Open, Regular, process
  <2> QED
    BY <1>1, <2>1 DEF IInv, Kept, Reported, process, listing, inspection, history
<1> QED
  BY <1>3, <1>4, <1>5 DEF IInv

LEMMA StepOK == IInv /\ [Next]_vars => IInv'
<1> SUFFICES ASSUME IInv, [Next]_vars PROVE IInv'
  OBVIOUS
<1>1. CASE Scan
  BY <1>1, SetupOK, FdopendirOK, EntryOK, EnumerationEndsOK, ClosedirOK, SortOK,
     NextFdOK, Stat1OK, ReadlinkOK, Stat2OK, FlushOK, CloseDirOK, CleanupOK DEF Scan
<1>2. CASE Process
  BY <1>2, ProcessOK
<1>3. CASE UNCHANGED vars
  <2>1. UNCHANGED <<process, pc, listing, inspection, op, handles, history>>
    BY <1>3 DEF vars
  <2>2. Deleted' = Deleted
    BY <2>1 DEF Deleted, Open, Regular, process
  <2>3. TypeOK' /\ Owned'
    BY <2>1 DEF IInv, TypeOK, Owned, process, listing, inspection, handles, history
  <2>4. Kept'
    BY <2>1, <2>2 DEF IInv, Kept, Reported, process, listing, inspection, history
  <2> QED
    BY <2>3, <2>4 DEF IInv
<1> QED
  BY <1>1, <1>2, <1>3 DEF Next, Terminated

LEMMA Invariant == Spec => []IInv
BY InitOK, StepOK, PTL DEF Spec

-----------------------------------------------------------------------------
(* Every variable keeps its type, at most FD_RETAIN_CAP descriptors are    *)
(* retained, and no handle is closed more than once.                       *)
THEOREM TypesHold == Spec => []TypeOK
<1>1. IInv => TypeOK
  BY DEF IInv
<1> QED
  BY <1>1, Invariant, PTL

(* Wherever run_scan() stops, closedir() and cleanup_scan() between them   *)
(* close each handle exactly once if it was opened.                        *)
THEOREM HandlesAreClosedOnce == Spec => []ClosedOnce
<1>1. IInv => ClosedOnce
  BY DEF IInv, TypeOK, Owned, ClosedOnce
<1> QED
  BY <1>1, Invariant, PTL

(* A descriptor that leads to one unlinked regular file during the whole   *)
(* scan is reported, whatever the process does to the others, unless the   *)
(* scan failed or says that it was cut short.                              *)
THEOREM NothingHeldIsPassedOver == Spec => []HeldFilesAreReported
<1>1. IInv => HeldFilesAreReported
  BY DEF IInv, Kept, Reported, HeldFilesAreReported
<1> QED
  BY <1>1, Invariant, PTL

(* Exit status 0 is never given while such a descriptor exists. *)
THEOREM StatusZeroIsHonest == Spec => []SilenceIsHonest
<1>1. IInv => SilenceIsHonest
  BY DEF IInv, TypeOK, Kept, Reported, SilenceIsHonest, Status, HadAdvisory
<1> QED
  BY <1>1, Invariant, PTL

-----------------------------------------------------------------------------
(* Openunlink implements FdAudit. *)

Inspecting == pc \in {"stat1", "readlink", "stat2"}

(* The inspection goes up: what has a verdict is below what has none yet.  *)
Ascending ==
  /\ pc \in {"start", "dup", "allocate", "fdopendir", "enumerate", "closedir", "sort"} =>
       \A m \in Fds : verdict[m] = "none"
  /\ pc = "next" \/ Inspecting =>
       \A m \in Fds, n \in todo : verdict[m] # "none" => m < n
  /\ Inspecting =>
       /\ current \in Fds
       /\ \A m \in Fds : verdict[m] # "none" => m < current
       /\ \A n \in todo : current < n

LEMMA AscendingInit == Init => Ascending
BY DEF Init, Ascending, Inspecting

(* No descriptor is judged but the current one, and that one is done with. *)
LEMMA VerdictsAreGiven ==
  ASSUME IInv, [Next]_vars
  PROVE  \/ verdict' = verdict /\ pc # "done" /\ pc' # "done"
         \/ verdict' = verdict /\ (pc = "cleanup" \/ pc = "done") /\ pc' = "done"
         \/ /\ Inspecting /\ pc' = "next" /\ todo' = todo
            /\ \E v \in Advisories \cup {IF current \in Deleted THEN "found" ELSE "silent"} :
                 verdict' = [verdict EXCEPT ![current] = v]
            /\ Deleted' = Deleted
<1>1. CASE OpenDir \/ Dup \/ Allocate \/ Fdopendir \/ (\E d \in Fds : Entry(d))
  BY <1>1 DEF OpenDir, Dup, Allocate, Fdopendir, Entry, Stop, Goto, inspection
<1>2. CASE EnumerationEnds \/ Closedir \/ Sort \/ NextFd \/ Flush \/ CloseDir
  BY <1>2 DEF EnumerationEnds, Closedir, Sort, NextFd, Flush, CloseDir, Stop, Goto, inspection
<1>3. CASE Cleanup \/ Process \/ UNCHANGED vars
  <2>1. CASE Cleanup
    BY <2>1 DEF Cleanup, Goto, inspection
  <2>2. CASE Process
    BY <2>2 DEF Process, inspection
  <2>3. CASE UNCHANGED vars
    BY <2>3 DEF vars, inspection
  <2> QED
    BY <1>3, <2>1, <2>2, <2>3
<1>4. CASE Stat1
  <2>1. /\ Inspecting /\ UNCHANGED process
        /\ \/ \E code \in Advisories : Classify(code)
           \/ ~Regular(table[current]) /\ Classify("silent")
           \/ pc' = "readlink" /\ UNCHANGED verdict
    BY <1>4 DEF Stat1, Goto, Advisories, Inspecting
  <2>2. Deleted' = Deleted
    BY <2>1 DEF Deleted, Open, Regular, process
  <2>3. ~Regular(table[current]) => current \notin Deleted
    BY DEF Deleted
  <2> QED
    BY <1>4, <2>1, <2>2, <2>3 DEF Classify, Goto, Stat1
<1>5. CASE Readlink
  <2>1. /\ Inspecting /\ UNCHANGED process
        /\ \/ \E code \in Advisories : Classify(code)
           \/ pc' = "stat2" /\ UNCHANGED verdict
    BY <1>5 DEF Readlink, Goto, Advisories, Inspecting, inspection
  <2>2. Deleted' = Deleted
    BY <2>1 DEF Deleted, Open, Regular, process
  <2> QED
    BY <1>5, <2>1, <2>2 DEF Classify, Goto, Readlink
<1>6. CASE Stat2
  <2>1. /\ Inspecting /\ UNCHANGED process
        /\ \/ \E code \in Advisories : Classify(code)
           \/ current \notin Deleted /\ Classify("silent")
           \/ current \in Deleted /\ Classify("found")
           \/ pc' = "cleanup" /\ UNCHANGED verdict
    <3>1. current \in Fds
      BY <1>6, NoFdIsNoFd DEF IInv, TypeOK, Stat2
    <3>2. current \in Deleted <=> /\ table[current] # NoFile /\ Regular(table[current])
                                  /\ file[table[current]].nlink = 0
      BY <3>1 DEF Deleted, Open
    <3> QED
      BY <1>6, <3>2 DEF Stat2, Changed, NoLinks, Stop, Goto, Advisories, Inspecting, inspection
  <2>2. Deleted' = Deleted
    BY <2>1 DEF Deleted, Open, Regular, process
  <2> QED
    BY <1>6, <2>1, <2>2 DEF Classify, Goto, Stat2
<1> QED
  BY <1>1, <1>2, <1>3, <1>4, <1>5, <1>6 DEF Next, Scan, Terminated

(* NextFd takes the least of those to come; a verdict is given to nothing  *)
(* above it.                                                               *)
LEMMA AscendingStep == IInv /\ Ascending /\ [Next]_vars => Ascending'
<1> SUFFICES ASSUME IInv, Ascending, [Next]_vars PROVE Ascending'
  OBVIOUS
<1> DEFINE Early == {"start", "dup", "allocate", "fdopendir", "enumerate", "closedir", "sort"}
<1>1. CASE \/ OpenDir \/ Dup \/ Allocate \/ Fdopendir \/ (\E d \in Fds : Entry(d))
           \/ EnumerationEnds \/ Closedir
  <2>1. pc \in Early /\ pc' \in Early \cup {"cleanup"} /\ verdict' = verdict
    BY <1>1 DEF OpenDir, Dup, Allocate, Fdopendir, Entry, EnumerationEnds, Closedir, Stop, Goto,
       inspection
  <2> QED
    BY <2>1 DEF Ascending, Inspecting
<1>2. CASE Sort
  BY <1>2 DEF Sort, Stop, Goto, Ascending, Inspecting
<1>3. CASE NextFd
  <2>1. PICK d \in todo : /\ \A e \in todo : d <= e
                          /\ current' = d /\ todo' = todo \ {d}
    BY <1>3 DEF NextFd
  <2>2. pc = "next" /\ pc' = "stat1" /\ verdict' = verdict /\ todo \subseteq Fds /\ Fds \subseteq Nat
    BY <1>3, OpenunlinkAssumption DEF NextFd, Goto, IInv, TypeOK
  <2>3. \A n \in todo' : d < n
    BY <2>1, <2>2
  <2> QED
    BY <2>1, <2>2, <2>3 DEF Ascending, Inspecting
<1>4. CASE Stat1 \/ Readlink \/ Stat2
  <2>1. /\ Inspecting /\ todo' = todo
        /\ \/ UNCHANGED <<verdict, current>> /\ pc' \in {"readlink", "stat2", "cleanup"}
           \/ pc' = "next" /\ \E v : verdict' = [verdict EXCEPT ![current] = v]
    BY <1>4 DEF Stat1, Readlink, Stat2, Classify, Stop, Goto, Inspecting, inspection
  <2>2. verdict \in [Fds -> Verdicts]
    BY DEF IInv, TypeOK
  <2>3. CASE UNCHANGED <<verdict, current>>
    BY <2>1, <2>3 DEF Ascending, Inspecting
  <2>4. CASE pc' = "next"
    <3>1. \A m \in Fds : m # current => verdict'[m] = verdict[m]
      BY <2>1, <2>2, <2>4
    <3> QED
      BY <2>1, <2>4, <3>1 DEF Ascending, Inspecting
  <2> QED
    BY <2>1, <2>3, <2>4
<1>5. CASE Flush \/ CloseDir \/ Cleanup
  BY <1>5 DEF Flush, CloseDir, Cleanup, Stop, Goto, Ascending, Inspecting
<1>6. CASE Process \/ UNCHANGED vars
  <2>1. UNCHANGED <<pc, todo, current, verdict>>
    BY <1>6 DEF Process, vars, inspection
  <2> QED
    BY <2>1 DEF Ascending, Inspecting
<1> QED
  BY <1>1, <1>2, <1>3, <1>4, <1>5, <1>6 DEF Next, Scan, Terminated

LEMMA AscendingAlways == Spec => []Ascending
BY AscendingInit, AscendingStep, Invariant, PTL DEF Spec

(* The status says "2" for a failure, and "0" for nothing but silence.     *)
FairStatus ==
  /\ Status \in {"0", "1", "2"}
  /\ Status = "0" => \A n \in Fds : verdict[n] \in {"none", "silent"}

LEMMA StatusIsFair == IInv => FairStatus
<1> SUFFICES ASSUME IInv PROVE FairStatus
  OBVIOUS
<1>1. verdict \in [Fds -> Verdicts]
  BY DEF IInv, TypeOK
<1> QED
  BY <1>1 DEF Status, HadAdvisory, Verdicts, FairStatus

LEMMA EachStepIsAudited ==
  ASSUME IInv, FairStatus', Ascending, [Next]_vars
  PROVE  [A!ANext]_(A!audit)
<1>1. Deleted \in SUBSET Fds /\ Deleted' \in SUBSET Fds
  BY DEF Deleted, Open
<1>2. CASE verdict' = verdict /\ pc # "done" /\ pc' # "done"
  BY <1>1, <1>2 DEF A!ANext, A!Live
<1>3. CASE verdict' = verdict /\ pc = "done" /\ pc' = "done"
  <2>1. UNCHANGED <<op, fd_count_limit>>
    BY <1>3 DEF Next, Scan, Terminated, vars, OpenDir, Dup, Allocate, Fdopendir, Entry,
       EnumerationEnds, Closedir, Sort, NextFd, Stat1, Readlink, Stat2, Flush, CloseDir, Cleanup,
       Process, listing
  <2>2. Status' = Status
    BY <1>3, <2>1 DEF Status, HadAdvisory
  <2> QED
    BY <1>1, <1>3, <2>2 DEF A!ANext, A!Live
<1>4. CASE verdict' = verdict /\ pc = "cleanup" /\ pc' = "done"
  <2>1. Deleted' = Deleted
    <3>1. UNCHANGED process
      BY <1>4 DEF Next, Scan, Terminated, vars, OpenDir, Dup, Allocate, Fdopendir, Entry,
         EnumerationEnds, Closedir, Sort, NextFd, Stat1, Readlink, Stat2, Flush, CloseDir,
         Cleanup, Process
    <3> QED
      BY <3>1 DEF Deleted, Open, Regular, process
  <2>2. /\ Status' \in {"0", "1", "2"}
        /\ Status' = "0" => \A n \in Fds : verdict'[n] \in {"none", "silent"}
    BY DEF FairStatus
  <2> QED
    BY <1>4, <2>1, <2>2 DEF A!ANext, A!Conclude
<1>5. CASE /\ Inspecting /\ pc' = "next"
           /\ \E v \in Advisories \cup {IF current \in Deleted THEN "found" ELSE "silent"} :
                verdict' = [verdict EXCEPT ![current] = v]
           /\ Deleted' = Deleted
  <2>1. current \in Fds /\ \A m \in Fds : m >= current => verdict[m] = "none"
    <3>1. current \in Fds /\ \A m \in Fds : verdict[m] # "none" => m < current
      BY <1>5 DEF Ascending
    <3> QED
      BY <3>1, OpenunlinkAssumption
  <2>2. A!Judge(current)
    BY <1>5, <2>1 DEF A!Judge, Inspecting
  <2> QED
    BY <2>1, <2>2 DEF A!ANext
<1> QED
  BY <1>2, <1>3, <1>4, <1>5, VerdictsAreGiven

(* run_scan() under the process it looks at implements FdAudit: a verdict  *)
(* is given at most once, in ascending order, and is true of the           *)
(* descriptor at that moment; status 0 is given for silence only.          *)
THEOREM ScanIsAnAudit == Spec => ImplementsFdAudit
<1>1. Init => A!AInit
  BY DEF Init, A!AInit, Deleted, Open
<1>2. IInv /\ FairStatus' /\ Ascending /\ [Next]_vars => [A!ANext]_(A!audit)
  BY EachStepIsAudited
<1> QED
  BY <1>1, <1>2, StatusIsFair, Invariant, AscendingAlways, PTL DEF Spec, ImplementsFdAudit, A!ASpec
=============================================================================
