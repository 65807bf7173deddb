----------------------------- MODULE Openunlink -----------------------------
(***************************************************************************)
(* openunlink (src/src/openunlink.c): lists the descriptors of one process *)
(* that refer to an unlinked regular file.  The process runs on while its  *)
(* /proc/PID/fd is read; each descriptor is looked at three times, and     *)
(* what it refers to may change in between.                                *)
(***************************************************************************)
EXTENDS Integers, FiniteSets

CONSTANTS
  Fds,        \* descriptor numbers the process uses
  Inodes,     \* (st_dev, st_ino)
  NoFile,     \* what a closed descriptor refers to
  Cap,        \* FD_RETAIN_CAP
  Faults      \* what may fail

FaultNames == {"open", "dup", "memory", "fdopendir", "readdir", "entry", "closedir",
               "stat", "readlink", "length", "range", "write", "close"}

ASSUME OpenunlinkAssumption ==
  /\ Fds \subseteq Nat /\ NoFile \notin Inodes
  /\ Cap \in Nat \ {0} /\ Faults \subseteq FaultNames

VARIABLES
  table, file,          \* the process: descriptors, and the files themselves
  alive,
  pc,                   \* where run_scan() is
  retained, fd_count, fd_count_limit,
  todo,                 \* retained descriptors not inspected yet
  current, first,       \* the one being inspected, and what the first fstatat said
  verdict, op,
  dir_fd, dup_fd, dir,  \* are they held?
  closed,               \* history: how often each descriptor was closed
  steady, offered, held \* history, since the enumeration began: open all the
     \* time; open at some time; referring to one unlinked file all the time

process == <<table, file, alive>>
listing == <<retained, fd_count, fd_count_limit>>
inspection == <<todo, current, first, verdict>>
handles == <<dir_fd, dup_fd, dir, closed>>
history == <<steady, offered, held>>
vars == <<process, pc, listing, inspection, op, handles, history>>

NoFd == -1
Kinds == {"regular", "other"}
File == [kind : Kinds, nlink : {0, 1}]
Advisories == {"FD_UNSTABLE", "FD_UNREADABLE", "TARGET_LENGTH_LIMIT", "FD_SIZE_RANGE"}
Verdicts == Advisories \cup {"none", "silent", "found"}
Ops == {"NONE", "PROCESS_NOT_FOUND", "PROCESS_ACCESS", "PROCESS_SCAN", "MEMORY",
        "STDOUT_WRITE"}

Open == {d \in Fds : table[d] # NoFile}
Regular(f) == f # NoFile /\ file[f].kind = "regular"
Deleted == {d \in Open : Regular(table[d]) /\ file[table[d]].nlink = 0}

Init ==
  /\ table \in [Fds -> Inodes \cup {NoFile}] /\ file \in [Inodes -> File] /\ alive = TRUE
  /\ pc = "start"
  /\ retained = {} /\ fd_count = 0 /\ fd_count_limit = FALSE
  /\ todo = {} /\ current = NoFd /\ first = NoFile
  /\ verdict = [d \in Fds |-> "none"] /\ op = "NONE"
  /\ dir_fd = FALSE /\ dup_fd = FALSE /\ dir = FALSE
  /\ closed = [h \in {"dir_fd", "dup"} |-> 0]
  /\ steady = {} /\ offered = {} /\ held = {}

Fails(call) == call \in Faults
Goto(place) == pc' = place

(* An operational failure ends the scan; the first one is kept. *)
Stop(code) ==
  Goto("cleanup") /\ op' = (IF op = "NONE" THEN code ELSE op)

-----------------------------------------------------------------------------
(* The process that is inspected.  It may do anything with its descriptors *)
(* and files; an inode nobody refers to may become another file.           *)

Flipped(f) == [kind |-> f.kind, nlink |-> 1 - f.nlink]

Remember ==
  /\ IF pc = "enumerate"
     THEN steady' = steady \cap Open' /\ offered' = offered \cup Open'
     ELSE UNCHANGED <<steady, offered>>
  /\ held' = {d \in held \cap Deleted' : table'[d] = table[d]}

Process ==
  /\ alive /\ pc \notin {"cleanup", "done"}
  /\ \/ \E d \in Fds : \E f \in (Inodes \cup {NoFile}) \ {table[d]} :
          table' = [table EXCEPT ![d] = f] /\ UNCHANGED <<file, alive>>
     \/ \E f \in Inodes :
          /\ file' = [file EXCEPT ![f] = Flipped(@)]
          /\ UNCHANGED <<table, alive>>
     \/ \E f \in Inodes \ {table[d] : d \in Fds} : \E new \in File :
          file' = [file EXCEPT ![f] = new] /\ UNCHANGED <<table, alive>>
     \/ alive' = FALSE /\ table' = [d \in Fds |-> NoFile] /\ UNCHANGED file
  /\ Remember
  /\ UNCHANGED <<pc, listing, inspection, op, handles>>

-----------------------------------------------------------------------------
(* run_scan() up to the enumeration. *)

OpenDir ==
  /\ pc = "start"
  /\ \/ alive /\ dir_fd' = TRUE /\ Goto("dup") /\ UNCHANGED op
     \/ /\ ~alive /\ Stop("PROCESS_NOT_FOUND") /\ UNCHANGED dir_fd
     \/ /\ Fails("open") /\ UNCHANGED dir_fd
        /\ \E code \in {"PROCESS_NOT_FOUND", "PROCESS_ACCESS", "PROCESS_SCAN"} : Stop(code)
  /\ UNCHANGED <<process, listing, inspection, dup_fd, dir, closed, history>>

Dup ==
  /\ pc = "dup"
  /\ \/ dup_fd' = TRUE /\ Goto("allocate") /\ UNCHANGED op
     \/ Fails("dup") /\ Stop("PROCESS_SCAN") /\ UNCHANGED dup_fd
  /\ UNCHANGED <<process, listing, inspection, dir_fd, dir, closed, history>>

Allocate ==
  /\ pc = "allocate"
  /\ \/ Goto("fdopendir") /\ UNCHANGED op
     \/ Fails("memory") /\ Stop("MEMORY")
  /\ UNCHANGED <<process, listing, inspection, handles, history>>

(* The duplicate belongs to the DIR from here on. *)
DupAfterTransfer_Mutant == dup_fd
DupAfterTransfer == FALSE

Fdopendir ==
  /\ pc = "fdopendir"
  /\ \/ /\ dir' = TRUE /\ dup_fd' = DupAfterTransfer /\ Goto("enumerate")
        /\ steady' = Open /\ offered' = Open /\ held' = Deleted
        /\ UNCHANGED op
     \/ Fails("fdopendir") /\ Stop("PROCESS_SCAN") /\ UNCHANGED <<dup_fd, dir, history>>
  /\ UNCHANGED <<process, listing, inspection, dir_fd, closed>>

-----------------------------------------------------------------------------
(* enumerate_fds() *)

Full_Mutant == fd_count > Cap
Full == fd_count >= Cap

(* readdir() returns what was there all the time once, and may or may not  *)
(* return what came or went meanwhile; an entry that is no number, or one  *)
(* that was returned before, would be a fault of procfs.                   *)
Entry(d) ==
  /\ pc = "enumerate" /\ d \in offered
  /\ d \notin retained \/ Fails("entry")
  /\ IF Full
     THEN fd_count_limit' = TRUE /\ Goto("closedir") /\ UNCHANGED <<retained, fd_count>>
     ELSE /\ retained' = retained \cup {d} /\ fd_count' = fd_count + 1
          /\ UNCHANGED <<pc, fd_count_limit>>
  /\ UNCHANGED <<process, inspection, op, handles, history>>

(* The entries of a process that is gone are gone, too. *)
EnumerationEnds ==
  /\ pc = "enumerate"
  /\ \/ (steady \subseteq retained \/ ~alive) /\ Goto("closedir") /\ UNCHANGED op
     \/ Fails("readdir") /\ Stop("PROCESS_SCAN")
     \/ Fails("entry") /\ Stop("PROCESS_SCAN")
  /\ UNCHANGED <<process, listing, inspection, handles, history>>

Closedir ==
  /\ pc = "closedir"
  /\ dir' = FALSE /\ closed' = [closed EXCEPT !["dup"] = @ + 1]
  /\ \/ Goto("sort") /\ UNCHANGED op
     \/ Fails("closedir") /\ Stop("PROCESS_SCAN")
  /\ UNCHANGED <<process, listing, inspection, dir_fd, dup_fd, history>>

(* sort_and_check_duplicates(): from here on descriptors come in order.    *)
ToInspect_Mutant == {d \in retained : \E e \in retained : e < d}
ToInspect == retained

Sort ==
  /\ pc = "sort"
  /\ IF fd_count # Cardinality(retained)
     THEN Stop("PROCESS_SCAN") /\ UNCHANGED <<todo, history>>
     ELSE /\ Goto("next") /\ todo' = ToInspect /\ UNCHANGED op
          /\ steady' = {} /\ offered' = {} /\ UNCHANGED held
  /\ UNCHANGED <<process, listing, current, first, verdict, handles>>

-----------------------------------------------------------------------------
(* inspect_one() *)

Classify(code) ==
  /\ verdict' = [verdict EXCEPT ![current] = code]
  /\ Goto("next") /\ current' = NoFd /\ first' = NoFile /\ UNCHANGED <<todo, op>>

NextFd ==
  /\ pc = "next" /\ todo # {}
  /\ \E d \in todo :
       (\A e \in todo : d <= e) /\ current' = d /\ todo' = todo \ {d}
  /\ Goto("stat1")
  /\ UNCHANGED <<process, listing, first, verdict, op, handles, history>>

Stat1 ==
  /\ pc = "stat1"
  /\ LET f == table[current]
     IN  \/ f = NoFile /\ Classify("FD_UNSTABLE")
         \/ f # NoFile /\ ~Regular(f) /\ Classify("silent")
         \/ /\ Regular(f) /\ first' = [ino |-> f, nlink |-> file[f].nlink]
            /\ Goto("readlink") /\ UNCHANGED <<todo, current, verdict, op>>
         \/ Fails("stat") /\ Classify("FD_UNREADABLE")
  /\ UNCHANGED <<process, listing, handles, history>>

Readlink ==
  /\ pc = "readlink"
  /\ \/ table[current] = NoFile /\ Classify("FD_UNSTABLE")
     \/ table[current] # NoFile /\ Goto("stat2") /\ UNCHANGED <<inspection, op>>
     \/ Fails("readlink") /\ Classify("FD_UNREADABLE")
     \/ Fails("length") /\ Classify("TARGET_LENGTH_LIMIT")
  /\ UNCHANGED <<process, listing, handles, history>>

NoLinks_Mutant(f) == first.nlink = 0
NoLinks(f) == file[f].nlink = 0

Changed(f) == f # first.ino \/ ~Regular(f)

Stat2 ==
  /\ pc = "stat2"
  /\ LET f == table[current]
     IN  \/ f = NoFile /\ Classify("FD_UNSTABLE")
         \/ f # NoFile /\ Changed(f) /\ Classify("FD_UNSTABLE")
         \/ f # NoFile /\ ~Changed(f) /\ ~NoLinks(f) /\ Classify("silent")
         \/ f # NoFile /\ ~Changed(f) /\ NoLinks(f) /\ Classify("found")
         \/ f # NoFile /\ ~Changed(f) /\ NoLinks(f) /\ Fails("range")
              /\ Classify("FD_SIZE_RANGE")
         \/ f # NoFile /\ ~Changed(f) /\ NoLinks(f) /\ Fails("write")
              /\ Stop("STDOUT_WRITE") /\ UNCHANGED inspection
         \/ Fails("stat") /\ Classify("FD_UNREADABLE")
  /\ UNCHANGED <<process, listing, handles, history>>

-----------------------------------------------------------------------------
(* The end of run_scan(), and cleanup_scan(). *)

Flush ==
  /\ pc = "next" /\ todo = {}
  /\ \/ Goto("close") /\ UNCHANGED op
     \/ Fails("write") /\ Stop("STDOUT_WRITE")
  /\ UNCHANGED <<process, listing, inspection, handles, history>>

CloseDir ==
  /\ pc = "close"
  /\ dir_fd' = FALSE /\ closed' = [closed EXCEPT !["dir_fd"] = @ + 1]
  /\ \/ Goto("cleanup") /\ UNCHANGED op
     \/ Fails("close") /\ Stop("PROCESS_SCAN")
  /\ UNCHANGED <<process, listing, inspection, dup_fd, dir, history>>

(* closedir() closes the duplicate; dup_fd is forgotten with it. *)
Cleanup ==
  /\ pc = "cleanup"
  /\ dir' = FALSE /\ dup_fd' = FALSE /\ dir_fd' = FALSE
  /\ closed' = [closed EXCEPT
       !["dup"] = IF dir \/ dup_fd THEN @ + 1 ELSE @,
       !["dir_fd"] = IF dir_fd THEN @ + 1 ELSE @]
  /\ Goto("done")
  /\ UNCHANGED <<process, listing, inspection, op, history>>

Terminated == pc = "done" /\ UNCHANGED vars

Scan ==
  \/ OpenDir \/ Dup \/ Allocate \/ Fdopendir
  \/ (\E d \in Fds : Entry(d)) \/ EnumerationEnds \/ Closedir \/ Sort
  \/ NextFd \/ Stat1 \/ Readlink \/ Stat2
  \/ Flush \/ CloseDir \/ Cleanup

Next == Scan \/ Process \/ Terminated

Spec == Init /\ [][Next]_vars

(* finish_status(): had_advisory is set for a partial listing, too. *)
HadAdvisory_Mutant == \E d \in Fds : verdict[d] \in Advisories
HadAdvisory == fd_count_limit \/ \E d \in Fds : verdict[d] \in Advisories
Status ==
  CASE op # "NONE" -> "2"
    [] op = "NONE" /\ (HadAdvisory \/ \E d \in Fds : verdict[d] = "found") -> "1"
    [] OTHER -> "0"

-----------------------------------------------------------------------------
(* Properties. *)

(* What run_scan() keeps has its type: at most FD_RETAIN_CAP descriptors,  *)
(* inspected only if retained.                                             *)
TypeOK ==
  /\ table \in [Fds -> Inodes \cup {NoFile}] /\ file \in [Inodes -> File]
  /\ alive \in BOOLEAN
  /\ retained \subseteq Fds /\ fd_count \in 0 .. Cap /\ fd_count_limit \in BOOLEAN
  /\ todo \subseteq retained /\ current \in Fds \cup {NoFd}
  /\ pc \in {"stat1", "readlink", "stat2"} => current \in retained
  /\ verdict \in [Fds -> Verdicts] /\ op \in Ops
  /\ dir_fd \in BOOLEAN /\ dup_fd \in BOOLEAN /\ dir \in BOOLEAN
  /\ closed \in [{"dir_fd", "dup"} -> 0 .. 1]
  /\ steady \subseteq offered /\ offered \subseteq Fds /\ held \subseteq Fds

(* Each descriptor is closed once and by one owner: the duplicate by       *)
(* closedir() once fdopendir() has it, and none stays open at the end,     *)
(* wherever the scan stopped.                                              *)
ClosedOnce ==
  /\ \A h \in DOMAIN closed : closed[h] <= 1
  /\ dir_fd => closed["dir_fd"] = 0
  /\ dir \/ dup_fd => closed["dup"] = 0
  /\ ~(dir /\ dup_fd)
  /\ pc = "done" => ~dir_fd /\ ~dup_fd /\ ~dir

(* Status 0 is silence with a meaning: no descriptor referred to one       *)
(* unlinked file from the enumeration to the end.                          *)
SilenceIsHonest == pc = "done" /\ Status = "0" => held = {}

(* A descriptor that referred to one unlinked file all the time is never   *)
(* passed over in silence, unless the listing was cut short and says so.   *)
HeldFilesAreReported ==
  pc = "done" /\ op = "NONE" =>
    \A d \in held : verdict[d] \in Advisories \cup {"found"} \/ fd_count_limit

(* openunlink implements FdAudit. *)
A == INSTANCE FdAudit WITH
       Numbers <- Fds, deleted <- Deleted,
       outcome <- IF pc = "done" THEN Status ELSE "running"

ImplementsFdAudit == A!ASpec
=============================================================================
