------------------------------- MODULE FdAudit -------------------------------
(***************************************************************************)
(* What openunlink promises: each descriptor gets at most one verdict, in  *)
(* ascending order, and the verdict was true of it at one moment, though   *)
(* the process it belongs to goes on all the while; the status is 0 only   *)
(* if there was nothing to tell.  (docs/sixth-utility-capability-          *)
(* contract.md, Hazard Taxonomy and Exit Statuses.)                        *)
(***************************************************************************)
EXTENDS Integers

CONSTANTS
  Numbers,        \* numbers that descriptors may have
  Advisories      \* verdicts that say nothing of the file

VARIABLES
  deleted,        \* the descriptors that refer to an unlinked regular file
  verdict,        \* what was said of each descriptor
  outcome         \* "running" or the exit status

audit == <<deleted, verdict, outcome>>

AInit ==
  /\ deleted \in SUBSET Numbers
  /\ verdict = [n \in Numbers |-> "none"] /\ outcome = "running"

(* The process opens, closes and unlinks as it likes. *)
Live == deleted' \in SUBSET Numbers /\ UNCHANGED <<verdict, outcome>>

Judge(n) ==
  /\ outcome = "running"
  /\ \A m \in Numbers : m >= n => verdict[m] = "none"
  /\ \E v \in Advisories \cup {IF n \in deleted THEN "found" ELSE "silent"} :
       verdict' = [verdict EXCEPT ![n] = v]
  /\ UNCHANGED <<deleted, outcome>>

(* Status 1 may also say that not all descriptors were looked at. *)
Conclude ==
  /\ outcome = "running"
  /\ outcome' \in {"0", "1", "2"}
  /\ outcome' = "0" => \A n \in Numbers : verdict[n] \in {"none", "silent"}
  /\ UNCHANGED <<deleted, verdict>>

ANext == Live \/ Conclude \/ \E n \in Numbers : Judge(n)

ASpec == AInit /\ [][ANext]_audit
=============================================================================
