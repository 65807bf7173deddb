------------------------------ MODULE Lifecycle ------------------------------
(***************************************************************************)
(* What agentwatch promises about one supervised run, with no process      *)
(* table, no clock and no procfs: the run is ended by the tree of its own  *)
(* accord, or for a cause; for a cause the tree is sent SIGTERM, then      *)
(* SIGKILL; and the status of a run that was launched says why, by one     *)
(* order of precedence over what is recorded at its end.  It is what the   *)
(* code does (src/src/agentwatch.c supervise()); where the contract has    *)
(* another order is said in Agentwatch, at InterruptIsHonoured and         *)
(* EarlyInterruptIsHonoured.                                               *)
(***************************************************************************)
CONSTANT Causes   \* what may end a run, besides an interruption

VARIABLES phase, causes, interrupted, status

lifecycle == <<phase, causes, interrupted, status>>

Active == {"run", "term", "kill"}

LInit ==
  /\ phase = "start" /\ causes = {} /\ interrupted = FALSE /\ status = "none"

(* Nothing was started: the first call of the setup that fails gives the   *)
(* status, an interruption recorded or not.                                *)
Refuse ==
  /\ phase = "start" /\ phase' = "done"
  /\ status' \in {"internal", "start_failed"}
  /\ UNCHANGED <<causes, interrupted>>

Launch ==
  /\ phase = "start" /\ phase' = "run"
  /\ UNCHANGED <<causes, interrupted, status>>

InterruptRun ==
  /\ phase # "done" /\ interrupted' = TRUE
  /\ UNCHANGED <<phase, causes, status>>

(* A failure is noticed; a deadline is noticed only while the run is on.   *)
Notice(c) ==
  /\ phase \in Active /\ (c = "timed_out" => phase = "run" /\ ~interrupted)
  /\ causes' = causes \cup {c}
  /\ UNCHANGED <<interrupted, status>>

Terminate ==
  /\ phase = "run" /\ phase' = "term"
  /\ \/ interrupted /\ UNCHANGED causes
     \/ causes # {} /\ UNCHANGED causes
     \/ \E c \in Causes : Notice(c)
  /\ UNCHANGED <<interrupted, status>>

NoticeOnly == \E c \in Causes : Notice(c) /\ UNCHANGED phase

Escalate ==
  /\ phase = "term" /\ phase' = "kill"
  /\ UNCHANGED <<causes, interrupted, status>>

(* The status a run is reported with. *)
Verdict ==
  IF interrupted THEN "interrupted"
  ELSE IF "start_failed" \in causes THEN "start_failed"
  ELSE IF "timed_out" \in causes THEN "timed_out"
  ELSE IF "internal" \in causes THEN "internal"
  ELSE "direct"

(* Only a run that was never terminated ends with the command's status.    *)
Report ==
  /\ phase \in Active /\ phase' = "done"
  /\ Verdict = "direct" => phase = "run"
  /\ status' = Verdict
  /\ UNCHANGED <<causes, interrupted>>

LNext ==
  \/ Refuse \/ Launch \/ InterruptRun \/ Terminate \/ NoticeOnly \/ Escalate \/ Report

LSpec == LInit /\ [][LNext]_lifecycle
=============================================================================
