----------------------------- MODULE ChunkStream -----------------------------
(***************************************************************************)
(* What snslice promises: the input goes into numbered chunks in its own   *)
(* order, nothing is lost, added or moved; a chunk is published only when  *)
(* it ends where it may be cut; a failed run keeps the published chunks    *)
(* and publishes no other.  (docs/snslice-first-slice-contract.md, AC-2,   *)
(* AC-3.)                                                                  *)
(***************************************************************************)
EXTENDS Sequences

CONSTANTS
  Items,         \* what a stream is made of
  Kinds,         \* the kinds of streams
  MayCut(_, _)   \* may a chunk of this kind and with this content end here?

VARIABLES
  kind,          \* the kind of the stream; it does not change
  chunks,        \* the published chunks, in order
  rest,          \* what was consumed since the last of them
  over,          \* is the input at its end?
  outcome        \* "running", "ok" or "failed"

stream == <<kind, chunks, rest, over, outcome>>

SInit ==
  kind \in Kinds /\ chunks = <<>> /\ rest = <<>> /\ over = FALSE /\ outcome = "running"

Consume ==
  /\ outcome = "running" /\ ~over
  /\ \E b \in Items : rest' = Append(rest, b)
  /\ UNCHANGED <<kind, chunks, over, outcome>>

(* The end of the input. *)
Close ==
  /\ outcome = "running" /\ ~over /\ over' = TRUE
  /\ UNCHANGED <<kind, chunks, rest, outcome>>

(* A chunk is never empty; the last one may end with the input.            *)
Publish ==
  /\ outcome = "running" /\ rest # <<>>
  /\ MayCut(kind, rest) \/ over
  /\ chunks' = Append(chunks, rest) /\ rest' = <<>>
  /\ outcome' = IF over THEN "ok" ELSE "running"
  /\ UNCHANGED <<kind, over>>

(* The input ends where the last chunk did. *)
Succeed ==
  /\ outcome = "running" /\ ~over /\ rest = <<>>
  /\ outcome' = "ok" /\ over' = TRUE
  /\ UNCHANGED <<kind, chunks, rest>>

(* What was not published is dropped; the byte that shows the input to be  *)
(* malformed is dropped with it.                                           *)
Fail ==
  /\ outcome = "running" /\ outcome' = "failed" /\ rest' = <<>>
  /\ over => over'
  /\ over' \in BOOLEAN
  /\ UNCHANGED <<kind, chunks>>

SNext == Consume \/ Close \/ Publish \/ Succeed \/ Fail

SSpec == SInit /\ [][SNext]_stream
=============================================================================
