------------------------------- MODULE Snslice -------------------------------
(***************************************************************************)
(* snslice (src/src/snslice.c): cuts a stream of NDJSON or CSV records     *)
(* into numbered chunk files, at record boundaries only.                   *)
(*                                                                         *)
(* A byte is one of the classes the automaton tells apart.  io_buffer is   *)
(* kept as slice, the bytes of it that were looked at and not yet written; *)
(* its end may come after any byte.  One action per byte, and one per      *)
(* system call whose failure has an effect of its own.                     *)
(***************************************************************************)
EXTENDS Naturals, Sequences, Records

CONSTANTS
  Configs,     \* the SnSliceConfigs: records of format and the two limits
  Preexisting, \* sets of numbers that files may have before the run
  Faults,      \* what may fail
  MaxRecord,   \* SNSLICE_MAX_RECORD_BYTES
  MaxInput     \* bound: the length of the stream

Bytes == {"lf", "cr", "quote", "comma", "other", "nul"}
FaultNames == {"read", "path", "open", "write", "pipe", "close", "unlink"}
Hazards == {"INPUT_READ_ERROR", "RECORD_LENGTH_LIMIT", "MALFORMED", "OUTPUT_DIR_ERROR",
            "OUTPUT_COLLISION", "CHUNK_OPEN_ERROR", "CHUNK_WRITE_ERROR", "BROKEN_PIPE"}
Formats == {"ndjson", "csv"}

(* main() refuses a configuration without a limit; 0 is no limit. *)
ASSUME SnsliceAssumption ==
  /\ \A cfg \in Configs :
       /\ cfg \in [format : Formats, limit_bytes : Nat, limit_records : Nat]
       /\ cfg.limit_bytes > 0 \/ cfg.limit_records > 0
  /\ MaxInput \in Nat /\ MaxRecord \in Nat \ {0}
  /\ \A set \in Preexisting : set \subseteq Nat \ {0}
  /\ Faults \subseteq FaultNames

VARIABLES
  cfg,          \* the configuration
  pc,           \* where stream_slice() is
  csv_state, record_bytes, chunk_index, chunk_bytes, chunk_records,
  fd,           \* is active_chunk_fd open?
  eof,          \* has read() returned 0?
  slice,        \* io_buffer from slice_start to i
  disk,         \* the files of the output directory, by number
  status,       \* "running", "ok" (exit 0), or the hazard (exit 2)
  seen          \* history: the stream as far as it was looked at

counters == <<record_bytes, chunk_index, chunk_bytes, chunk_records>>
vars == <<cfg, pc, csv_state, counters, fd, eof, slice, disk, status, seen>>

CsvStates == {"START", "UNQUOTED", "QUOTED", "ESCAPED_QUOTE"}
Numbers == 1 .. MaxInput + 1
Absent == [kind |-> "absent", data |-> <<>>]
Foreign == [kind |-> "foreign", data |-> <<>>]
Ours(data) == [kind |-> "ours", data |-> data]
Stuck == [kind |-> "stuck", data |-> <<>>]  \* part of a chunk; what of it is left open

Init ==
  /\ cfg \in Configs
  /\ pc = "byte" /\ csv_state = "START"
  /\ record_bytes = 0 /\ chunk_index = 1 /\ chunk_bytes = 0 /\ chunk_records = 0
  /\ fd = FALSE /\ eof = FALSE /\ slice = <<>> /\ status = "running" /\ seen = <<>>
  /\ \E set \in Preexisting :
       disk = [n \in Numbers |-> IF n \in set THEN Foreign ELSE Absent]

Fails(call) == call \in Faults

-----------------------------------------------------------------------------
(* The automaton that finds the ends of records. *)

CsvNext_Mutant(state, c) ==
  CASE state = "START" ->
         IF c = "quote" THEN "QUOTED" ELSE IF c \in {"lf", "comma", "cr"} THEN "START"
         ELSE "UNQUOTED"
    [] state = "UNQUOTED" ->
         IF c \in {"comma", "lf"} THEN "START" ELSE "UNQUOTED"
    [] state = "QUOTED" -> IF c = "quote" THEN "UNQUOTED" ELSE "QUOTED"

CsvNext(state, c) ==
  CASE state = "START" ->
         IF c = "quote" THEN "QUOTED" ELSE IF c \in {"lf", "comma", "cr"} THEN "START"
         ELSE "UNQUOTED"
    [] state = "UNQUOTED" ->
         IF c \in {"comma", "lf"} THEN "START" ELSE "UNQUOTED"
    [] state = "QUOTED" -> IF c = "quote" THEN "ESCAPED_QUOTE" ELSE "QUOTED"
    [] state = "ESCAPED_QUOTE" ->
         IF c = "quote" THEN "QUOTED" ELSE IF c \in {"comma", "lf"} THEN "START"
         ELSE "ESCAPED_QUOTE"

(* Only a separator, a line end or another quote may follow a quote. *)
Malformed(state, c) ==
  \/ c = "nul"
  \/ cfg.format = "csv" /\ state = "ESCAPED_QUOTE" /\ c = "other"

Boundary(state, c) == c = "lf" /\ (cfg.format = "ndjson" \/ state # "QUOTED")

NextState(c) == IF cfg.format = "csv" THEN CsvNext(csv_state, c) ELSE csv_state

-----------------------------------------------------------------------------
(* abort_cleanup(): the active chunk is closed and unlinked; the result of *)
(* unlink() is not looked at.  What the directory may be after that.       *)
Remains == {Absent} \cup (IF Fails("unlink") THEN {Stuck} ELSE {})
Unlinked_Mutant == {[disk EXCEPT ![chunk_index] = file] : file \in Remains}
Unlinked ==
  IF fd THEN {[disk EXCEPT ![chunk_index] = file] : file \in Remains} ELSE {disk}

Abort(hazard) ==
  /\ status' = hazard /\ pc' = "done"
  /\ disk' \in Unlinked /\ fd' = FALSE /\ slice' = <<>>
  /\ UNCHANGED <<cfg, csv_state, counters, eof>>

TooLong_Mutant == record_bytes > MaxRecord
TooLong == record_bytes + 1 > MaxRecord

(* One byte of the buffer. *)
Byte(c) ==
  /\ pc = "byte" /\ Len(seen) < MaxInput
  /\ seen' = Append(seen, c)
  /\ \/ /\ Malformed(csv_state, c) /\ (c = "nul" \/ ~TooLong)
        /\ Abort("MALFORMED")
     \/ /\ c # "nul" /\ TooLong
        /\ Abort("RECORD_LENGTH_LIMIT")
     \/ /\ ~Malformed(csv_state, c) /\ ~TooLong
        /\ slice' = Append(slice, c)
        /\ record_bytes' = record_bytes + 1
        /\ csv_state' = NextState(c)
        /\ pc' = IF Boundary(csv_state, c) THEN "record" ELSE "byte"
        /\ UNCHANGED <<cfg, chunk_index, chunk_bytes, chunk_records, fd, eof, disk, status>>

(* The end of the buffer inside a record: what there is of it is written. *)
EndOfBuffer ==
  /\ pc = "byte" /\ slice # <<>>
  /\ pc' = "part"
  /\ UNCHANGED <<cfg, csv_state, counters, fd, eof, slice, disk, status, seen>>

(* write_to_chunk(), which opens the next chunk first if none is open. *)
OpenChunk ==
  /\ pc \in {"record", "part"} /\ ~fd
  /\ \/ /\ disk[chunk_index] = Absent
        /\ disk' = [disk EXCEPT ![chunk_index] = Ours(<<>>)]
        /\ fd' = TRUE
        /\ UNCHANGED <<cfg, pc, csv_state, counters, eof, slice, status>>
     \/ disk[chunk_index] # Absent /\ Abort("OUTPUT_COLLISION")
     \/ Fails("open") /\ Abort("CHUNK_OPEN_ERROR")
     \/ Fails("path") /\ Abort("OUTPUT_DIR_ERROR")
  /\ UNCHANGED seen

(* Is the chunk full, now that a record of it is complete? *)
ShouldSplit_Mutant(bytes, records) ==
  /\ cfg.limit_bytes > 0 => bytes >= cfg.limit_bytes
  /\ cfg.limit_records > 0 => records >= cfg.limit_records
ShouldSplit(bytes, records) ==
  \/ cfg.limit_bytes > 0 /\ bytes >= cfg.limit_bytes
  \/ cfg.limit_records > 0 /\ records >= cfg.limit_records

WriteChunk ==
  /\ pc \in {"record", "part"} /\ fd
  /\ \/ /\ disk' = [disk EXCEPT ![chunk_index] = Ours(@.data \o slice)]
        /\ slice' = <<>>
        /\ chunk_bytes' = chunk_bytes + Len(slice)
        /\ IF pc = "record"
           THEN /\ record_bytes' = 0 /\ chunk_records' = chunk_records + 1
                /\ pc' = IF ShouldSplit(chunk_bytes', chunk_records') THEN "close" ELSE "byte"
           ELSE pc' = "byte" /\ UNCHANGED <<record_bytes, chunk_records>>
        /\ UNCHANGED <<cfg, csv_state, chunk_index, fd, eof, status>>
     \/ Fails("write") /\ Abort("CHUNK_WRITE_ERROR")
     \/ Fails("pipe") /\ Abort("BROKEN_PIPE")
  /\ UNCHANGED seen

(* close_chunk(). *)
CloseChunk ==
  /\ pc = "close"
  /\ \/ /\ chunk_index' = chunk_index + 1 /\ chunk_bytes' = 0 /\ chunk_records' = 0
        /\ fd' = FALSE
        /\ IF eof THEN pc' = "done" /\ status' = "ok" ELSE pc' = "byte" /\ UNCHANGED status
        /\ UNCHANGED <<cfg, csv_state, record_bytes, eof, slice, disk>>
     \/ Fails("close") /\ Abort("CHUNK_WRITE_ERROR")
  /\ UNCHANGED seen

(* read() fails, or returns 0. *)
ReadError ==
  /\ pc = "byte" /\ slice = <<>> /\ Fails("read")
  /\ Abort("INPUT_READ_ERROR")
  /\ UNCHANGED seen

(* A stream that may not end here: a line without its newline, a field     *)
(* without its closing quote.                                              *)
Unterminated ==
  IF cfg.format = "ndjson" THEN record_bytes > 0 ELSE csv_state = "QUOTED"

Eof ==
  /\ pc = "byte" /\ slice = <<>>
  /\ eof' = TRUE
  /\ \/ /\ Unterminated
        /\ status' = "MALFORMED" /\ pc' = "done" /\ disk' \in Unlinked /\ fd' = FALSE
        /\ UNCHANGED counters
     \/ /\ ~Unterminated
        /\ chunk_records' = IF cfg.format = "csv" /\ record_bytes > 0
                            THEN chunk_records + 1 ELSE chunk_records
        /\ IF fd THEN pc' = "close" /\ UNCHANGED status ELSE pc' = "done" /\ status' = "ok"
        /\ UNCHANGED <<record_bytes, chunk_index, chunk_bytes, fd, disk>>
  /\ UNCHANGED <<cfg, csv_state, slice, seen>>

Terminated == pc = "done" /\ UNCHANGED vars

Next ==
  \/ \E c \in Bytes : Byte(c)
  \/ EndOfBuffer \/ OpenChunk \/ WriteChunk \/ CloseChunk \/ ReadError \/ Eof
  \/ Terminated

Spec == Init /\ [][Next]_vars
-----------------------------------------------------------------------------
(* Properties. *)

File == [kind : {"absent", "foreign", "ours", "stuck"}, data : Seq(Bytes)]

TypeOK ==
  /\ cfg \in Configs
  /\ pc \in {"byte", "record", "part", "close", "done"}
  /\ csv_state \in CsvStates
  /\ record_bytes \in 0 .. MaxRecord
  /\ chunk_index \in Numbers /\ chunk_bytes \in Nat /\ chunk_records \in Nat
  /\ fd \in BOOLEAN /\ eof \in BOOLEAN
  /\ slice \in Seq(Bytes) /\ seen \in Seq(Bytes)
  /\ disk \in [Numbers -> File]
  /\ status \in {"running", "ok"} \cup Hazards

Published == [n \in 1 .. chunk_index - 1 |-> disk[n].data]

(* A chunk ends at the first record end at which a limit is reached: not   *)
(* later, and, unless the input ends, not before.                          *)
SplitIsTimely ==
  \A n \in DOMAIN Published :
    LET data == Published[n]
        cuts == Cuts(cfg.format, data)
        full(k) ==
          \/ cfg.limit_bytes > 0 /\ k >= cfg.limit_bytes
          \/ cfg.limit_records > 0 /\ Cardinality({j \in cuts : j <= k}) >= cfg.limit_records
    IN  ~SpacedQuotes(data) =>
          /\ \A k \in cuts : full(k) => k >= Len(data)
          /\ full(Len(data)) \/ (eof /\ n = chunk_index - 1)

(* No file that was there before is written or removed, whatever fails.    *)
ForeignFilesAreKept ==
  [][\A n \in Numbers : disk[n].kind = "foreign" => disk'[n] = disk[n]]_vars

(* snslice implements ChunkStream: what a chunk may end with is whole      *)
(* records, by the grammar of Records.  A chunk in which carriage returns  *)
(* stand between two quotes is left to QuotesEscapeInPairs.                *)
MayEnd(format, data) == SpacedQuotes(data) \/ WholeRecords(format, data)

S == INSTANCE ChunkStream WITH
       Items <- Bytes, Kinds <- Formats, MayCut <- MayEnd,
       kind <- cfg.format, chunks <- Published, rest <- disk[chunk_index].data \o slice,
       over <- eof,
       outcome <- IF status \in Hazards THEN "failed" ELSE status

ImplementsChunkStream == S!SSpec

(* "An escaped double quote is represented by two consecutive double       *)
(* quotes" (docs/snslice-first-slice-contract.md:71): so the chunks of a   *)
(* CSV stream are whole records.                                           *)
QuotesEscapeInPairs ==
  \A n \in DOMAIN Published :
    cfg.format = "csv" /\ ~(eof /\ n = chunk_index - 1) => WholeRecords("csv", Published[n])
=============================================================================
