------------------------------- MODULE Sysdiff -------------------------------
(***************************************************************************)
(* sysdiff compare BEFORE AFTER (src/src/sysdiff.c): reads two snapshots   *)
(* of key=value lines within limits, sorts each by key, refuses duplicate  *)
(* keys, and prints what a merge of the two finds different.               *)
(*                                                                         *)
(* A line is what read_line() and parse_snapshot() tell apart: its length, *)
(* its ending, the place of a NUL, and what it says.  Keys are numbers in  *)
(* the order of strcmp(); values are sequences of the characters that      *)
(* put_escaped_value() treats differently.                                 *)
(***************************************************************************)
EXTENDS Integers, Sequences, SequencesExt

CONSTANTS
  Keys,        \* valid keys
  Lines,       \* the lines that snapshots are made of
  Faults,      \* what may fail
  MaxLine,     \* SYSDIFF_MAX_LINE_BYTES
  MaxEntries,  \* SYSDIFF_MAX_SNAPSHOT_ENTRIES
  MaxBytes,    \* SYSDIFF_MAX_SNAPSHOT_BYTES
  MaxLines     \* bound: the number of lines of each of the two files

(* "raw" is a byte that is not printable, "hex" its two digits, "3E" those *)
(* of ">".                                                                 *)
Chars == {"sp", "hy", "gt", "bs", "x", "raw", "hex", "3E"}
Values == Seq(Chars)
FaultNames == {"open", "read", "alloc", "close", "write"}
Kinds == {"skip", "nosep", "nokey", "badkey", "entry"}
Endings == {"lf", "crlf", "none"}

(* len: the bytes before the line ending; nul: the place of a NUL, or 0.   *)
Line == [kind : Kinds, len : Nat, nul : Nat, ending : Endings, key : Keys, value : Values]

ASSUME SysdiffAssumption ==
  /\ Keys \subseteq Int
  /\ Lines \subseteq Line
  /\ \A l \in Lines : l.nul <= l.len /\ (l.ending = "none" => l.len > 0)
  /\ Faults \subseteq FaultNames
  /\ MaxLine \in Nat /\ MaxEntries \in Nat /\ MaxBytes \in Nat
  /\ MaxLines \in [{1, 2} -> Nat]

VARIABLES
  phase,       \* "open", "read", "diff" or "done"
  which,       \* the file being read: 1 before, 2 after
  items,       \* the two struct Snapshots
  total,       \* total_bytes of the file being read
  before_i, after_i, changed,
  out,         \* the records printed on stdout
  status,      \* the exit status, 0 until the end
  error,       \* what the diagnostic says, or "none"
  files        \* history: the lines of the two files that were read

merge == <<before_i, after_i, changed, out>>
vars == <<phase, which, items, total, merge, status, error, files>>

Init ==
  /\ phase = "open" /\ which = 1 /\ total = 0
  /\ items = <<<<>>, <<>>>> /\ files = <<<<>>, <<>>>>
  /\ before_i = 1 /\ after_i = 1 /\ changed = FALSE /\ out = <<>>
  /\ status = 0 /\ error = "none"

Fails(call) == call \in Faults

(* parse_snapshot() fails: both snapshots are freed, nothing is printed.   *)
Reject(why) ==
  /\ phase' = "done" /\ status' = 2 /\ error' = why
  /\ items' = <<<<>>, <<>>>>
  /\ UNCHANGED <<which, total, merge>>

-----------------------------------------------------------------------------
(* Reading a snapshot. *)

OpenFile ==
  /\ phase = "open"
  /\ \/ phase' = "read" /\ total' = 0 /\ UNCHANGED <<which, items, merge, status, error>>
     \/ Fails("open") /\ Reject("open")
  /\ UNCHANGED files

(* The bytes before the line feed, and all the bytes of a line. *)
Raw(l) == l.len + (IF l.ending = "crlf" THEN 1 ELSE 0)
Size(l) == Raw(l) + (IF l.ending = "none" THEN 0 ELSE 1)

(* The byte of the line at which read_line() gives up; one more than the   *)
(* limit is let through for the CR that may follow.                        *)
Stops_Mutant(l) ==
  (IF total + Size(l) > MaxBytes THEN {[at |-> MaxBytes - total + 1, why |-> "bytes"]} ELSE {})
  \cup (IF l.nul > 0 THEN {[at |-> l.nul, why |-> "nul"]} ELSE {})
  \cup (IF Raw(l) > MaxLine THEN {[at |-> MaxLine + 1, why |-> "long"]} ELSE {})
Stops(l) ==
  (IF total + Size(l) > MaxBytes THEN {[at |-> MaxBytes - total + 1, why |-> "bytes"]} ELSE {})
  \cup (IF l.nul > 0 THEN {[at |-> l.nul, why |-> "nul"]} ELSE {})
  \cup (IF Raw(l) > MaxLine + 1 THEN {[at |-> MaxLine + 2, why |-> "long"]} ELSE {})

(* Of two at one byte the order of the tests decides. *)
Rank == [bytes |-> 1, nul |-> 2, long |-> 3]
First(stops) ==
  CHOOSE s \in stops :
    \A t \in stops : s.at < t.at \/ (s.at = t.at /\ Rank[s.why] <= Rank[t.why])

(* A file without a last line feed has no more lines. *)
AtEnd == files[which] # <<>> /\ Last(files[which]).ending = "none"

(* snapshot_append() *)
Full_Mutant(s) == Len(s) > MaxEntries
Full(s) == Len(s) >= MaxEntries

ReadLine(l) ==
  /\ phase = "read" /\ Len(files[which]) < MaxLines[which] /\ ~AtEnd
  /\ files' = [files EXCEPT ![which] = Append(@, l)]
  /\ LET wrong == CASE Stops(l) # {} -> First(Stops(l)).why
                    [] Stops(l) = {} /\ l.len > MaxLine -> "long"
                    [] Stops(l) = {} /\ l.len <= MaxLine /\ l.kind \notin {"skip", "entry"} ->
                         l.kind
                    [] OTHER -> "none"
     IN  \/ wrong # "none" /\ Reject(wrong)
         \/ /\ wrong = "none" /\ l.kind = "entry" /\ Full(items[which])
            /\ Reject("entries")
         \/ /\ wrong = "none" /\ (l.kind = "entry" => ~Full(items[which]))
            /\ items' = IF l.kind = "entry"
                        THEN [items EXCEPT ![which] =
                                Append(@, [key |-> l.key, value |-> l.value])]
                        ELSE items
            /\ total' = total + Size(l)
            /\ UNCHANGED <<phase, which, merge, status, error>>
         \/ Fails("alloc") /\ Reject("alloc")

ReadError ==
  /\ phase = "read" /\ Fails("read")
  /\ Reject("read")
  /\ UNCHANGED files

(* qsort() *)
Sorted(s) == \A i, j \in DOMAIN s : i < j => s[i].key <= s[j].key
Orders(n) == Bijection(1 .. n, 1 .. n)

(* validate_no_duplicates() looks at neighbours. *)
HasDuplicate(s) == \E i \in 2 .. Len(s) : s[i - 1].key = s[i].key

(* The end of a file: it is closed, sorted and checked; the first makes    *)
(* way for the second, the second for the merge.                           *)
EndOfFile ==
  /\ phase = "read"
  /\ \/ \E p \in Orders(Len(items[which])) :
          LET sorted == [i \in DOMAIN items[which] |-> items[which][p[i]]]
          IN  /\ Sorted(sorted)
              /\ IF HasDuplicate(sorted)
                 THEN Reject("duplicate")
                 ELSE /\ items' = [items EXCEPT ![which] = sorted]
                      /\ IF which = 1 THEN which' = 2 /\ phase' = "open"
                                      ELSE which' = 2 /\ phase' = "diff"
                      /\ UNCHANGED <<total, merge, status, error>>
     \/ Fails("close") /\ Reject("close")
  /\ UNCHANGED files

-----------------------------------------------------------------------------
(* emit_diff() *)

Before == items[1][before_i]
After == items[2][after_i]

(* Which side goes on: the one with the smaller key, both if it is the     *)
(* same, the other one when one is at its end.                             *)
TakesBefore_Mutant ==
  before_i <= Len(items[1]) /\ (after_i <= Len(items[2]) => Before.key < After.key)
TakesBefore ==
  before_i <= Len(items[1]) /\ (after_i <= Len(items[2]) => Before.key <= After.key)
TakesAfter ==
  after_i <= Len(items[2]) /\ (before_i <= Len(items[1]) => After.key <= Before.key)

Removed(e) == [mark |-> "-", key |-> e.key, old |-> e.value, new |-> <<>>]
Added(e) == [mark |-> "+", key |-> e.key, old |-> <<>>, new |-> e.value]
Changed(e, f) == [mark |-> "~", key |-> e.key, old |-> e.value, new |-> f.value]

WriteError ==
  /\ phase' = "done" /\ status' = 2 /\ error' = "write"
  /\ UNCHANGED <<before_i, after_i, changed, out>>

Emit(r) == out' = Append(out, r) /\ changed' = TRUE /\ UNCHANGED <<phase, status, error>>

Advance ==
  /\ before_i' = IF TakesBefore THEN before_i + 1 ELSE before_i
  /\ after_i' = IF TakesAfter THEN after_i + 1 ELSE after_i

MergeStep ==
  /\ phase = "diff"
  /\ \/ TakesBefore /\ TakesAfter /\ Before.value = After.value
        /\ Advance /\ UNCHANGED <<phase, changed, out, status, error>>
     \/ TakesBefore /\ TakesAfter /\ Before.value # After.value
        /\ Advance /\ Emit(Changed(Before, After))
     \/ TakesBefore /\ ~TakesAfter /\ Advance /\ Emit(Removed(Before))
     \/ ~TakesBefore /\ TakesAfter /\ Advance /\ Emit(Added(After))
     \/ /\ TakesBefore \/ TakesAfter
        /\ ~(TakesBefore /\ TakesAfter /\ Before.value = After.value)
        /\ Fails("write") /\ WriteError
  /\ UNCHANGED <<which, items, total, files>>

(* "no changes" if nothing was printed; complete_stdout() flushes. *)
Finish ==
  /\ phase = "diff" /\ ~TakesBefore /\ ~TakesAfter
  /\ \/ /\ phase' = "done" /\ status' = (IF changed THEN 1 ELSE 0)
        /\ UNCHANGED <<merge, error>>
     \/ Fails("write") /\ WriteError
  /\ UNCHANGED <<which, items, total, files>>

Terminated == phase = "done" /\ UNCHANGED vars

Next ==
  \/ OpenFile \/ ReadError \/ EndOfFile \/ MergeStep \/ Finish \/ Terminated
  \/ \E l \in Lines : ReadLine(l)

Spec == Init /\ [][Next]_vars

-----------------------------------------------------------------------------
(* The text of a record. *)

(* put_escaped_value(): what is printed for the i-th character. *)
Code_Mutant(v, i) ==
  CASE v[i] = "bs"  -> <<"bs", "bs">>
    [] v[i] = "raw" -> <<"bs", "x", "hex">>
    [] OTHER -> <<v[i]>>
Code(v, i) ==
  CASE v[i] = "bs"  -> <<"bs", "bs">>
    [] v[i] = "raw" -> <<"bs", "x", "hex">>
    [] v[i] = "gt" /\ i > 2 /\ v[i - 2] = "sp" /\ v[i - 1] = "hy" -> <<"bs", "x", "3E">>
    [] OTHER -> <<v[i]>>

Escaped(v) == FlattenSeq([i \in DOMAIN v |-> Code(v, i)])

Arrow == <<"sp", "hy", "gt", "sp">>

(* What follows the mark and the key; a key holds neither a blank nor a    *)
(* separator, so where it ends is clear.                                   *)
Text(r) ==
  [mark |-> r.mark, key |-> r.key,
   rest |-> CASE r.mark = "+" -> <<"=">> \o Escaped(r.new)
              [] r.mark = "-" -> <<"=">> \o Escaped(r.old)
              [] r.mark = "~" -> <<":", "sp">> \o Escaped(r.old) \o Arrow \o Escaped(r.new)]

-----------------------------------------------------------------------------
(* Properties. *)

Entry == [key : Keys, value : Values]
Record == [mark : {"+", "-", "~"}, key : Keys, old : Values, new : Values]

TypeOK ==
  /\ phase \in {"open", "read", "diff", "done"}
  /\ which \in {1, 2}
  /\ items \in Seq(Seq(Entry)) /\ Len(items) = 2
  /\ \A w \in {1, 2} : Len(items[w]) <= MaxEntries
  /\ total \in 0 .. MaxBytes
  /\ before_i \in 1 .. MaxEntries + 1 /\ after_i \in 1 .. MaxEntries + 1
  /\ changed \in BOOLEAN
  /\ out \in Seq(Record)
  /\ status \in {0, 1, 2}
  /\ files \in Seq(Seq(Lines)) /\ Len(files) = 2

(* The entries of a file, as its lines state them. *)
EntriesOf(w) ==
  {[key |-> files[w][i].key, value |-> files[w][i].value] :
     i \in {j \in DOMAIN files[w] : files[w][j].kind = "entry"}}

(* What is different between the files: no order, no positions.            *)
Difference ==
  LET B == EntriesOf(1)
      A == EntriesOf(2)
  IN  {Removed(e) : e \in {b \in B : \A a \in A : a.key # b.key}}
      \cup {Added(e) : e \in {a \in A : \A b \in B : b.key # a.key}}
      \cup {Changed(p[1], p[2]) :
              p \in {q \in B \X A : q[1].key = q[2].key /\ q[1].value # q[2].value}}

(* docs/sysdiff.md, "Use": status 0 and 1 mean that the comparison         *)
(* succeeded, and then the output is the whole difference, each key once   *)
(* and in order; whatever fails, nothing else is ever printed.             *)
DiffIsExact ==
  /\ Range(out) \subseteq Difference
  /\ \A i, j \in DOMAIN out : i < j => out[i].key < out[j].key
  /\ phase = "done" /\ status # 2 =>
       Range(out) = Difference /\ (status = 1 <=> Difference # {})

(* Each byte of a file, by its line and its place on it. *)
Bytes(F) == UNION {{i} \X (1 .. Size(F[i])) : i \in DOMAIN F}

(* What is wrong with a file as far as it was read, if anything is.        *)
Wrong(why, F) ==
  LET entries == {i \in DOMAIN F : F[i].kind = "entry"}
  IN  CASE why = "bytes" -> Cardinality(Bytes(F)) > MaxBytes
        [] why = "nul" -> \E i \in DOMAIN F : F[i].nul > 0
        [] why = "long" -> \E i \in DOMAIN F : F[i].len > MaxLine
        [] why = "entries" -> Cardinality(entries) > MaxEntries
        [] why = "duplicate" -> \E i, j \in entries : i # j /\ F[i].key = F[j].key
        [] OTHER -> \E i \in DOMAIN F : F[i].kind = why
Reasons == {"bytes", "nul", "long", "entries", "duplicate", "nosep", "nokey", "badkey"}
Illegal(w) == {why \in Reasons : Wrong(why, files[w])}

(* A snapshot is compared exactly if it is legal: the diagnostic names     *)
(* something that is wrong with it, at the boundary of every limit, and a  *)
(* snapshot with something wrong never gets as far as the comparison.      *)
LegalSnapshotsOnly ==
  /\ phase = "diff" \/ (phase = "done" /\ status # 2) => Illegal(1) = {} /\ Illegal(2) = {}
  /\ error \in Reasons => error \in Illegal(which)
  /\ which = 2 => Illegal(1) = {}

(* The records that these lines can give rise to. *)
Candidates ==
  LET E == {[key |-> l.key, value |-> l.value] : l \in {m \in Lines : m.kind = "entry"}}
  IN  {Removed(e) : e \in E} \cup {Added(e) : e \in E}
      \cup {Changed(p[1], p[2]) : p \in {q \in E \X E : q[1].key = q[2].key}}

(* put_escaped_value(): a printed line stands for one record and no other. *)
LinesReadBack ==
  phase = "done" =>
    \A i \in DOMAIN out :
      \A r \in Candidates : Text(r) = Text(out[i]) => r = out[i]
=============================================================================
