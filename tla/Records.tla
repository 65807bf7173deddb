------------------------------- MODULE Records -------------------------------
(***************************************************************************)
(* What a record is, by the grammar and with no automaton: a line for      *)
(* NDJSON, a line of RFC 4180 fields for CSV, where a quoted field may     *)
(* hold commas, line ends and doubled quotes.  Streams are sequences of    *)
(* the byte classes of Snslice.                                            *)
(***************************************************************************)
EXTENDS Naturals, Sequences, FiniteSets

Upto(s, k) == SubSeq(s, 1, k)
From(s, k) == SubSeq(s, k, Len(s))

(* The quotes of s come in pairs of neighbours. *)
Doubled(s) ==
  LET Q == {i \in DOMAIN s : s[i] = "quote"}
  IN  \E first \in SUBSET Q :
        LET second == {i + 1 : i \in first}
        IN  first \cap second = {} /\ Q = first \cup second

Plain(g) ==
  /\ \A i \in DOMAIN g : g[i] \notin {"comma", "lf"}
  /\ g # <<>> => g[1] # "quote"

(* A closed pair of quotes, and carriage returns after it. *)
Quoted(g) ==
  /\ g # <<>> /\ g[1] = "quote"
  /\ \E k \in 2 .. Len(g) :
       /\ g[k] = "quote" /\ Doubled(SubSeq(g, 2, k - 1))
       /\ \A i \in k + 1 .. Len(g) : g[i] = "cr"

(* Carriage returns before a field do not count. *)
IsField(f) ==
  \E k \in 0 .. Len(f) :
    /\ \A i \in 1 .. k : f[i] = "cr"
    /\ k < Len(f) => f[k + 1] # "cr"
    /\ Plain(From(f, k + 1)) \/ Quoted(From(f, k + 1))

(* Neighbours among the places of a set. *)
Adjacent(places, i, j) == i < j /\ places \cap (i + 1 .. j - 1) = {}

(* Fields with commas between them; other commas belong to a field.        *)
AreFields(b) ==
  \E commas \in SUBSET {i \in DOMAIN b : b[i] = "comma"} :
    LET places == commas \cup {0, Len(b) + 1}
    IN  \A i, j \in places : Adjacent(places, i, j) => IsField(SubSeq(b, i + 1, j - 1))

IsRecord(format, r) ==
  /\ r # <<>> /\ r[Len(r)] = "lf"
  /\ IF format = "csv"
     THEN AreFields(Upto(r, Len(r) - 1))
     ELSE \A i \in 1 .. Len(r) - 1 : r[i] # "lf"

(* Records end to end; other line feeds belong to a record.                *)
WholeRecords(format, s) ==
  \E ends \in SUBSET {i \in DOMAIN s : s[i] = "lf"} :
    LET places == ends \cup {0}
    IN  /\ Len(s) \in ends
        /\ \A i, j \in places : Adjacent(places, i, j) => IsRecord(format, SubSeq(s, i + 1, j))

(* The places where a record of s ends and a whole number of them precede. *)
Cuts(format, s) == {k \in 1 .. Len(s) : WholeRecords(format, Upto(s, k))}

(* A quote that carriage returns separate from the next quote. *)
SpacedQuotes(s) ==
  \E i, j \in DOMAIN s :
    /\ i + 1 < j /\ s[i] = "quote" /\ s[j] = "quote"
    /\ \A k \in i + 1 .. j - 1 : s[k] = "cr"
=============================================================================
