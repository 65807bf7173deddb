---------------------------- MODULE SysdiffProofs ----------------------------
(***************************************************************************)
(* Proofs about Sysdiff, for all snapshots, limits and faults.             *)
(***************************************************************************)
EXTENDS Sysdiff, FiniteSetTheorems, SequenceTheorems, WellFoundedInduction, TLAPS

Strict(s) == \A i, j \in DOMAIN s : i < j => s[i].key < s[j].key

(* Before the merge, nothing is printed and nothing is passed over. *)
Early ==
  phase \in {"open", "read"} =>
    before_i = 1 /\ after_i = 1 /\ ~changed /\ out = <<>> /\ status = 0

(* A snapshot holds the entries of its file, in order once it is closed. *)
Content ==
  phase # "done" =>
    /\ \A w \in {1, 2} : Range(items[w]) = EntriesOf(w)
    /\ which = 2 => Strict(items[1])
    /\ phase = "diff" => which = 2 /\ Strict(items[2])

(* Difference, of two sets of entries. *)
DiffOf(B, A) ==
  {Removed(e) : e \in {b \in B : \A a \in A : a.key # b.key}}
  \cup {Added(e) : e \in {a \in A : \A b \in B : b.key # a.key}}
  \cup {Changed(p[1], p[2]) :
          p \in {q \in B \X A : q[1].key = q[2].key /\ q[1].value # q[2].value}}

(* A merge of B and A has come to i and j. *)
Apart(B, A, i, j) ==
  /\ \A m \in DOMAIN B, n \in DOMAIN A : m < i /\ n >= j => B[m].key < A[n].key
  /\ \A m \in DOMAIN B, n \in DOMAIN A : m >= i /\ n < j => A[n].key < B[m].key

(* The key k belongs to an entry that is still to come. *)
Ahead(B, A, i, j, k) ==
  \/ \E m \in DOMAIN B : m >= i /\ B[m].key = k
  \/ \E n \in DOMAIN A : n >= j /\ A[n].key = k

(* What is printed is the difference below the keys that are to come. *)
Printed(B, A, i, j, o) ==
  /\ \A x \in DOMAIN o :
       /\ o[x] \in DiffOf(Range(B), Range(A))
       /\ \A m \in DOMAIN B : m >= i => o[x].key < B[m].key
       /\ \A n \in DOMAIN A : n >= j => o[x].key < A[n].key
  /\ \A d \in DiffOf(Range(B), Range(A)) :
       d \in Range(o) \/ Ahead(B, A, i, j, d.key)
  /\ Strict(o)

Merging ==
  phase = "diff" =>
    /\ before_i <= Len(items[1]) + 1 /\ after_i <= Len(items[2]) + 1
    /\ Apart(items[1], items[2], before_i, after_i)
    /\ Printed(items[1], items[2], before_i, after_i, out)
    /\ changed <=> out # <<>>

IInv == TypeOK /\ Early /\ Content /\ Merging /\ DiffIsExact

-----------------------------------------------------------------------------
(* Sequences and pairs. *)

LEMMA AppendRange ==
  ASSUME NEW T, NEW s \in Seq(T), NEW x \in T
  PROVE  /\ Append(s, x) \in Seq(T) /\ Len(Append(s, x)) = Len(s) + 1
         /\ DOMAIN Append(s, x) = DOMAIN s \cup {Len(s) + 1}
         /\ Append(s, x)[Len(s) + 1] = x
         /\ \A i \in DOMAIN s : Append(s, x)[i] = s[i] /\ i <= Len(s)
         /\ Range(Append(s, x)) = Range(s) \cup {x}
<1> DEFINE t == Append(s, x)
<1>1. t \in Seq(T) /\ Len(t) = Len(s) + 1 /\ t[Len(s) + 1] = x
  OBVIOUS
<1>2. \A i \in DOMAIN s : t[i] = s[i] /\ i <= Len(s)
  OBVIOUS
<1>3. DOMAIN t = DOMAIN s \cup {Len(s) + 1}
  OBVIOUS
<1> HIDE DEF t
<1>4. Range(t) = Range(s) \cup {x}
  BY <1>1, <1>2, <1>3, ZenonT(60) DEF Range
<1> QED
  BY <1>1, <1>2, <1>3, <1>4 DEF t

LEMMA FunctionIsSeq ==
  ASSUME NEW T, NEW n \in Nat, NEW t \in [1 .. n -> T]
  PROVE  t \in Seq(T) /\ Len(t) = n
OBVIOUS

LEMMA PairUpdate ==
  ASSUME NEW T, NEW s \in Seq(T), Len(s) = 2, NEW w \in {1, 2}, NEW x \in T
  PROVE  /\ [s EXCEPT ![w] = x] \in Seq(T) /\ Len([s EXCEPT ![w] = x]) = 2
         /\ \A v \in {1, 2} : [s EXCEPT ![w] = x][v] = IF v = w THEN x ELSE s[v]
<1> DEFINE t == [s EXCEPT ![w] = x]
<1>1. s \in [1 .. 2 -> T]
  OBVIOUS
<1>2. t \in [1 .. 2 -> T] /\ \A v \in 1 .. 2 : t[v] = IF v = w THEN x ELSE s[v]
  BY <1>1
<1> HIDE DEF t
<1>3. t \in Seq(T) /\ Len(t) = 2
  BY <1>2, FunctionIsSeq
<1>4. \A v \in {1, 2} : t[v] = IF v = w THEN x ELSE s[v]
  BY <1>2
<1> QED
  BY <1>3, <1>4 DEF t

LEMMA PairItem ==
  ASSUME NEW T, NEW s \in Seq(T), Len(s) = 2, NEW w \in {1, 2}
  PROVE  s[w] \in T
OBVIOUS

LEMMA ItemKey ==
  ASSUME NEW s \in Seq(Entry), NEW i \in DOMAIN s
  PROVE  /\ s[i] \in Entry /\ s[i].key \in Keys /\ s[i].key \in Int /\ s[i].value \in Values
<1>1. s[i] \in Entry
  OBVIOUS
<1>2. s[i].key \in Keys /\ s[i].value \in Values
  BY <1>1 DEF Entry
<1> QED
  BY <1>1, <1>2, SysdiffAssumption

(* Once sorted, with no two neighbours alike, the keys increase. *)
LEMMA SortedIsStrict ==
  ASSUME NEW s \in Seq(Entry), Sorted(s), ~HasDuplicate(s)
  PROVE  Strict(s)
<1> SUFFICES ASSUME NEW i \in DOMAIN s, NEW j \in DOMAIN s, i < j
             PROVE  s[i].key < s[j].key
  BY DEF Strict
<1>1. j \in 2 .. Len(s) /\ j - 1 \in DOMAIN s /\ i <= j - 1
  OBVIOUS
<1>2. s[j - 1].key # s[j].key
  BY <1>1 DEF HasDuplicate
<1>3. s[j - 1].key <= s[j].key /\ s[i].key <= s[j - 1].key
  <2>1. \A m \in DOMAIN s : s[m].key \in Int
    BY ItemKey
  <2>2. CASE i = j - 1
    BY <1>1, <2>1, <2>2 DEF Sorted
  <2>3. CASE i < j - 1
    BY <1>1, <2>1, <2>3 DEF Sorted
  <2> QED
    BY <1>1, <2>2, <2>3
<1>4. s[i].key \in Int /\ s[j].key \in Int /\ s[j - 1].key \in Int
  BY <1>1, ItemKey
<1> QED
  BY <1>2, <1>3, <1>4

(* qsort() keeps the entries. *)
LEMMA SortKeeps ==
  ASSUME NEW s \in Seq(Entry), NEW p \in Orders(Len(s))
  PROVE  LET t == [i \in DOMAIN s |-> s[p[i]]]
         IN  t \in Seq(Entry) /\ Len(t) = Len(s) /\ Range(t) = Range(s)
<1> DEFINE t == [i \in DOMAIN s |-> s[p[i]]]
<1>1. /\ p \in [1 .. Len(s) -> 1 .. Len(s)]
      /\ \A n \in 1 .. Len(s) : \E m \in 1 .. Len(s) : p[m] = n
  BY DEF Orders, Bijection, Injection, Surjection
<1>2. DOMAIN s = 1 .. Len(s) /\ Len(s) \in Nat
  OBVIOUS
<1>3. t \in [1 .. Len(s) -> Entry]
  BY <1>1, <1>2
<1>4. t \in Seq(Entry) /\ Len(t) = Len(s)
  BY <1>2, <1>3
<1>5. Range(t) = Range(s)
  <2>1. DOMAIN t = DOMAIN s
    OBVIOUS
  <2>2. \A i \in DOMAIN s : t[i] = s[p[i]] /\ p[i] \in DOMAIN s
    BY <1>1, <1>2
  <2>3. \A n \in DOMAIN s : \E m \in DOMAIN s : p[m] = n
    BY <1>1, <1>2
  <2> HIDE DEF t
  <2>4. \A y \in Range(t) : y \in Range(s)
    BY <2>1, <2>2 DEF Range
  <2>5. \A y \in Range(s) : y \in Range(t)
    <3> SUFFICES ASSUME NEW n \in DOMAIN s PROVE s[n] \in Range(t)
      BY DEF Range
    <3>1. PICK m \in DOMAIN s : p[m] = n
      BY <2>3
    <3>2. t[m] = s[n] /\ m \in DOMAIN t
      BY <2>1, <2>2, <3>1
    <3> QED
      BY <3>2, Zenon DEF Range
  <2> QED
    BY <2>4, <2>5
<1> QED
  BY <1>4, <1>5

-----------------------------------------------------------------------------
(* What a state promises, in pieces that the steps below cite. *)

LEMMA Pieces ==
  ASSUME TypeOK
  PROVE  \A w \in {1, 2} :
           /\ items[w] \in Seq(Entry) /\ Len(items[w]) \in Nat /\ Len(items[w]) <= MaxEntries
           /\ files[w] \in Seq(Lines)
<1>1. \A w \in {1, 2} : items[w] \in Seq(Entry)
  BY PairItem DEF TypeOK
<1>2. \A w \in {1, 2} : files[w] \in Seq(Lines)
  BY PairItem DEF TypeOK
<1>3. \A w \in {1, 2} : Len(items[w]) \in Nat
  BY <1>1
<1> QED
  BY <1>1, <1>2, <1>3 DEF TypeOK

LEMMA DifferenceIs == Difference = DiffOf(EntriesOf(1), EntriesOf(2))
BY DEF Difference, DiffOf

LEMMA InitOK == Init => IInv
<1> SUFFICES ASSUME Init PROVE IInv
  OBVIOUS
<1> USE SysdiffAssumption
<1>1. TypeOK
  <2>1. items \in Seq(Seq(Entry)) /\ Len(items) = 2 /\ items[1] = <<>> /\ items[2] = <<>>
    BY DEF Init
  <2>2. files \in Seq(Seq(Lines)) /\ Len(files) = 2
    BY DEF Init
  <2>3. \A w \in {1, 2} : Len(items[w]) <= MaxEntries
    <3>1. Len(<<>>) = 0
      OBVIOUS
    <3> QED
      BY <2>1, <3>1
  <2>4. out \in Seq(Record)
    BY DEF Init
  <2>5. /\ phase = "open" /\ which = 1 /\ total \in 0 .. MaxBytes /\ status = 0
        /\ before_i \in 1 .. MaxEntries + 1 /\ after_i \in 1 .. MaxEntries + 1
    BY DEF Init
  <2>6. changed \in BOOLEAN
    BY DEF Init
  <2> QED
    BY <2>1, <2>2, <2>3, <2>4, <2>5, <2>6 DEF TypeOK
<1>2. Early /\ Merging
  BY DEF Init, Early, Merging
<1>3. Content
  <2>1. \A w \in {1, 2} : items[w] = <<>> /\ files[w] = <<>>
    BY DEF Init
  <2>2. \A w \in {1, 2} : Range(items[w]) = {} /\ EntriesOf(w) = {}
    BY <2>1 DEF Range, EntriesOf
  <2>3. phase = "open" /\ which = 1
    BY DEF Init
  <2> QED
    BY <2>2, <2>3 DEF Content
<1>4. DiffIsExact
  BY DEF Init, DiffIsExact, Range
<1> QED
  BY <1>1, <1>2, <1>3, <1>4 DEF IInv

(* Freed snapshots, and nothing on stdout. *)
LEMMA RejectOK ==
  ASSUME IInv, phase \in {"open", "read"}, NEW why, Reject(why),
         files' \in Seq(Seq(Lines)), Len(files') = 2
  PROVE  IInv'
<1>1. out' = <<>> /\ status' = 2 /\ phase' = "done"
  BY DEF IInv, Early, Reject, merge
<1>2. TypeOK'
  <2>1. items' \in Seq(Seq(Entry)) /\ Len(items') = 2
        /\ items'[1] = <<>> /\ items'[2] = <<>> /\ Len(<<>>) = 0
    BY DEF Reject
  <2>2. MaxEntries \in Nat
    BY SysdiffAssumption
  <2> QED
    BY <1>1, <2>1, <2>2 DEF IInv, TypeOK, Reject, merge
<1>3. Early' /\ Content' /\ Merging'
  BY <1>1 DEF Early, Content, Merging
<1>4. DiffIsExact'
  BY <1>1 DEF DiffIsExact, Range
<1> QED
  BY <1>2, <1>3, <1>4 DEF IInv

LEMMA OpenFileOK == IInv /\ OpenFile => IInv'
<1> SUFFICES ASSUME IInv, OpenFile PROVE IInv'
  OBVIOUS
<1>1. files' = files /\ phase = "open" /\ files \in Seq(Seq(Lines)) /\ Len(files) = 2
  BY DEF OpenFile, IInv, TypeOK
<1>2. CASE phase' = "read" /\ total' = 0 /\ UNCHANGED <<which, items, merge, status, error>>
  <2>1. TypeOK'
    BY <1>1, <1>2, SysdiffAssumption DEF IInv, TypeOK, merge
  <2>2. Early'
    BY <1>1, <1>2 DEF IInv, Early, merge
  <2>3. Content'
    BY <1>1, <1>2 DEF IInv, Content, EntriesOf
  <2>4. Merging'
    BY <1>2 DEF Merging
  <2>5. DiffIsExact'
    <3>1. out' = <<>> /\ phase' # "done"
      BY <1>1, <1>2 DEF IInv, Early, merge
    <3> QED
      BY <3>1 DEF DiffIsExact, Range
  <2> QED
    BY <2>1, <2>2, <2>3, <2>4, <2>5 DEF IInv
<1>3. CASE Reject("open")
  BY <1>1, <1>3, RejectOK
<1> QED
  BY <1>2, <1>3 DEF OpenFile

-----------------------------------------------------------------------------
(* Lines. *)

LEMMA SizeIsNat ==
  ASSUME NEW l \in Lines
  PROVE  /\ Size(l) \in Nat /\ Raw(l) \in Nat /\ l.len \in Nat /\ l.nul \in Nat
         /\ l.kind \in Kinds /\ l.key \in Keys /\ l.value \in Values
<1>1. l \in Line
  BY SysdiffAssumption
<1>2. l.len \in Nat /\ l.nul \in Nat /\ l.kind \in Kinds /\ l.key \in Keys /\ l.value \in Values
  BY <1>1 DEF Line
<1> QED
  BY <1>2 DEF Size, Raw

(* Of the places at which read_line() may give up, one comes first. *)
LEMMA FirstIsOne ==
  ASSUME TypeOK, NEW l \in Lines, Stops(l) # {}
  PROVE  First(Stops(l)) \in Stops(l)
<1> DEFINE a == [at |-> MaxBytes - total + 1, why |-> "bytes"]
           b == [at |-> l.nul, why |-> "nul"]
           c == [at |-> MaxLine + 2, why |-> "long"]
           le == {p \in {a, b, c} \X {a, b, c} :
                    p[1].at < p[2].at \/ (p[1].at = p[2].at /\ Rank[p[1].why] <= Rank[p[2].why])}
           S == Stops(l)
<1>1. S \in SUBSET {a, b, c}
  BY DEF Stops
<1>2. \A x \in {a, b, c} : x.at \in Int /\ Rank[x.why] \in Int
  <2>1. total \in Int /\ MaxBytes \in Int /\ MaxLine \in Int /\ l.nul \in Int
    BY SysdiffAssumption, SizeIsNat DEF TypeOK
  <2> QED
    BY <2>1 DEF Rank
<1>3. \A x, y \in {a, b, c} :
        <<x, y>> \in le <=> x.at < y.at \/ (x.at = y.at /\ Rank[x.why] <= Rank[y.why])
  OBVIOUS
<1> HIDE DEF a, b, c, le
<1>4. \A x, y \in {a, b, c} : <<x, y>> \in le \/ <<y, x>> \in le
  BY <1>2, <1>3
<1>5. \A x, y, z \in {a, b, c} : <<x, y>> \in le /\ <<y, z>> \in le => <<x, z>> \in le
  BY <1>2, <1>3
<1>6. S # {}
  OBVIOUS
<1> HIDE DEF S
<1>7. \E x \in S : \A y \in S : <<x, y>> \in le
  <2>1. \A x \in S : x = a \/ x = b \/ x = c
    BY <1>1
  <2>2. CASE a \in S /\ b \in S /\ c \in S
    <3>1. PICK x \in {a, b} : <<x, a>> \in le /\ <<x, b>> \in le
      BY <1>4
    <3>2. PICK y \in {x, c} : <<y, x>> \in le /\ <<y, c>> \in le
      BY <1>4
    <3>3. <<y, a>> \in le /\ <<y, b>> \in le
      BY <1>5, <3>1, <3>2
    <3> QED
      BY <2>1, <2>2, <3>1, <3>2, <3>3
  <2>3. CASE a \notin S
    BY <1>4, <1>6, <2>1, <2>3
  <2>4. CASE b \notin S
    BY <1>4, <1>6, <2>1, <2>4
  <2>5. CASE c \notin S
    BY <1>4, <1>6, <2>1, <2>5
  <2> QED
    BY <2>2, <2>3, <2>4, <2>5
<1>8. \E x \in S :
        \A y \in S : x.at < y.at \/ (x.at = y.at /\ Rank[x.why] <= Rank[y.why])
  BY <1>1, <1>3, <1>7
<1>9. First(S) \in S
  BY <1>8 DEF First
<1> QED
  BY <1>9 DEF S

(* A line with nothing wrong keeps the file within its limit. *)
LEMMA NothingWrong ==
  ASSUME TypeOK, NEW l \in Lines,
         (CASE Stops(l) # {} -> First(Stops(l)).why
            [] Stops(l) = {} /\ l.len > MaxLine -> "long"
            [] Stops(l) = {} /\ l.len <= MaxLine /\ l.kind \notin {"skip", "entry"} -> l.kind
            [] OTHER -> "none") = "none"
  PROVE  Stops(l) = {} /\ total + Size(l) \in 0 .. MaxBytes
<1>1. Stops(l) = {}
  <2> SUFFICES ASSUME Stops(l) # {} PROVE FALSE
    OBVIOUS
  <2>1. First(Stops(l)) \in Stops(l)
    BY FirstIsOne
  <2>2. \A x \in Stops(l) : x.why # "none"
    BY DEF Stops
  <2>3. First(Stops(l)).why = "none"
    OBVIOUS
  <2> QED
    BY <2>1, <2>2, <2>3
<1>2. ~(total + Size(l) > MaxBytes)
  BY <1>1 DEF Stops
<1>3. total \in Nat /\ Size(l) \in Nat /\ MaxBytes \in Nat
  BY SysdiffAssumption, SizeIsNat DEF TypeOK
<1> QED
  BY <1>1, <1>2, <1>3

(* The entries that the lines of F state: EntriesOf, of a sequence. *)
StatedBy(F) ==
  {[key |-> F[i].key, value |-> F[i].value] : i \in {j \in DOMAIN F : F[j].kind = "entry"}}

LEMMA OneMoreLine ==
  ASSUME NEW F \in Seq(Lines), NEW l \in Lines
  PROVE  StatedBy(Append(F, l)) =
           IF l.kind = "entry" THEN StatedBy(F) \cup {[key |-> l.key, value |-> l.value]}
                               ELSE StatedBy(F)
<1> DEFINE G == Append(F, l)
<1>1. /\ DOMAIN G = DOMAIN F \cup {Len(F) + 1} /\ G[Len(F) + 1] = l
      /\ \A i \in DOMAIN F : G[i] = F[i]
  BY AppendRange
<1> HIDE DEF G
<1>2. CASE l.kind = "entry"
  <2>1. {j \in DOMAIN G : G[j].kind = "entry"}
        = {j \in DOMAIN F : F[j].kind = "entry"} \cup {Len(F) + 1}
    BY <1>1, <1>2
  <2> QED
    BY <1>1, <1>2, <2>1 DEF StatedBy, G
<1>3. CASE l.kind # "entry"
  <2>1. {j \in DOMAIN G : G[j].kind = "entry"} = {j \in DOMAIN F : F[j].kind = "entry"}
    BY <1>1, <1>3
  <2> QED
    BY <1>1, <1>3, <2>1 DEF StatedBy, G
<1> QED
  BY <1>2, <1>3

LEMMA ReadLineOK ==
  ASSUME IInv, NEW l \in Lines, ReadLine(l)
  PROVE  IInv'
<1>1. /\ phase = "read" /\ files' = [files EXCEPT ![which] = Append(@, l)]
      /\ which \in {1, 2}
  BY DEF ReadLine, IInv, TypeOK
<1>2. /\ Append(files[which], l) \in Seq(Lines) /\ files' \in Seq(Seq(Lines)) /\ Len(files') = 2
      /\ \A w \in {1, 2} : files'[w] = IF w = which THEN Append(files[which], l) ELSE files[w]
  <2>1. files[which] \in Seq(Lines)
    BY <1>1, Pieces DEF IInv
  <2>2. Append(files[which], l) \in Seq(Lines)
    BY <2>1
  <2>3. files \in Seq(Seq(Lines)) /\ Len(files) = 2
    BY DEF IInv, TypeOK
  <2> QED
    BY <1>1, <2>2, <2>3, PairUpdate
<1> DEFINE wrong == CASE Stops(l) # {} -> First(Stops(l)).why
                      [] Stops(l) = {} /\ l.len > MaxLine -> "long"
                      [] Stops(l) = {} /\ l.len <= MaxLine /\ l.kind \notin {"skip", "entry"} ->
                           l.kind
                      [] OTHER -> "none"
           new == [key |-> l.key, value |-> l.value]
           Keep == /\ wrong = "none" /\ (l.kind = "entry" => ~Full(items[which]))
                   /\ items' = IF l.kind = "entry"
                               THEN [items EXCEPT ![which] = Append(@, new)]
                               ELSE items
                   /\ total' = total + Size(l)
                   /\ UNCHANGED <<phase, which, merge, status, error>>
<1>3. (\E why : Reject(why)) \/ Keep
  BY DEF ReadLine
<1>4. CASE \E why : Reject(why)
  BY <1>1, <1>2, <1>4, RejectOK
<1>5. CASE Keep
  <2>1. total' \in 0 .. MaxBytes
    BY <1>5, NothingWrong DEF IInv
  <2>2. new \in Entry
    BY SizeIsNat DEF Entry
  <2>3. /\ items[which] \in Seq(Entry) /\ Len(items[which]) \in Nat
        /\ Append(items[which], new) \in Seq(Entry)
        /\ Len(Append(items[which], new)) = Len(items[which]) + 1
        /\ Range(Append(items[which], new)) = Range(items[which]) \cup {new}
    <3>1. items[which] \in Seq(Entry) /\ Len(items[which]) \in Nat
      BY <1>1, Pieces DEF IInv
    <3> HIDE DEF new
    <3> QED
      BY <2>2, <3>1, AppendRange
  <2>4. /\ items' \in Seq(Seq(Entry)) /\ Len(items') = 2
        /\ \A w \in {1, 2} :
             items'[w] = IF l.kind = "entry" /\ w = which THEN Append(items[w], new) ELSE items[w]
    <3>1. items \in Seq(Seq(Entry)) /\ Len(items) = 2
      BY DEF IInv, TypeOK
    <3> HIDE DEF new
    <3>2. CASE l.kind = "entry"
      BY <1>1, <1>5, <2>3, <3>1, <3>2, PairUpdate
    <3>3. CASE l.kind # "entry"
      BY <1>5, <3>1, <3>3
    <3> QED
      BY <3>2, <3>3
  <2> HIDE DEF new, wrong
  <2>5. TypeOK'
    <3>1. \A w \in {1, 2} : Len(items'[w]) <= MaxEntries
      <4>1. \A w \in {1, 2} : Len(items[w]) <= MaxEntries /\ Len(items[w]) \in Nat
        BY Pieces DEF IInv
      <4>2. l.kind = "entry" => Len(items[which]) + 1 <= MaxEntries
        BY <1>1, <1>5, <4>1, SysdiffAssumption DEF Full
      <4> QED
        BY <1>1, <2>3, <2>4, <4>1, <4>2
    <3>2. UNCHANGED <<phase, which, before_i, after_i, changed, out, status>>
      BY <1>5 DEF merge
    <3>3. TypeOK
      BY DEF IInv
    <3> QED
      BY <1>2, <2>1, <2>4, <3>1, <3>2, <3>3 DEF TypeOK
  <2>6. phase' = "read" /\ which' = which
    BY <1>1, <1>5
  <2>7. Early'
    BY <1>1, <1>5 DEF IInv, Early, merge
  <2>8. Content'
    <3>1. \A w \in {1, 2} : EntriesOf(w)' = StatedBy(files'[w])
      BY DEF EntriesOf, StatedBy
    <3>2. \A w \in {1, 2} : EntriesOf(w) = StatedBy(files[w]) /\ Range(items[w]) = EntriesOf(w)
      BY <1>1 DEF EntriesOf, StatedBy, IInv, Content
    <3>3. files[which] \in Seq(Lines)
      BY <1>1, Pieces DEF IInv
    <3>4. StatedBy(Append(files[which], l))
          = IF l.kind = "entry" THEN StatedBy(files[which]) \cup {new} ELSE StatedBy(files[which])
      BY <3>3, OneMoreLine DEF new
    <3>5. ASSUME NEW w \in {1, 2} PROVE Range(items'[w]) = EntriesOf(w)'
      BY <1>1, <1>2, <2>3, <2>4, <3>1, <3>2, <3>4
    <3>6. which' = 2 => Strict(items'[1])
      <4> SUFFICES ASSUME which = 2 PROVE Strict(items'[1])
        BY <2>6
      <4>1. items'[1] = items[1]
        BY <2>4
      <4>2. Strict(items[1])
        BY <1>1 DEF IInv, Content
      <4> QED
        BY <4>1, <4>2
    <3> QED
      BY <2>6, <3>5, <3>6 DEF Content
  <2>9. Merging'
    BY <2>6 DEF Merging
  <2>10. DiffIsExact'
    <3>1. out' = <<>>
      BY <1>1, <1>5 DEF IInv, Early, merge
    <3> QED
      BY <2>6, <3>1 DEF DiffIsExact, Range
  <2> QED
    BY <2>5, <2>7, <2>8, <2>9, <2>10 DEF IInv
<1> QED
  BY <1>3, <1>4, <1>5

LEMMA ReadErrorOK == IInv /\ ReadError => IInv'
<1> SUFFICES ASSUME IInv, ReadError PROVE IInv'
  OBVIOUS
<1>1. files' = files /\ files \in Seq(Seq(Lines)) /\ Len(files) = 2
  BY DEF ReadError, IInv, TypeOK
<1> QED
  BY <1>1, RejectOK DEF ReadError

-----------------------------------------------------------------------------
(* The end of a file. *)

LEMMA EndOfFileOK == IInv /\ EndOfFile => IInv'
<1> SUFFICES ASSUME IInv, EndOfFile PROVE IInv'
  OBVIOUS
<1>1. /\ phase = "read" /\ files' = files /\ which \in {1, 2}
      /\ files \in Seq(Seq(Lines)) /\ Len(files) = 2
  BY DEF EndOfFile, IInv, TypeOK
<1>2. CASE \E why : Reject(why)
  BY <1>1, <1>2, RejectOK
<1>3. ASSUME NEW p \in Orders(Len(items[which])),
             NEW sorted, sorted = [i \in DOMAIN items[which] |-> items[which][p[i]]],
             Sorted(sorted), ~HasDuplicate(sorted),
             items' = [items EXCEPT ![which] = sorted],
             which' = 2, phase' = (IF which = 1 THEN "open" ELSE "diff"),
             UNCHANGED <<total, merge, status, error>>
      PROVE  IInv'
  <2>1. items[which] \in Seq(Entry) /\ Len(items[which]) <= MaxEntries
    BY <1>1, Pieces DEF IInv
  <2>2. /\ sorted \in Seq(Entry) /\ Len(sorted) = Len(items[which])
        /\ Range(sorted) = Range(items[which])
    BY <1>3, <2>1, SortKeeps
  <2>3. Strict(sorted)
    BY <1>3, <2>2, SortedIsStrict
  <2>4. /\ items' \in Seq(Seq(Entry)) /\ Len(items') = 2
        /\ \A w \in {1, 2} : items'[w] = IF w = which THEN sorted ELSE items[w]
    <3>1. items \in Seq(Seq(Entry)) /\ Len(items) = 2
      BY DEF IInv, TypeOK
    <3> QED
      BY <1>1, <1>3, <2>2, <3>1, PairUpdate
  <2>5. UNCHANGED <<before_i, after_i, changed, out, status, total>>
    BY <1>3 DEF merge
  <2>6. /\ before_i = 1 /\ after_i = 1 /\ ~changed /\ out = <<>> /\ status = 0
    BY <1>1 DEF IInv, Early
  <2>7. TypeOK'
    <3>1. \A w \in {1, 2} : Len(items'[w]) <= MaxEntries
      BY <1>1, <2>1, <2>2, <2>4, Pieces DEF IInv
    <3>2. phase' \in {"open", "diff"}
      BY <1>3
    <3>3. TypeOK
      BY DEF IInv
    <3> QED
      BY <1>1, <1>3, <2>4, <2>5, <3>1, <3>2, <3>3 DEF TypeOK
  <2>8. Early'
    BY <2>5, <2>6 DEF Early
  <2>9. Content'
    <3>1. \A w \in {1, 2} : EntriesOf(w)' = EntriesOf(w) /\ Range(items[w]) = EntriesOf(w)
      BY <1>1 DEF EntriesOf, IInv, Content
    <3>2. \A w \in {1, 2} : Range(items'[w]) = EntriesOf(w)'
      BY <1>1, <2>2, <2>4, <3>1
    <3>3. Strict(items'[1])
      <4>1. which = 2 => Strict(items[1])
        BY <1>1 DEF IInv, Content
      <4> QED
        BY <1>1, <2>3, <2>4, <4>1
    <3>4. phase' = "diff" => Strict(items'[2])
      BY <1>1, <1>3, <2>3, <2>4
    <3> QED
      BY <1>3, <3>2, <3>3, <3>4 DEF Content
  <2>10. Merging'
    <3> SUFFICES ASSUME phase' = "diff"
                 PROVE  /\ 1 <= Len(items'[1]) + 1 /\ 1 <= Len(items'[2]) + 1
                        /\ Apart(items'[1], items'[2], 1, 1)
                        /\ Printed(items'[1], items'[2], 1, 1, <<>>)
      BY <2>5, <2>6 DEF Merging
    <3>1. /\ items'[1] \in Seq(Entry) /\ items'[2] \in Seq(Entry)
      BY <2>4, PairItem
    <3>2. \A m \in DOMAIN items'[1] \cup DOMAIN items'[2] : m >= 1 /\ ~(m < 1)
      BY <3>1
    <3>3. Apart(items'[1], items'[2], 1, 1)
      BY <3>2 DEF Apart
    <3>4. ASSUME NEW d \in DiffOf(Range(items'[1]), Range(items'[2]))
          PROVE  Ahead(items'[1], items'[2], 1, 1, d.key)
      <4>1. \/ \E e \in Range(items'[1]) : d.key = e.key
            \/ \E e \in Range(items'[2]) : d.key = e.key
        BY <3>4 DEF DiffOf, Removed, Added, Changed
      <4> QED
        BY <3>2, <4>1 DEF Ahead, Range
    <3>5. Printed(items'[1], items'[2], 1, 1, <<>>)
      BY <3>4 DEF Printed, Strict
    <3> QED
      BY <3>1, <3>3, <3>5
  <2>11. DiffIsExact'
    <3>1. out' = <<>> /\ phase' # "done"
      BY <1>3, <2>5, <2>6
    <3> QED
      BY <3>1 DEF DiffIsExact, Range
  <2> QED
    BY <2>7, <2>8, <2>9, <2>10, <2>11 DEF IInv
<1>4. CASE \E p \in Orders(Len(items[which])) :
             LET sorted == [i \in DOMAIN items[which] |-> items[which][p[i]]]
             IN  /\ Sorted(sorted)
                 /\ IF HasDuplicate(sorted)
                    THEN Reject("duplicate")
                    ELSE /\ items' = [items EXCEPT ![which] = sorted]
                         /\ IF which = 1 THEN which' = 2 /\ phase' = "open"
                                         ELSE which' = 2 /\ phase' = "diff"
                         /\ UNCHANGED <<total, merge, status, error>>
  BY <1>2, <1>3, <1>4
<1> QED
  BY <1>2, <1>4 DEF EndOfFile

-----------------------------------------------------------------------------
(* The merge, of any two snapshots B and A. *)

LEMMA KeyNamesEntry ==
  ASSUME NEW s \in Seq(Entry), Strict(s), NEW e \in Range(s), NEW f \in Range(s), e.key = f.key
  PROVE  e = f
<1>1. PICK m \in DOMAIN s : s[m] = e
  BY DEF Range
<1>2. PICK n \in DOMAIN s : s[n] = f
  BY DEF Range
<1>3. m \in Nat /\ n \in Nat /\ s[m].key \in Int /\ s[n].key \in Int
  <2>1. m \in Nat /\ n \in Nat
    OBVIOUS
  <2> QED
    BY <2>1, ItemKey
<1>4. ~(m < n) /\ ~(n < m)
  BY <1>1, <1>2, <1>3 DEF Strict
<1>5. m = n
  BY <1>3, <1>4
<1> QED
  BY <1>1, <1>2, <1>5

(* The three ways to be a difference. *)
LEMMA DiffCases ==
  ASSUME NEW RB, NEW RA, NEW d \in DiffOf(RB, RA)
  PROVE  \/ \E e \in RB : d = Removed(e) /\ d.key = e.key /\ \A a \in RA : a.key # e.key
         \/ \E e \in RA : d = Added(e) /\ d.key = e.key /\ \A b \in RB : b.key # e.key
         \/ \E e \in RB, f \in RA :
              d = Changed(e, f) /\ d.key = e.key /\ e.key = f.key /\ e.value # f.value
BY DEF DiffOf, Removed, Added, Changed

LEMMA KeyNamesRecord ==
  ASSUME NEW B \in Seq(Entry), NEW A \in Seq(Entry), Strict(B), Strict(A),
         NEW d \in DiffOf(Range(B), Range(A)), NEW r \in DiffOf(Range(B), Range(A)),
         d.key = r.key
  PROVE  d = r
<1> DEFINE RB == Range(B)
           RA == Range(A)
<1>1. \A e, f \in RB : e.key = f.key => e = f
  BY KeyNamesEntry
<1>2. \A e, f \in RA : e.key = f.key => e = f
  BY KeyNamesEntry
<1> HIDE DEF RA, RB
<1>3. CASE \E e \in RB : d = Removed(e) /\ d.key = e.key /\ \A a \in RA : a.key # e.key
  <2>1. PICK e \in RB : d = Removed(e) /\ d.key = e.key /\ \A a \in RA : a.key # e.key
    BY <1>3
  <2>2. PICK f \in RB : r = Removed(f) /\ r.key = f.key
    BY <2>1, DiffCases DEF RA, RB
  <2>3. e = f
    BY <1>1, <2>1, <2>2
  <2> QED
    BY <2>1, <2>2, <2>3
<1>4. CASE \E e \in RA : d = Added(e) /\ d.key = e.key /\ \A b \in RB : b.key # e.key
  <2>1. PICK e \in RA : d = Added(e) /\ d.key = e.key /\ \A b \in RB : b.key # e.key
    BY <1>4
  <2>2. PICK f \in RA : r = Added(f) /\ r.key = f.key
    BY <2>1, DiffCases DEF RA, RB
  <2>3. e = f
    BY <1>2, <2>1, <2>2
  <2> QED
    BY <2>1, <2>2, <2>3
<1>5. CASE \E e \in RB, f \in RA :
             d = Changed(e, f) /\ d.key = e.key /\ e.key = f.key /\ e.value # f.value
  <2>1. PICK e \in RB, f \in RA : d = Changed(e, f) /\ d.key = e.key /\ e.key = f.key
    BY <1>5
  <2>2. PICK x \in RB, y \in RA : r = Changed(x, y) /\ r.key = x.key /\ x.key = y.key
    BY <2>1, DiffCases DEF RA, RB
  <2>3. e = x /\ f = y
    BY <1>1, <1>2, <2>1, <2>2
  <2> QED
    BY <2>1, <2>2, <2>3
<1> QED
  BY <1>3, <1>4, <1>5, DiffCases DEF RA, RB

(* A record is printed when its key is the smallest of those to come, and  *)
(* the merge then leaves that key, and no other, behind.                   *)
LEMMA PrintOne ==
  ASSUME NEW B \in Seq(Entry), NEW A \in Seq(Entry), Strict(B), Strict(A),
         NEW o \in Seq(Record), NEW i \in Nat, NEW j \in Nat, NEW m \in Nat, NEW n \in Nat,
         i <= m, j <= n, Printed(B, A, i, j, o),
         NEW r \in Record, r \in DiffOf(Range(B), Range(A)), Ahead(B, A, i, j, r.key),
         \A x \in DOMAIN B : x >= m => r.key < B[x].key,
         \A y \in DOMAIN A : y >= n => r.key < A[y].key,
         \A k \in Keys : Ahead(B, A, i, j, k) => k = r.key \/ Ahead(B, A, m, n, k)
  PROVE  Printed(B, A, m, n, Append(o, r))
<1> DEFINE t == Append(o, r)
<1>1. /\ DOMAIN t = DOMAIN o \cup {Len(o) + 1} /\ t[Len(o) + 1] = r
      /\ \A x \in DOMAIN o : t[x] = o[x] /\ x <= Len(o)
      /\ Range(t) = Range(o) \cup {r}
  BY AppendRange
<1>2. DOMAIN o \subseteq Nat /\ Len(o) \in Nat /\ DOMAIN B \subseteq Nat /\ DOMAIN A \subseteq Nat
  OBVIOUS
<1> HIDE DEF t
<1>3. \A x \in DOMAIN o : o[x].key < r.key
  BY DEF Ahead, Printed
<1>4. ASSUME NEW x \in DOMAIN t
      PROVE  /\ t[x] \in DiffOf(Range(B), Range(A))
             /\ \A y \in DOMAIN B : y >= m => t[x].key < B[y].key
             /\ \A y \in DOMAIN A : y >= n => t[x].key < A[y].key
  <2>1. CASE x \in DOMAIN o
    <3>1. t[x] = o[x]
      BY <1>1, <2>1
    <3>2. /\ o[x] \in DiffOf(Range(B), Range(A))
          /\ \A y \in DOMAIN B : y >= i => o[x].key < B[y].key
          /\ \A y \in DOMAIN A : y >= j => o[x].key < A[y].key
      BY <2>1 DEF Printed
    <3>3. (\A y \in DOMAIN B : y >= m => y >= i) /\ (\A y \in DOMAIN A : y >= n => y >= j)
      BY <1>2
    <3> QED
      BY <3>1, <3>2, <3>3
  <2>2. CASE x = Len(o) + 1
    BY <1>1, <2>2
  <2> QED
    BY <1>1, <2>1, <2>2
<1>5. ASSUME NEW d \in DiffOf(Range(B), Range(A))
      PROVE  d \in Range(t) \/ Ahead(B, A, m, n, d.key)
  <2>1. d \in Range(o) \/ Ahead(B, A, i, j, d.key)
    BY DEF Printed
  <2>2. d.key \in Keys
    <3>1. \A e \in Range(B) \cup Range(A) : e.key \in Keys
      BY ItemKey DEF Range
    <3> QED
      BY <3>1, DiffCases
  <2>3. CASE d.key = r.key
    BY <1>1, <2>3, KeyNamesRecord
  <2> QED
    BY <1>1, <2>1, <2>2, <2>3
<1>6. Strict(t)
  <2>1. ASSUME NEW x \in DOMAIN t, NEW y \in DOMAIN t, x < y PROVE t[x].key < t[y].key
    <3>1. x \in DOMAIN o
      BY <1>1, <1>2, <2>1
    <3>2. CASE y \in DOMAIN o
      BY <1>1, <2>1, <3>1, <3>2 DEF Printed, Strict
    <3>3. CASE y = Len(o) + 1
      BY <1>1, <1>3, <3>1, <3>3
    <3> QED
      BY <1>1, <3>2, <3>3
  <2> QED
    BY <2>1 DEF Strict
<1>7. Printed(B, A, m, n, t)
  BY <1>4, <1>5, <1>6 DEF Printed
<1> QED
  BY <1>7 DEF t

(* One of a snapshot is passed: what is left is what follows it. *)
LEMMA PassOne ==
  ASSUME NEW s \in Seq(Entry), Strict(s), NEW i \in DOMAIN s
  PROVE  /\ i \in Nat /\ i + 1 <= Len(s) + 1
         /\ \A x \in DOMAIN s : x >= i + 1 => s[i].key < s[x].key /\ x >= i
         /\ \A x \in DOMAIN s : x >= i => x = i \/ x >= i + 1
         /\ \A x \in DOMAIN s : x < i + 1 => x = i \/ x < i
         /\ \A x \in DOMAIN s : s[x].key \in Int
<1>1. i \in Nat /\ i <= Len(s) /\ DOMAIN s \subseteq Nat /\ Len(s) \in Nat
  OBVIOUS
<1>2. \A x \in DOMAIN s : x >= i + 1 => i < x /\ x >= i
  BY <1>1
<1>3. \A x \in DOMAIN s : (x >= i => x = i \/ x >= i + 1) /\ (x < i + 1 => x = i \/ x < i)
  BY <1>1
<1>4. \A x \in DOMAIN s : s[x].key \in Int
  BY ItemKey
<1> QED
  BY <1>1, <1>2, <1>3, <1>4 DEF Strict

(* The states of a merge. *)
Halfway(B, A, i, j, o) ==
  /\ B \in Seq(Entry) /\ A \in Seq(Entry) /\ Strict(B) /\ Strict(A)
  /\ i \in Nat \ {0} /\ j \in Nat \ {0} /\ o \in Seq(Record)
  /\ Apart(B, A, i, j) /\ Printed(B, A, i, j, o)


(* A key below the first of those to come is below all of them. *)
LEMMA BelowRest ==
  ASSUME NEW s \in Seq(Entry), Strict(s), NEW j \in Nat \ {0}, NEW k \in Int,
         j \in DOMAIN s => k < s[j].key
  PROVE  \A y \in DOMAIN s : y >= j => k < s[y].key
<1> SUFFICES ASSUME NEW y \in DOMAIN s, y >= j PROVE k < s[y].key
  OBVIOUS
<1>1. j \in DOMAIN s /\ y \in Nat
  OBVIOUS
<1>2. j < y \/ j = y
  BY <1>1
<1>3. s[j].key \in Int /\ s[y].key \in Int
  BY <1>1, ItemKey
<1>4. j < y => s[j].key < s[y].key
  BY <1>1 DEF Strict
<1> QED
  BY <1>1, <1>2, <1>3, <1>4

LEMMA PassRemoved ==
  ASSUME NEW B, NEW A, NEW i, NEW j, NEW o, Halfway(B, A, i, j, o),
         i \in DOMAIN B, j \in DOMAIN A => B[i].key < A[j].key
  PROVE  /\ Apart(B, A, i + 1, j)
         /\ Printed(B, A, i + 1, j, Append(o, Removed(B[i])))
<1> DEFINE r == Removed(B[i])
<1>0. /\ B \in Seq(Entry) /\ A \in Seq(Entry) /\ Strict(B) /\ Strict(A)
      /\ i \in Nat \ {0} /\ j \in Nat \ {0} /\ o \in Seq(Record)
      /\ Apart(B, A, i, j) /\ Printed(B, A, i, j, o)
  BY DEF Halfway
<1>1. /\ \A x \in DOMAIN B : x >= i + 1 => B[i].key < B[x].key /\ x >= i
      /\ \A x \in DOMAIN B : x >= i => x = i \/ x >= i + 1
      /\ \A x \in DOMAIN B : x < i + 1 => x = i \/ x < i
      /\ i + 1 \in Nat /\ i <= i + 1 /\ j <= j /\ i >= i
  BY <1>0, PassOne
<1>2. r.key = B[i].key /\ r \in Record /\ B[i].key \in Int /\ B[i] \in Range(B)
  <2>1. B[i].key \in Keys /\ B[i].value \in Values /\ <<>> \in Values /\ B[i].key \in Int
    BY <1>0, ItemKey DEF Values
  <2> QED
    BY <2>1 DEF Removed, Record, Range
<1>3. \A y \in DOMAIN A : y >= j => B[i].key < A[y].key
  BY <1>0, <1>2, BelowRest
<1>4. Apart(B, A, i + 1, j)
  BY <1>0, <1>1, <1>3 DEF Apart
<1>5. r \in DiffOf(Range(B), Range(A))
  <2>1. \A y \in DOMAIN A : A[y].key # B[i].key
    <3>1. \A y \in DOMAIN A : y < j => A[y].key < B[i].key
      BY <1>0, <1>1 DEF Apart
    <3>2. \A y \in DOMAIN A : A[y].key \in Int /\ y \in Nat
      BY <1>0, ItemKey
    <3> QED
      BY <1>0, <1>2, <1>3, <3>1, <3>2
  <2>2. \A a \in Range(A) : a.key # B[i].key
    BY <2>1 DEF Range
  <2> QED
    BY <1>2, <2>2 DEF DiffOf
<1> HIDE DEF r
<1>6. Ahead(B, A, i, j, r.key)
  BY <1>1, <1>2 DEF Ahead
<1>7. \A k \in Keys : Ahead(B, A, i, j, k) => k = r.key \/ Ahead(B, A, i + 1, j, k)
  BY <1>1, <1>2 DEF Ahead
<1>8. Printed(B, A, i + 1, j, Append(o, r))
  BY <1>0, <1>1, <1>2, <1>3, <1>5, <1>6, <1>7, PrintOne
<1> QED
  BY <1>4, <1>8 DEF r

LEMMA PassAdded ==
  ASSUME NEW B, NEW A, NEW i, NEW j, NEW o, Halfway(B, A, i, j, o),
         j \in DOMAIN A, i \in DOMAIN B => A[j].key < B[i].key
  PROVE  /\ Apart(B, A, i, j + 1)
         /\ Printed(B, A, i, j + 1, Append(o, Added(A[j])))
<1> DEFINE r == Added(A[j])
<1>0. /\ B \in Seq(Entry) /\ A \in Seq(Entry) /\ Strict(B) /\ Strict(A)
      /\ i \in Nat \ {0} /\ j \in Nat \ {0} /\ o \in Seq(Record)
      /\ Apart(B, A, i, j) /\ Printed(B, A, i, j, o)
  BY DEF Halfway
<1>1. /\ \A x \in DOMAIN A : x >= j + 1 => A[j].key < A[x].key /\ x >= j
      /\ \A x \in DOMAIN A : x >= j => x = j \/ x >= j + 1
      /\ \A x \in DOMAIN A : x < j + 1 => x = j \/ x < j
      /\ j + 1 \in Nat /\ j <= j + 1 /\ i <= i /\ j >= j
  BY <1>0, PassOne
<1>2. r.key = A[j].key /\ r \in Record /\ A[j].key \in Int /\ A[j] \in Range(A)
  <2>1. A[j].key \in Keys /\ A[j].value \in Values /\ <<>> \in Values /\ A[j].key \in Int
    BY <1>0, ItemKey DEF Values
  <2> QED
    BY <2>1 DEF Added, Record, Range
<1>3. \A x \in DOMAIN B : x >= i => A[j].key < B[x].key
  BY <1>0, <1>2, BelowRest
<1>4. Apart(B, A, i, j + 1)
  BY <1>0, <1>1, <1>3 DEF Apart
<1>5. r \in DiffOf(Range(B), Range(A))
  <2>1. \A x \in DOMAIN B : B[x].key # A[j].key
    <3>1. \A x \in DOMAIN B : x < i => B[x].key < A[j].key
      BY <1>0, <1>1 DEF Apart
    <3>2. \A x \in DOMAIN B : B[x].key \in Int /\ x \in Nat
      BY <1>0, ItemKey
    <3> QED
      BY <1>0, <1>2, <1>3, <3>1, <3>2, SMTT(30)
  <2>2. \A b \in Range(B) : b.key # A[j].key
    BY <2>1 DEF Range
  <2> QED
    BY <1>2, <2>2 DEF DiffOf
<1> HIDE DEF r
<1>6. Ahead(B, A, i, j, r.key)
  BY <1>1, <1>2 DEF Ahead
<1>7. \A k \in Keys : Ahead(B, A, i, j, k) => k = r.key \/ Ahead(B, A, i, j + 1, k)
  BY <1>1, <1>2 DEF Ahead
<1>8. Printed(B, A, i, j + 1, Append(o, r))
  BY <1>0, <1>1, <1>2, <1>3, <1>5, <1>6, <1>7, PrintOne
<1> QED
  BY <1>4, <1>8 DEF r

(* Both have the key: both are passed, with or without a record. *)
LEMMA PassBoth ==
  ASSUME NEW B, NEW A, NEW i, NEW j, NEW o, Halfway(B, A, i, j, o),
         i \in DOMAIN B, j \in DOMAIN A, B[i].key = A[j].key
  PROVE  /\ Apart(B, A, i + 1, j + 1)
         /\ B[i].value = A[j].value => Printed(B, A, i + 1, j + 1, o)
         /\ B[i].value # A[j].value =>
              Printed(B, A, i + 1, j + 1, Append(o, Changed(B[i], A[j])))
<1> DEFINE r == Changed(B[i], A[j])
<1>0. /\ B \in Seq(Entry) /\ A \in Seq(Entry) /\ Strict(B) /\ Strict(A)
      /\ i \in Nat \ {0} /\ j \in Nat \ {0} /\ o \in Seq(Record)
      /\ Apart(B, A, i, j) /\ Printed(B, A, i, j, o)
  BY DEF Halfway
<1>1. /\ \A x \in DOMAIN B : x >= i + 1 => B[i].key < B[x].key /\ x >= i
      /\ \A x \in DOMAIN B : x >= i => x = i \/ x >= i + 1
      /\ \A x \in DOMAIN B : x < i + 1 => x = i \/ x < i
      /\ i + 1 \in Nat /\ i <= i + 1 /\ i >= i
  BY <1>0, PassOne
<1>2. /\ \A x \in DOMAIN A : x >= j + 1 => A[j].key < A[x].key /\ x >= j
      /\ \A x \in DOMAIN A : x >= j => x = j \/ x >= j + 1
      /\ \A x \in DOMAIN A : x < j + 1 => x = j \/ x < j
      /\ j + 1 \in Nat /\ j <= j + 1 /\ j >= j
  BY <1>0, PassOne, SMTT(30)
<1>3. /\ r.key = B[i].key /\ r.key = A[j].key /\ r \in Record /\ r.key \in Keys /\ r.key \in Int
      /\ B[i] \in Range(B) /\ A[j] \in Range(A)
  <2>1. B[i].key \in Keys /\ B[i].value \in Values /\ A[j].value \in Values /\ B[i].key \in Int
    BY <1>0, ItemKey
  <2> QED
    BY <2>1 DEF Changed, Record, Range
<1>4. Apart(B, A, i + 1, j + 1)
  BY <1>0, <1>1, <1>2 DEF Apart
<1>5. Ahead(B, A, i, j, r.key)
  BY <1>1, <1>3 DEF Ahead
<1>6. \A k : Ahead(B, A, i, j, k) => k = r.key \/ Ahead(B, A, i + 1, j + 1, k)
  BY <1>1, <1>2, <1>3 DEF Ahead
<1>7. CASE B[i].value # A[j].value
  <2>1. r \in DiffOf(Range(B), Range(A))
    <3>1. <<B[i], A[j]>> \in {q \in Range(B) \X Range(A) :
                                 q[1].key = q[2].key /\ q[1].value # q[2].value}
      BY <1>3, <1>7
    <3> QED
      BY <3>1 DEF DiffOf
  <2> HIDE DEF r
  <2>2. /\ \A x \in DOMAIN B : x >= i + 1 => r.key < B[x].key
        /\ \A y \in DOMAIN A : y >= j + 1 => r.key < A[y].key
    BY <1>1, <1>2, <1>3
  <2>3. Printed(B, A, i + 1, j + 1, Append(o, r))
    BY <1>0, <1>1, <1>2, <1>3, <1>5, <1>6, <2>1, <2>2, PrintOne
  <2> QED
    BY <1>4, <1>7, <2>3 DEF r
<1>8. CASE B[i].value = A[j].value
  <2>1. \A d \in DiffOf(Range(B), Range(A)) : d.key # r.key
    <3> SUFFICES ASSUME NEW d \in DiffOf(Range(B), Range(A)), d.key = B[i].key PROVE FALSE
      BY <1>3
    <3>1. PICK e \in Range(B), f \in Range(A) : d.key = e.key /\ e.key = f.key /\ e.value # f.value
      BY <1>3, DiffCases
    <3>2. e = B[i] /\ f = A[j]
      BY <1>0, <1>3, <3>1, KeyNamesEntry
    <3> QED
      BY <1>8, <3>1, <3>2
  <2>2. Printed(B, A, i + 1, j + 1, o)
    BY <1>0, <1>1, <1>2, <1>6, <2>1 DEF Printed
  <2> QED
    BY <1>4, <1>8, <2>2
<1> QED
  BY <1>7, <1>8

-----------------------------------------------------------------------------
(* emit_diff() *)

LEMMA InTheMerge ==
  ASSUME IInv, phase = "diff"
  PROVE  /\ Halfway(items[1], items[2], before_i, after_i, out)
         /\ which = 2 /\ Difference = DiffOf(Range(items[1]), Range(items[2]))
         /\ Len(items[1]) \in Nat /\ Len(items[2]) \in Nat
         /\ before_i \in DOMAIN items[1] <=> before_i <= Len(items[1])
         /\ after_i \in DOMAIN items[2] <=> after_i <= Len(items[2])
<1>1. /\ items[1] \in Seq(Entry) /\ items[2] \in Seq(Entry)
      /\ Len(items[1]) \in Nat /\ Len(items[2]) \in Nat
  BY Pieces DEF IInv
<1>2. before_i \in Nat \ {0} /\ after_i \in Nat \ {0} /\ out \in Seq(Record)
  BY SysdiffAssumption DEF IInv, TypeOK
<1>3. Halfway(items[1], items[2], before_i, after_i, out)
  BY <1>1, <1>2 DEF IInv, Content, Merging, Halfway
<1>4. which = 2 /\ Range(items[1]) = EntriesOf(1) /\ Range(items[2]) = EntriesOf(2)
  BY DEF IInv, Content
<1>5. Difference = DiffOf(Range(items[1]), Range(items[2]))
  BY <1>4, DifferenceIs
<1> QED
  BY <1>1, <1>2, <1>3, <1>4, <1>5

(* One or both sides have gone on by one, and the output with them. *)
LEMMA WentOn ==
  ASSUME IInv, phase = "diff",
         UNCHANGED <<phase, which, items, total, files, status, error>>,
         before_i' \in {before_i, before_i + 1}, before_i' <= Len(items[1]) + 1,
         after_i' \in {after_i, after_i + 1}, after_i' <= Len(items[2]) + 1,
         Apart(items[1], items[2], before_i', after_i'),
         Printed(items[1], items[2], before_i', after_i', out'),
         out' \in Seq(Record), changed' \in BOOLEAN, changed' <=> out' # <<>>
  PROVE  IInv'
<1>1. TypeOK'
  <2>1. Len(items[1]) \in Nat /\ Len(items[1]) <= MaxEntries
        /\ Len(items[2]) \in Nat /\ Len(items[2]) <= MaxEntries
    BY Pieces DEF IInv
  <2>2. before_i \in 1 .. MaxEntries + 1 /\ after_i \in 1 .. MaxEntries + 1 /\ MaxEntries \in Nat
    BY SysdiffAssumption DEF IInv, TypeOK
  <2>3. before_i' \in 1 .. MaxEntries + 1 /\ after_i' \in 1 .. MaxEntries + 1
    BY <2>1, <2>2
  <2> QED
    BY <2>3 DEF IInv, TypeOK
<1>2. Early'
  BY DEF Early
<1>3. Content'
  BY DEF IInv, Content, EntriesOf
<1>4. Merging'
  BY DEF Merging
<1>5. DiffIsExact'
  <2>1. Difference' = DiffOf(Range(items[1]), Range(items[2]))
    <3>1. Difference' = Difference
      BY DEF Difference, EntriesOf
    <3> QED
      BY <3>1, InTheMerge
  <2>2. \A x \in DOMAIN out' : out'[x] \in Difference'
    BY <2>1 DEF Printed
  <2>3. Range(out') \subseteq Difference'
    BY <2>2 DEF Range
  <2>4. \A x, y \in DOMAIN out' : x < y => out'[x].key < out'[y].key
    BY DEF Printed, Strict
  <2>5. phase' # "done"
    OBVIOUS
  <2> QED
    BY <2>3, <2>4, <2>5 DEF DiffIsExact
<1> QED
  BY <1>1, <1>2, <1>3, <1>4, <1>5 DEF IInv

LEMMA WriteErrorOK ==
  ASSUME IInv, phase = "diff", WriteError, UNCHANGED <<which, items, total, files>>
  PROVE  IInv'
<1>1. phase' = "done" /\ status' = 2 /\ UNCHANGED <<before_i, after_i, changed, out>>
  BY DEF WriteError
<1>2. TypeOK'
  BY <1>1 DEF IInv, TypeOK
<1>3. Early' /\ Content' /\ Merging'
  BY <1>1 DEF Early, Content, Merging
<1>4. DiffIsExact'
  <2>1. Difference' = Difference
    BY DEF Difference, EntriesOf
  <2> QED
    BY <1>1, <2>1 DEF IInv, DiffIsExact
<1> QED
  BY <1>2, <1>3, <1>4 DEF IInv

LEMMA MergeStepOK == IInv /\ MergeStep => IInv'
<1> SUFFICES ASSUME IInv, MergeStep PROVE IInv'
  OBVIOUS
<1> DEFINE B == items[1]
           A == items[2]
<1>1. phase = "diff" /\ UNCHANGED <<which, items, total, files>>
  BY DEF MergeStep
<1>2. /\ Halfway(B, A, before_i, after_i, out)
      /\ Len(B) \in Nat /\ Len(A) \in Nat /\ B \in Seq(Entry) /\ A \in Seq(Entry)
      /\ before_i \in DOMAIN B <=> before_i <= Len(B)
      /\ after_i \in DOMAIN A <=> after_i <= Len(A)
      /\ before_i \in Nat /\ after_i \in Nat /\ out \in Seq(Record)
      /\ before_i <= Len(B) + 1 /\ after_i <= Len(A) + 1
  BY <1>1, InTheMerge DEF Halfway, IInv, Merging
<1>3. /\ before_i \in DOMAIN B => B[before_i].key \in Int /\ B[before_i] \in Entry
      /\ after_i \in DOMAIN A => A[after_i].key \in Int /\ A[after_i] \in Entry
  BY <1>2, ItemKey
<1>4. /\ TakesBefore <=> /\ before_i \in DOMAIN B
                         /\ after_i \in DOMAIN A => B[before_i].key <= A[after_i].key
      /\ TakesAfter <=> /\ after_i \in DOMAIN A
                        /\ before_i \in DOMAIN B => A[after_i].key <= B[before_i].key
  BY <1>2 DEF TakesBefore, TakesAfter, Before, After
<1>5. /\ \A e, f \in Entry : Changed(e, f) \in Record
      /\ \A e \in Entry : Removed(e) \in Record /\ Added(e) \in Record
  <2>1. <<>> \in Values
    BY DEF Values
  <2> QED
    BY <2>1 DEF Changed, Removed, Added, Record, Entry
<1>6. ASSUME NEW r \in Record PROVE Append(out, r) \in Seq(Record) /\ Append(out, r) # <<>>
  <2>1. Len(Append(out, r)) = Len(out) + 1 /\ Len(out) \in Nat /\ Append(out, r) \in Seq(Record)
    BY <1>2
  <2>2. Len(<<>>) = 0
    OBVIOUS
  <2> QED
    BY <2>1, <2>2
<1>7. changed \in BOOLEAN /\ (changed <=> out # <<>>)
  BY <1>1 DEF IInv, TypeOK, Merging
<1> HIDE DEF B, A
<1>8. CASE TakesBefore /\ TakesAfter /\ Before.value = After.value
           /\ Advance /\ UNCHANGED <<phase, changed, out, status, error>>
  <2>1. before_i \in DOMAIN B /\ after_i \in DOMAIN A /\ B[before_i].key = A[after_i].key
        /\ B[before_i].value = A[after_i].value
    BY <1>3, <1>4, <1>8 DEF Before, After, A, B
  <2>2. before_i' = before_i + 1 /\ after_i' = after_i + 1
    BY <1>8 DEF Advance
  <2>3. Apart(B, A, before_i', after_i') /\ Printed(B, A, before_i', after_i', out)
    BY <1>2, <2>1, <2>2, PassBoth
  <2>4. before_i' <= Len(B) + 1 /\ after_i' <= Len(A) + 1
    BY <1>2, <2>1, <2>2
  <2> QED
    BY <1>1, <1>2, <1>7, <1>8, <2>2, <2>3, <2>4, WentOn DEF A, B
<1>9. CASE TakesBefore /\ TakesAfter /\ Before.value # After.value
           /\ Advance /\ Emit(Changed(Before, After))
  <2>1. before_i \in DOMAIN B /\ after_i \in DOMAIN A /\ B[before_i].key = A[after_i].key
        /\ B[before_i].value # A[after_i].value
    BY <1>3, <1>4, <1>9 DEF Before, After, A, B
  <2>2. before_i' = before_i + 1 /\ after_i' = after_i + 1
    BY <1>9 DEF Advance
  <2>3. /\ out' = Append(out, Changed(B[before_i], A[after_i])) /\ changed' = TRUE
        /\ UNCHANGED <<phase, status, error>>
    BY <1>9 DEF Emit, Before, After, A, B
  <2>4. Apart(B, A, before_i', after_i') /\ Printed(B, A, before_i', after_i', out')
    BY <1>2, <2>1, <2>2, <2>3, PassBoth
  <2>5. before_i' <= Len(B) + 1 /\ after_i' <= Len(A) + 1
    BY <1>2, <2>1, <2>2
  <2>6. out' \in Seq(Record) /\ out' # <<>>
    BY <1>3, <1>5, <1>6, <2>1, <2>3
  <2> QED
    BY <1>1, <2>2, <2>3, <2>4, <2>5, <2>6, WentOn DEF A, B
<1>10. CASE TakesBefore /\ ~TakesAfter /\ Advance /\ Emit(Removed(Before))
  <2>1. before_i \in DOMAIN B /\ (after_i \in DOMAIN A => B[before_i].key < A[after_i].key)
    BY <1>3, <1>4, <1>10
  <2>2. before_i' = before_i + 1 /\ after_i' = after_i
    BY <1>10 DEF Advance
  <2>3. /\ out' = Append(out, Removed(B[before_i])) /\ changed' = TRUE
        /\ UNCHANGED <<phase, status, error>>
    BY <1>10 DEF Emit, Before, B
  <2>4. Apart(B, A, before_i', after_i') /\ Printed(B, A, before_i', after_i', out')
    BY <1>2, <2>1, <2>2, <2>3, PassRemoved
  <2>5. before_i' <= Len(B) + 1 /\ after_i' <= Len(A) + 1
    BY <1>2, <2>1, <2>2
  <2>6. out' \in Seq(Record) /\ out' # <<>>
    BY <1>3, <1>5, <1>6, <2>1, <2>3
  <2> QED
    BY <1>1, <2>2, <2>3, <2>4, <2>5, <2>6, WentOn DEF A, B
<1>11. CASE ~TakesBefore /\ TakesAfter /\ Advance /\ Emit(Added(After))
  <2>1. after_i \in DOMAIN A /\ (before_i \in DOMAIN B => A[after_i].key < B[before_i].key)
    BY <1>3, <1>4, <1>11
  <2>2. before_i' = before_i /\ after_i' = after_i + 1
    BY <1>11 DEF Advance
  <2>3. /\ out' = Append(out, Added(A[after_i])) /\ changed' = TRUE
        /\ UNCHANGED <<phase, status, error>>
    BY <1>11 DEF Emit, After, A
  <2>4. Apart(B, A, before_i', after_i') /\ Printed(B, A, before_i', after_i', out')
    BY <1>2, <2>1, <2>2, <2>3, PassAdded
  <2>5. before_i' <= Len(B) + 1 /\ after_i' <= Len(A) + 1
    BY <1>2, <2>1, <2>2
  <2>6. out' \in Seq(Record) /\ out' # <<>>
    BY <1>3, <1>5, <1>6, <2>1, <2>3
  <2> QED
    BY <1>1, <2>2, <2>3, <2>4, <2>5, <2>6, WentOn DEF A, B
<1>12. CASE WriteError
  BY <1>1, <1>12, WriteErrorOK
<1> QED
  BY <1>8, <1>9, <1>10, <1>11, <1>12 DEF MergeStep

LEMMA FinishOK == IInv /\ Finish => IInv'
<1> SUFFICES ASSUME IInv, Finish PROVE IInv'
  OBVIOUS
<1>1. phase = "diff" /\ ~TakesBefore /\ ~TakesAfter /\ UNCHANGED <<which, items, total, files>>
  BY DEF Finish
<1>2. CASE phase' = "done" /\ status' = (IF changed THEN 1 ELSE 0) /\ UNCHANGED <<merge, error>>
  <2>1. before_i \notin DOMAIN items[1] /\ after_i \notin DOMAIN items[2]
    <3>1. before_i \in DOMAIN items[1] => items[1][before_i].key \in Int
      BY Pieces, ItemKey DEF IInv
    <3>2. after_i \in DOMAIN items[2] => items[2][after_i].key \in Int
      BY Pieces, ItemKey DEF IInv
    <3> QED
      BY <1>1, <3>1, <3>2, InTheMerge DEF TakesBefore, TakesAfter, Before, After
  <2>2. \A k : ~Ahead(items[1], items[2], before_i, after_i, k)
    <3>1. /\ items[1] \in Seq(Entry) /\ items[2] \in Seq(Entry)
          /\ before_i \in Nat \ {0} /\ after_i \in Nat \ {0}
      BY <1>1, InTheMerge DEF Halfway
    <3>2. \A m \in DOMAIN items[1] : ~(m >= before_i)
      BY <2>1, <3>1
    <3>3. \A n \in DOMAIN items[2] : ~(n >= after_i)
      BY <2>1, <3>1
    <3> QED
      BY <3>2, <3>3 DEF Ahead
  <2>3. Range(out) = Difference
    <3>1. Printed(items[1], items[2], before_i, after_i, out)
      BY <1>1, InTheMerge DEF Halfway
    <3>2. \A d \in Difference : d \in Range(out)
      BY <1>1, <2>2, <3>1, InTheMerge DEF Printed
    <3>3. Range(out) \subseteq Difference
      BY DEF IInv, DiffIsExact
    <3> QED
      BY <3>2, <3>3
  <2>4. changed <=> Difference # {}
    <3>1. out \in Seq(Record) /\ (changed <=> out # <<>>)
      BY <1>1 DEF IInv, TypeOK, Merging
    <3>2. out # <<>> => 1 \in DOMAIN out
      BY <3>1
    <3>3. out = <<>> => Range(out) = {}
      BY DEF Range
    <3>4. out # <<>> => Range(out) # {}
      BY <3>2 DEF Range
    <3> QED
      BY <2>3, <3>1, <3>3, <3>4
  <2>5. UNCHANGED <<before_i, after_i, changed, out>>
    BY <1>2 DEF merge
  <2>6. TypeOK'
    BY <1>1, <1>2, <2>5 DEF IInv, TypeOK
  <2>7. Early' /\ Content' /\ Merging'
    BY <1>2 DEF Early, Content, Merging
  <2>8. DiffIsExact'
    <3>1. Difference' = Difference
      BY <1>1 DEF Difference, EntriesOf
    <3>2. Range(out') = Difference' /\ (status' = 1 <=> Difference' # {})
      BY <1>2, <2>3, <2>4, <2>5, <3>1
    <3>3. \A x, y \in DOMAIN out' : x < y => out'[x].key < out'[y].key
      BY <2>5 DEF IInv, DiffIsExact
    <3> QED
      BY <3>2, <3>3 DEF DiffIsExact
  <2> QED
    BY <2>6, <2>7, <2>8 DEF IInv
<1>3. CASE WriteError
  BY <1>1, <1>3, WriteErrorOK
<1> QED
  BY <1>2, <1>3 DEF Finish

-----------------------------------------------------------------------------

LEMMA StepOK == IInv /\ [Next]_vars => IInv'
<1> SUFFICES ASSUME IInv, [Next]_vars PROVE IInv'
  OBVIOUS
<1>1. CASE UNCHANGED vars
  <2>1. UNCHANGED <<phase, which, items, total, before_i, after_i, changed, out, status, error,
                    files>>
    BY <1>1 DEF vars, merge
  <2>2. Difference' = Difference
    BY <2>1 DEF Difference, EntriesOf
  <2>3. TypeOK' /\ Early'
    BY <2>1 DEF IInv, TypeOK, Early
  <2>4. Content' /\ Merging'
    BY <2>1 DEF IInv, Content, EntriesOf, Merging
  <2>5. DiffIsExact'
    BY <2>1, <2>2 DEF IInv, DiffIsExact
  <2> QED
    BY <2>3, <2>4, <2>5 DEF IInv
<1>2. CASE Next
  BY <1>1, <1>2, OpenFileOK, ReadErrorOK, EndOfFileOK, MergeStepOK, FinishOK, ReadLineOK
     DEF Next, Terminated
<1> QED
  BY <1>1, <1>2

LEMMA Invariant == Spec => []IInv
BY InitOK, StepOK, PTL DEF Spec

(* sysdiff.c:199 and 308: the bytes read from a snapshot and the entries   *)
(* kept of it stay within their limits, and the merge within the entries,  *)
(* for all snapshots and limits.                                           *)
THEOREM TypesHold == Spec => []TypeOK
<1>1. IInv => TypeOK
  BY DEF IInv
<1> QED
  BY <1>1, Invariant, PTL

(* emit_diff(), for all snapshots: status 0 and 1 come with the whole      *)
(* difference between the lines of the two files, each key once and in     *)
(* order; nothing that is not a difference is ever printed.                *)
THEOREM ComparisonIsExact == Spec => []DiffIsExact
<1>1. IInv => DiffIsExact
  BY DEF IInv
<1> QED
  BY <1>1, Invariant, PTL

-----------------------------------------------------------------------------
(* Which snapshots are compared. *)

EntryLines(F) == {i \in DOMAIN F : F[i].kind = "entry"}

(* Nothing is wrong with a line as such. *)
Clean(F) == \A i \in DOMAIN F : F[i].nul = 0 /\ F[i].len <= MaxLine /\ F[i].kind \in {"skip", "entry"}

(* The entries of s are those of the lines of F, one by one. *)
Matches(F, s, at) ==
  /\ at \in Bijection(1 .. Len(s), EntryLines(F))
  /\ \A j \in 1 .. Len(s) : s[j].key = F[at[j]].key

(* The counters and the snapshot agree with the lines read so far. *)
Accounted(F, s, bytes) ==
  /\ Clean(F)
  /\ IsFiniteSet(Bytes(F)) /\ Cardinality(Bytes(F)) = bytes
  /\ \E at : Matches(F, s, at)

IllegalIn(F) == {why \in Reasons : Wrong(why, F)}

Account ==
  /\ phase # "done" => error = "none"
  /\ which = 1 /\ phase # "done" => files[2] = <<>> /\ items[2] = <<>>
  /\ phase = "open" => files[which] = <<>> /\ items[which] = <<>>
  /\ phase = "read" => Accounted(files[which], items[which], total)

LegalInv ==
  /\ Account
  /\ phase = "diff" \/ (phase = "done" /\ status # 2) => IllegalIn(files[1]) = {} /\ IllegalIn(files[2]) = {}
  /\ error \in Reasons => error \in IllegalIn(files[which])
  /\ which = 2 => IllegalIn(files[1]) = {}

LEMMA NoLines == Accounted(<<>>, <<>>, 0)
<1>1. DOMAIN <<>> = {} /\ Len(<<>>) = 0 /\ 1 .. 0 = {}
  OBVIOUS
<1>2. Clean(<<>>)
  BY <1>1 DEF Clean
<1>3. Bytes(<<>>) = {}
  BY <1>1 DEF Bytes
<1>4. EntryLines(<<>>) = {}
  BY <1>1 DEF EntryLines
<1>5. [x \in {} |-> x] \in Bijection({}, {})
  BY DEF Bijection, Injection, IsInjective, Surjection
<1>6. Matches(<<>>, <<>>, [x \in {} |-> x])
  BY <1>1, <1>4, <1>5 DEF Matches
<1> QED
  BY <1>2, <1>3, <1>6, FS_EmptySet DEF Accounted

(* A line of so many bytes more. *)
LEMMA MoreBytes ==
  ASSUME NEW F \in Seq(Lines), NEW l \in Lines, IsFiniteSet(Bytes(F))
  PROVE  /\ IsFiniteSet(Bytes(Append(F, l)))
         /\ Cardinality(Bytes(Append(F, l))) = Cardinality(Bytes(F)) + Size(l)
<1> DEFINE G == Append(F, l)
           n == Len(F) + 1
           own == {n} \X (1 .. Size(l))
<1>1. DOMAIN G = DOMAIN F \cup {n} /\ G[n] = l /\ \A i \in DOMAIN F : G[i] = F[i] /\ i <= Len(F)
  BY AppendRange
<1>2. n \notin DOMAIN F /\ Size(l) \in Nat
  BY SizeIsNat
<1> HIDE DEF G, n
<1>3. Bytes(G) = Bytes(F) \cup own
  <2>1. \A b \in Bytes(G) : b \in Bytes(F) \cup own
    BY <1>1 DEF Bytes
  <2>2. \A b \in Bytes(F) : b \in Bytes(G)
    BY <1>1 DEF Bytes
  <2>3. \A b \in own : b \in Bytes(G)
    BY <1>1 DEF Bytes
  <2> QED
    BY <2>1, <2>2, <2>3
<1>4. Bytes(F) \cap own = {}
  BY <1>2 DEF Bytes
<1>5. IsFiniteSet(own) /\ Cardinality(own) = Size(l)
  <2>1. IsFiniteSet(1 .. Size(l)) /\ Cardinality(1 .. Size(l)) = Size(l)
    BY <1>2, FS_Interval
  <2>2. IsFiniteSet({n}) /\ Cardinality({n}) = 1
    BY FS_Singleton
  <2>3. Cardinality(own) = 1 * Size(l) /\ IsFiniteSet(own)
    BY <2>1, <2>2, FS_Product, ZenonT(60)
  <2> QED
    BY <1>2, <2>3
<1> HIDE DEF own
<1>6. IsFiniteSet(Bytes(F) \cup own)
      /\ Cardinality(Bytes(F) \cup own) = Cardinality(Bytes(F)) + Cardinality(own) - Cardinality({})
  BY <1>4, <1>5, FS_Union
<1>7. Cardinality(Bytes(F)) \in Nat /\ Cardinality({}) = 0
  BY FS_CardinalityType, FS_EmptySet
<1> QED
  BY <1>2, <1>3, <1>5, <1>6, <1>7 DEF G

(* One more line, which is fine; one more entry, if it is one. *)
LEMMA MoreEntries ==
  ASSUME NEW F \in Seq(Lines), NEW l \in Lines, NEW s \in Seq(Entry), NEW at, Matches(F, s, at)
  PROVE  \E on : Matches(Append(F, l),
                         IF l.kind = "entry" THEN Append(s, [key |-> l.key, value |-> l.value]) ELSE s,
                         on)
<1> DEFINE G == Append(F, l)
           n == Len(F) + 1
           e == [key |-> l.key, value |-> l.value]
<1>1. DOMAIN G = DOMAIN F \cup {n} /\ G[n] = l /\ \A i \in DOMAIN F : G[i] = F[i] /\ i <= Len(F)
  BY AppendRange
<1>2. n \notin DOMAIN F
  OBVIOUS
<1>3. /\ at \in [1 .. Len(s) -> EntryLines(F)]
      /\ \A i, j \in 1 .. Len(s) : at[i] = at[j] => i = j
      /\ \A x \in EntryLines(F) : \E i \in 1 .. Len(s) : at[i] = x
      /\ \A j \in 1 .. Len(s) : s[j].key = F[at[j]].key
  BY DEF Matches, Bijection, Injection, IsInjective, Surjection
<1>4. EntryLines(G) = IF l.kind = "entry" THEN EntryLines(F) \cup {n} ELSE EntryLines(F)
  <2> HIDE DEF G, n
  <2> QED
    BY <1>1, <1>2 DEF EntryLines
<1>5. EntryLines(F) \subseteq DOMAIN F
  BY DEF EntryLines
<1> HIDE DEF G, n
<1>6. CASE l.kind # "entry"
  <2>1. Matches(G, s, at)
    BY <1>1, <1>3, <1>4, <1>5, <1>6 DEF Matches, Bijection, Injection, IsInjective, Surjection
  <2> QED
    BY <1>6, <2>1 DEF G
<1>7. CASE l.kind = "entry"
  <2> DEFINE on == [i \in 1 .. Len(s) + 1 |-> IF i = Len(s) + 1 THEN n ELSE at[i]]
             t == Append(s, e)
  <2>1. e \in Entry /\ e.key = l.key
    BY SizeIsNat DEF Entry
  <2>2. Len(t) = Len(s) + 1 /\ t[Len(s) + 1] = e /\ (\A i \in 1 .. Len(s) : t[i] = s[i]) /\ Len(s) \in Nat
    <3> HIDE DEF e
    <3> QED
      BY <2>1
  <2>3. 1 .. Len(s) + 1 = 1 .. Len(s) \cup {Len(s) + 1} /\ Len(s) + 1 \notin 1 .. Len(s)
    BY <2>2
  <2>4. \A i \in 1 .. Len(s) : on[i] = at[i] /\ at[i] \in EntryLines(F) /\ at[i] \in DOMAIN F /\ at[i] # n
    BY <1>2, <1>3, <1>5, <2>3
  <2>5. on[Len(s) + 1] = n /\ on = [i \in 1 .. Len(t) |-> on[i]]
    BY <2>2, <2>3
  <2> HIDE DEF on, t, e
  <2>6. on \in [1 .. Len(t) -> EntryLines(G)]
    BY <1>4, <1>7, <2>2, <2>3, <2>4, <2>5
  <2>11. \A i \in 1 .. Len(t) : i \in 1 .. Len(s) \/ i = Len(s) + 1
    BY <2>2, <2>3
  <2>12. \A i \in 1 .. Len(s) : i \in 1 .. Len(t)
    BY <2>2, <2>3
  <2>13. Len(s) + 1 \in 1 .. Len(t)
    BY <2>2, <2>3
  <2>7. ASSUME NEW i \in 1 .. Len(t), NEW j \in 1 .. Len(t), on[i] = on[j] PROVE i = j
    <3>1. CASE i \in 1 .. Len(s) /\ j \in 1 .. Len(s)
      BY <1>3, <2>4, <2>7, <3>1
    <3>2. CASE i = Len(s) + 1 /\ j \in 1 .. Len(s)
      BY <2>4, <2>5, <2>7, <3>2
    <3>3. CASE i \in 1 .. Len(s) /\ j = Len(s) + 1
      BY <2>4, <2>5, <2>7, <3>3
    <3> QED
      BY <2>11, <3>1, <3>2, <3>3
  <2>8. ASSUME NEW x \in EntryLines(G) PROVE \E i \in 1 .. Len(t) : on[i] = x
    <3>1. CASE x \in EntryLines(F)
      <4>1. PICK i \in 1 .. Len(s) : at[i] = x
        BY <1>3, <3>1
      <4> QED
        BY <2>4, <2>12, <4>1
    <3>2. CASE x = n
      BY <2>5, <2>13, <3>2
    <3> QED
      BY <1>4, <1>7, <3>1, <3>2
  <2>9. ASSUME NEW j \in 1 .. Len(t) PROVE t[j].key = G[on[j]].key
    <3>1. CASE j \in 1 .. Len(s)
      <4>1. t[j] = s[j] /\ on[j] = at[j] /\ at[j] \in DOMAIN F
        BY <2>2, <2>4, <3>1
      <4>2. G[at[j]] = F[at[j]]
        BY <1>1, <4>1
      <4> QED
        BY <1>3, <3>1, <4>1, <4>2
    <3>2. CASE j = Len(s) + 1
      BY <1>1, <2>1, <2>2, <2>5, <3>2
    <3> QED
      BY <2>11, <3>1, <3>2
  <2>10. Matches(G, t, on)
    BY <2>6, <2>7, <2>8, <2>9 DEF Matches, Bijection, Injection, IsInjective, Surjection
  <2> QED
    BY <1>7, <2>10 DEF G, t, e
<1> QED
  BY <1>6, <1>7

(* There are as many entries as lines that state one. *)
LEMMA AsManyEntries ==
  ASSUME NEW F \in Seq(Lines), NEW s \in Seq(Entry), NEW at, Matches(F, s, at)
  PROVE  Cardinality(EntryLines(F)) = Len(s)
<1>1. Len(s) \in Nat
  OBVIOUS
<1>2. ExistsBijection(1 .. Len(s), EntryLines(F))
  BY DEF Matches, ExistsBijection
<1> QED
  BY <1>1, <1>2, FS_CountingElements

(* Nothing is wrong with a file that is read as a whole. *)
LEMMA NothingIsWrong ==
  ASSUME NEW F \in Seq(Lines), NEW s \in Seq(Entry), NEW bytes \in 0 .. MaxBytes,
         Accounted(F, s, bytes), Len(s) <= MaxEntries,
         \A i, j \in 1 .. Len(s) : s[i].key = s[j].key => i = j
  PROVE  IllegalIn(F) = {}
<1>1. PICK at : Matches(F, s, at)
  BY DEF Accounted
<1>2. Cardinality(EntryLines(F)) = Len(s) /\ Len(s) \in Nat /\ MaxEntries \in Nat
  BY <1>1, AsManyEntries, SysdiffAssumption
<1>3. ~(Cardinality(EntryLines(F)) > MaxEntries)
  BY <1>2
<1>4. ~(Cardinality(Bytes(F)) > MaxBytes)
  BY SysdiffAssumption DEF Accounted
<1>5. \A i, j \in EntryLines(F) : F[i].key = F[j].key => i = j
  <2> SUFFICES ASSUME NEW i \in EntryLines(F), NEW j \in EntryLines(F), F[i].key = F[j].key
               PROVE  i = j
    OBVIOUS
  <2>1. PICK a \in 1 .. Len(s), b \in 1 .. Len(s) : at[a] = i /\ at[b] = j
    BY <1>1 DEF Matches, Bijection, Surjection
  <2>2. s[a].key = s[b].key
    BY <1>1, <2>1 DEF Matches
  <2> QED
    BY <2>1, <2>2
<1>6. \A i \in DOMAIN F : /\ ~(F[i].nul > 0) /\ ~(F[i].len > MaxLine)
                          /\ F[i].kind \in {"skip", "entry"}
  <2> SUFFICES ASSUME NEW i \in DOMAIN F
               PROVE  /\ ~(F[i].nul > 0) /\ ~(F[i].len > MaxLine)
                      /\ F[i].kind \in {"skip", "entry"}
    OBVIOUS
  <2>1. F[i].nul = 0 /\ F[i].len <= MaxLine /\ F[i].kind \in {"skip", "entry"}
    BY DEF Accounted, Clean
  <2>2. F[i].len \in Nat /\ MaxLine \in Nat
    BY SizeIsNat, SysdiffAssumption
  <2> QED
    BY <2>1, <2>2
<1>7. /\ ~Wrong("bytes", F) /\ ~Wrong("nul", F) /\ ~Wrong("long", F)
  BY <1>4, <1>6 DEF Wrong
<1>8. ~Wrong("entries", F) /\ ~Wrong("duplicate", F)
  BY <1>3, <1>5 DEF Wrong, EntryLines
<1>9. ~Wrong("nosep", F) /\ ~Wrong("nokey", F) /\ ~Wrong("badkey", F)
  BY <1>6 DEF Wrong
<1> QED
  BY <1>7, <1>8, <1>9 DEF IllegalIn, Reasons

(* What read_line() and parse_snapshot() say of a line is wrong with it. *)
LEMMA BlameIsRight ==
  ASSUME TypeOK, NEW F \in Seq(Lines), NEW l \in Lines,
         IsFiniteSet(Bytes(F)), Cardinality(Bytes(F)) = total,
         NEW wrong, wrong # "none",
         wrong = CASE Stops(l) # {} -> First(Stops(l)).why
                   [] Stops(l) = {} /\ l.len > MaxLine -> "long"
                   [] Stops(l) = {} /\ l.len <= MaxLine /\ l.kind \notin {"skip", "entry"} -> l.kind
                   [] OTHER -> "none"
  PROVE  wrong \in IllegalIn(Append(F, l))
<1> DEFINE G == Append(F, l)
<1>1. Len(F) + 1 \in DOMAIN G /\ G[Len(F) + 1] = l
  BY AppendRange
<1>2. Cardinality(Bytes(G)) = total + Size(l)
  BY MoreBytes
<1>3. /\ l.len \in Nat /\ Raw(l) \in Nat /\ MaxLine \in Nat /\ Raw(l) <= l.len + 1
      /\ l.kind \in Kinds
  BY SizeIsNat, SysdiffAssumption DEF Raw
<1> HIDE DEF G
<1>4. CASE Stops(l) # {}
  <2>1. First(Stops(l)) \in Stops(l) /\ wrong = First(Stops(l)).why
    BY <1>4, FirstIsOne
  <2>2. \/ wrong = "bytes" /\ total + Size(l) > MaxBytes
        \/ wrong = "nul" /\ l.nul > 0
        \/ wrong = "long" /\ Raw(l) > MaxLine + 1
    BY <2>1 DEF Stops
  <2>3. wrong = "bytes" /\ total + Size(l) > MaxBytes => Wrong(wrong, G)
    BY <1>2 DEF Wrong
  <2>4. wrong = "nul" /\ l.nul > 0 => Wrong(wrong, G)
    BY <1>1 DEF Wrong
  <2>5. Raw(l) > MaxLine + 1 => l.len > MaxLine
    BY <1>3
  <2>6. wrong = "long" /\ l.len > MaxLine => Wrong(wrong, G)
    BY <1>1 DEF Wrong
  <2> QED
    BY <2>2, <2>3, <2>4, <2>5, <2>6 DEF IllegalIn, Reasons, G
<1>5. CASE Stops(l) = {} /\ l.len > MaxLine
  <2>1. wrong = "long"
    BY <1>3, <1>5
  <2>2. Wrong("long", G)
    BY <1>1, <1>5 DEF Wrong
  <2> QED
    BY <2>1, <2>2 DEF IllegalIn, Reasons, G
<1>6. CASE Stops(l) = {} /\ ~(l.len > MaxLine)
  <2>1. l.len <= MaxLine
    BY <1>3, <1>6
  <2>2. l.kind \notin {"skip", "entry"} /\ wrong = l.kind
    BY <1>6, <2>1
  <2>3. wrong \in {"nosep", "nokey", "badkey"}
    BY <1>3, <2>2 DEF Kinds
  <2>4. Wrong(wrong, G)
    BY <1>1, <2>2, <2>3 DEF Wrong
  <2> QED
    BY <2>3, <2>4 DEF IllegalIn, Reasons, G
<1> QED
  BY <1>4, <1>5, <1>6

LEMMA RejectLegal ==
  ASSUME LegalInv, NEW why, Reject(why), which = 2 => files'[1] = files[1],
         why \in Reasons => why \in IllegalIn(files'[which])
  PROVE  LegalInv'
<1>1. phase' = "done" /\ status' = 2 /\ error' = why /\ which' = which
  BY DEF Reject
<1>2. Account'
  BY <1>1 DEF Account
<1>3. which' = 2 => IllegalIn(files'[1]) = {}
  BY <1>1 DEF LegalInv
<1>4. error' \in Reasons => error' \in IllegalIn(files'[which'])
  BY <1>1
<1>5. IllegalIn(files[1])' = IllegalIn(files'[1]) /\ IllegalIn(files[which])' = IllegalIn(files'[which'])
  BY DEF IllegalIn, Wrong
<1> QED
  BY <1>1, <1>2, <1>3, <1>4, <1>5 DEF LegalInv

LEMMA ReadLegal ==
  ASSUME IInv, LegalInv, NEW l \in Lines, ReadLine(l)
  PROVE  LegalInv'
<1> DEFINE F == files[which]
           s == items[which]
           G == Append(F, l)
           e == [key |-> l.key, value |-> l.value]
           wrong == CASE Stops(l) # {} -> First(Stops(l)).why
                      [] Stops(l) = {} /\ l.len > MaxLine -> "long"
                      [] Stops(l) = {} /\ l.len <= MaxLine /\ l.kind \notin {"skip", "entry"} ->
                           l.kind
                      [] OTHER -> "none"
           Keep == /\ wrong = "none" /\ (l.kind = "entry" => ~Full(s))
                   /\ items' = IF l.kind = "entry" THEN [items EXCEPT ![which] = Append(@, e)]
                               ELSE items
                   /\ total' = total + Size(l)
                   /\ UNCHANGED <<phase, which, merge, status, error>>
<1>1. /\ phase = "read" /\ files' = [files EXCEPT ![which] = Append(@, l)]
      /\ which \in {1, 2} /\ TypeOK
  BY DEF ReadLine, IInv, TypeOK
<1>2. F \in Seq(Lines) /\ s \in Seq(Entry) /\ Len(s) \in Nat
  BY <1>1, Pieces DEF IInv
<1>3. \A w \in {1, 2} : files'[w] = IF w = which THEN G ELSE files[w]
  <2>1. G \in Seq(Lines)
    BY <1>2
  <2>2. files \in Seq(Seq(Lines)) /\ Len(files) = 2
    BY DEF IInv, TypeOK
  <2> QED
    BY <1>1, <2>1, <2>2, PairUpdate
<1>4. Accounted(F, s, total)
  BY <1>1 DEF LegalInv, Account
<1>5. IsFiniteSet(Bytes(F)) /\ Cardinality(Bytes(F)) = total
  BY <1>4 DEF Accounted
<1>6. \/ wrong # "none" /\ Reject(wrong)
      \/ l.kind = "entry" /\ Full(s) /\ Reject("entries")
      \/ Reject("alloc")
      \/ Keep
  BY DEF ReadLine
<1>7. files'[which] = G /\ (which = 2 => files'[1] = files[1])
  <2> HIDE DEF G
  <2>1. files'[which] = G
    BY <1>1, <1>3
  <2>2. 1 \in {1, 2} /\ 1 # 2
    OBVIOUS
  <2>3. which = 2 => files'[1] = files[1]
    BY <1>3, <2>2
  <2> QED
    BY <2>1, <2>3
<1>8. e \in Entry
  BY SizeIsNat DEF Entry
<1> DEFINE t == IF l.kind = "entry" THEN Append(s, e) ELSE s
<1>9. PICK on : Matches(G, t, on)
  <2>1. PICK at : Matches(F, s, at)
    BY <1>4 DEF Accounted
  <2> QED
    BY <1>2, <2>1, MoreEntries
<1>10. t \in Seq(Entry) /\ G \in Seq(Lines)
  <2> HIDE DEF e
  <2> QED
    BY <1>2, <1>8
<1>11. ASSUME wrong # "none", Reject(wrong) PROVE LegalInv'
  <2>1. wrong \in IllegalIn(G)
    BY <1>1, <1>2, <1>5, <1>11, BlameIsRight
  <2> HIDE DEF wrong, G
  <2> QED
    BY <1>7, <1>11, <2>1, RejectLegal
<1> HIDE DEF wrong
<1>12. ASSUME l.kind = "entry", Full(s), Reject("entries") PROVE LegalInv'
  <2>1. Len(t) = Len(s) + 1
    <3> HIDE DEF e
    <3> QED
      BY <1>2, <1>8, <1>12
  <2>2. Cardinality(EntryLines(G)) = Len(t)
    BY <1>9, <1>10, AsManyEntries
  <2>3. Cardinality(EntryLines(G)) > MaxEntries
    BY <1>2, <1>12, <2>1, <2>2, SysdiffAssumption DEF Full
  <2>4. "entries" \in IllegalIn(G)
    BY <2>3 DEF IllegalIn, Reasons, Wrong, EntryLines
  <2> HIDE DEF G
  <2> QED
    BY <1>7, <1>12, <2>4, RejectLegal
<1>13. ASSUME Reject("alloc") PROVE LegalInv'
  <2>1. "alloc" \notin Reasons
    BY DEF Reasons
  <2> QED
    BY <1>7, <1>13, <2>1, RejectLegal
<1>14. ASSUME Keep PROVE LegalInv'
  <2>1. UNCHANGED <<phase, which, status, error>> /\ phase' = "read" /\ total' = total + Size(l)
    BY <1>1, <1>14
  <2>2. Stops(l) = {} /\ wrong = "none"
    BY <1>1, <1>14, NothingWrong DEF wrong
  <2>3. items'[which] = t
    <3>1. items \in Seq(Seq(Entry)) /\ Len(items) = 2 /\ Append(s, e) \in Seq(Entry)
      <4> HIDE DEF e
      <4> QED
        BY <1>2, <1>8 DEF IInv, TypeOK
    <3> HIDE DEF e
    <3> QED
      BY <1>1, <1>14, <3>1, PairUpdate
  <2>4. which = 1 => files'[2] = <<>> /\ items'[2] = <<>>
    <3>1. which = 1 => files[2] = <<>> /\ items[2] = <<>>
      BY <1>1 DEF LegalInv, Account
    <3>2. which = 1 => items'[2] = items[2]
      <4>1. items \in Seq(Seq(Entry)) /\ Len(items) = 2 /\ Append(s, e) \in Seq(Entry)
        <5> HIDE DEF e
        <5> QED
          BY <1>2, <1>8 DEF IInv, TypeOK
      <4> HIDE DEF e
      <4> QED
        BY <1>1, <1>14, <4>1, PairUpdate
    <3> QED
      BY <1>1, <1>3, <3>1, <3>2
  <2>5. Clean(G)
    <3>1. l.nul = 0 /\ l.len <= MaxLine /\ l.kind \in {"skip", "entry"}
      <4>1. ~(l.nul > 0)
        BY <2>2 DEF Stops
      <4>2. l.nul \in Nat /\ l.len \in Nat /\ MaxLine \in Nat /\ l.kind \in Kinds
        BY SizeIsNat, SysdiffAssumption
      <4>3. ~(l.len > MaxLine)
        <5> SUFFICES ASSUME l.len > MaxLine PROVE FALSE
          OBVIOUS
        <5>1. wrong = "long"
          BY <2>2, <4>2 DEF wrong
        <5> QED
          BY <2>2, <5>1
      <4>4. l.len <= MaxLine
        BY <4>2, <4>3
      <4>5. l.kind \in {"skip", "entry"}
        BY <2>2, <4>2, <4>4 DEF wrong, Kinds
      <4> QED
        BY <4>1, <4>2, <4>4, <4>5
    <3>2. DOMAIN G = DOMAIN F \cup {Len(F) + 1} /\ G[Len(F) + 1] = l /\ \A i \in DOMAIN F : G[i] = F[i]
      BY <1>2, AppendRange
    <3>3. Clean(F)
      BY <1>4 DEF Accounted
    <3> HIDE DEF F, G
    <3> QED
      BY <3>1, <3>2, <3>3 DEF Clean
  <2>6. IsFiniteSet(Bytes(G)) /\ Cardinality(Bytes(G)) = total'
    BY <1>2, <1>5, <2>1, MoreBytes
  <2>7. Accounted(files'[which], items'[which], total')
    <3> HIDE DEF G, t
    <3> QED
      BY <1>7, <1>9, <2>3, <2>5, <2>6 DEF Accounted
  <2>8. Account'
    <3>1. Accounted(files[which], items[which], total)' = Accounted(files'[which'], items'[which'], total')
      BY DEF Accounted, Clean, Bytes, Size, Raw, Matches, EntryLines
    <3>2. error' = "none"
      BY <1>1, <2>1 DEF LegalInv, Account
    <3> QED
      BY <2>1, <2>4, <2>7, <3>1, <3>2 DEF Account
  <2>9. status' = 0 /\ error' \notin Reasons
    <3>1. status = 0 /\ error = "none"
      BY <1>1 DEF IInv, Early, LegalInv, Account
    <3> QED
      BY <2>1, <3>1 DEF Reasons
  <2>10. which' = 2 => IllegalIn(files'[1]) = {}
    BY <1>7, <2>1 DEF LegalInv
  <2>11. IllegalIn(files[1])' = IllegalIn(files'[1])
    BY DEF IllegalIn, Wrong
  <2> QED
    BY <2>1, <2>8, <2>9, <2>10, <2>11 DEF LegalInv
<1> QED
  BY <1>6, <1>11, <1>12, <1>13, <1>14

LEMMA OpenLegal ==
  ASSUME IInv, LegalInv, OpenFile
  PROVE  LegalInv'
<1>1. phase = "open" /\ files' = files /\ which \in {1, 2}
  BY DEF OpenFile, IInv, TypeOK
<1>2. CASE Reject("open")
  <2>1. "open" \notin Reasons
    BY DEF Reasons
  <2> QED
    BY <1>1, <1>2, <2>1, RejectLegal
<1>3. CASE phase' = "read" /\ total' = 0 /\ UNCHANGED <<which, items, merge, status, error>>
  <2>1. files'[which'] = <<>> /\ items'[which'] = <<>>
    BY <1>1, <1>3 DEF LegalInv, Account
  <2>2. Accounted(files'[which'], items'[which'], total')
    BY <1>3, <2>1, NoLines
  <2>3. Accounted(files[which], items[which], total)' = Accounted(files'[which'], items'[which'], total')
    BY DEF Accounted, Clean, Bytes, Size, Raw, Matches, EntryLines
  <2>4. Account'
    BY <1>1, <1>3, <2>2, <2>3 DEF LegalInv, Account
  <2>5. status = 0 /\ error = "none" /\ "none" \notin Reasons
    BY <1>1 DEF IInv, Early, LegalInv, Account, Reasons
  <2>6. IllegalIn(files[1])' = IllegalIn(files[1])
    BY <1>1 DEF IllegalIn, Wrong
  <2> QED
    BY <1>3, <2>4, <2>5, <2>6 DEF LegalInv
<1> QED
  BY <1>2, <1>3 DEF OpenFile

(* Two neighbours with one key are two lines with one key. *)
LEMMA DuplicateIsWrong ==
  ASSUME NEW F \in Seq(Lines), NEW s \in Seq(Entry), NEW at, Matches(F, s, at),
         NEW p \in Orders(Len(s)), HasDuplicate([i \in DOMAIN s |-> s[p[i]]])
  PROVE  "duplicate" \in IllegalIn(F)
<1>1. DOMAIN s = 1 .. Len(s) /\ Len(s) \in Nat
  OBVIOUS
<1>2. p \in [1 .. Len(s) -> 1 .. Len(s)] /\ \A i, j \in 1 .. Len(s) : p[i] = p[j] => i = j
  BY DEF Orders, Bijection, Injection, IsInjective
<1>3. PICK i \in 2 .. Len(s) : s[p[i - 1]].key = s[p[i]].key
  <2>1. [m \in DOMAIN s |-> s[p[m]]] \in [1 .. Len(s) -> Entry]
    BY <1>1, <1>2
  <2>2. Len([m \in DOMAIN s |-> s[p[m]]]) = Len(s)
    BY <1>1, <2>1, FunctionIsSeq
  <2> QED
    BY <1>1, <2>2 DEF HasDuplicate
<1>4. i \in 1 .. Len(s) /\ i - 1 \in 1 .. Len(s) /\ i - 1 # i
  BY <1>1
<1>5. PICK a \in 1 .. Len(s), b \in 1 .. Len(s) : a = p[i - 1] /\ b = p[i] /\ a # b
  <2>1. p[i - 1] \in 1 .. Len(s) /\ p[i] \in 1 .. Len(s)
    BY <1>2, <1>4
  <2>2. p[i - 1] # p[i]
    BY <1>2, <1>4
  <2> QED
    BY <2>1, <2>2
<1>6. /\ at[a] \in EntryLines(F) /\ at[b] \in EntryLines(F) /\ at[a] # at[b]
      /\ s[a].key = F[at[a]].key /\ s[b].key = F[at[b]].key
  BY <1>5 DEF Matches, Bijection, Injection, IsInjective
<1>7. F[at[a]].key = F[at[b]].key
  BY <1>3, <1>5, <1>6
<1>8. Wrong("duplicate", F)
  BY <1>6, <1>7 DEF Wrong, EntryLines
<1> QED
  BY <1>8 DEF IllegalIn, Reasons

(* Sorted, with no two neighbours alike: no two are alike. *)
LEMMA KeysAreApart ==
  ASSUME NEW s \in Seq(Entry), NEW p \in Orders(Len(s)),
         Strict([i \in DOMAIN s |-> s[p[i]]]), NEW i \in 1 .. Len(s), NEW j \in 1 .. Len(s),
         s[i].key = s[j].key
  PROVE  i = j
<1>1. DOMAIN s = 1 .. Len(s) /\ Len(s) \in Nat
  OBVIOUS
<1>2. PICK a \in 1 .. Len(s), b \in 1 .. Len(s) : p[a] = i /\ p[b] = j
  BY DEF Orders, Bijection, Surjection
<1>3. \A m, n \in 1 .. Len(s) : m < n => s[p[m]].key < s[p[n]].key
  BY <1>1 DEF Strict
<1>4. s[i].key \in Int
  BY <1>1, ItemKey
<1>5. ~(a < b) /\ ~(b < a)
  BY <1>2, <1>3, <1>4
<1> QED
  BY <1>2, <1>5

LEMMA EndLegal ==
  ASSUME IInv, LegalInv, EndOfFile
  PROVE  LegalInv'
<1> DEFINE F == files[which]
           s == items[which]
<1>1. phase = "read" /\ files' = files /\ which \in {1, 2} /\ status = 0 /\ error = "none"
  BY DEF EndOfFile, IInv, TypeOK, Early, LegalInv, Account
<1>2. F \in Seq(Lines) /\ s \in Seq(Entry) /\ Len(s) <= MaxEntries /\ total \in 0 .. MaxBytes
  BY <1>1, Pieces DEF IInv, TypeOK
<1>3. Accounted(F, s, total)
  BY <1>1 DEF LegalInv, Account
<1>4. IllegalIn(files[1])' = IllegalIn(files[1]) /\ IllegalIn(files[2])' = IllegalIn(files[2])
  BY <1>1 DEF IllegalIn, Wrong
<1>5. CASE Reject("close")
  <2>1. "close" \notin Reasons
    BY DEF Reasons
  <2> QED
    BY <1>1, <1>5, <2>1, RejectLegal
<1>6. ASSUME NEW p \in Orders(Len(s)), HasDuplicate([i \in DOMAIN s |-> s[p[i]]]), Reject("duplicate")
      PROVE  LegalInv'
  <2>1. PICK at : Matches(F, s, at)
    BY <1>3 DEF Accounted
  <2>2. "duplicate" \in IllegalIn(F)
    BY <1>2, <1>6, <2>1, DuplicateIsWrong
  <2> QED
    BY <1>1, <1>6, <2>2, RejectLegal
<1>7. ASSUME NEW p \in Orders(Len(s)), NEW sorted, sorted = [i \in DOMAIN s |-> s[p[i]]],
             Sorted(sorted), ~HasDuplicate(sorted),
             items' = [items EXCEPT ![which] = sorted],
             which' = 2, phase' = (IF which = 1 THEN "open" ELSE "diff"),
             UNCHANGED <<total, merge, status, error>>
      PROVE  LegalInv'
  <2>1. sorted \in Seq(Entry)
    BY <1>2, <1>7, SortKeeps
  <2>2. Strict(sorted)
    BY <1>7, <2>1, SortedIsStrict
  <2>3. \A i, j \in 1 .. Len(s) : s[i].key = s[j].key => i = j
    <3> HIDE DEF s
    <3> QED
      BY <1>2, <1>7, <2>2, KeysAreApart
  <2>4. IllegalIn(F) = {}
    <3> HIDE DEF F, s
    <3> QED
      BY <1>2, <1>3, <2>3, NothingIsWrong
  <2>5. status' = 0 /\ error' = "none" /\ "none" \notin Reasons
    BY <1>1, <1>7 DEF Reasons
  <2>6. CASE which = 1
    <3>1. files'[2] = <<>> /\ items[2] = <<>>
      BY <1>1, <2>6 DEF LegalInv, Account
    <3>2. items'[2] = items[2]
      BY <1>1, <1>7, <2>1, <2>6, PairUpdate DEF IInv, TypeOK
    <3>3. Account'
      BY <1>7, <2>5, <2>6, <3>1, <3>2 DEF Account
    <3> QED
      BY <1>4, <1>7, <2>4, <2>5, <2>6, <3>3 DEF LegalInv
  <2>7. CASE which = 2
    <3>1. IllegalIn(files[1]) = {}
      BY <2>7 DEF LegalInv
    <3>2. Account'
      BY <1>7, <2>5, <2>7 DEF Account
    <3> QED
      BY <1>4, <1>7, <2>4, <2>5, <2>7, <3>1, <3>2 DEF LegalInv
  <2> QED
    BY <1>1, <2>6, <2>7
<1>8. CASE \E p \in Orders(Len(s)) :
             LET sorted == [i \in DOMAIN s |-> s[p[i]]]
             IN  /\ Sorted(sorted)
                 /\ IF HasDuplicate(sorted)
                    THEN Reject("duplicate")
                    ELSE /\ items' = [items EXCEPT ![which] = sorted]
                         /\ IF which = 1 THEN which' = 2 /\ phase' = "open"
                                         ELSE which' = 2 /\ phase' = "diff"
                         /\ UNCHANGED <<total, merge, status, error>>
  BY <1>6, <1>7, <1>8
<1> QED
  BY <1>5, <1>8 DEF EndOfFile

LEMMA LegalStep == IInv /\ LegalInv /\ [Next]_vars => LegalInv'
<1> SUFFICES ASSUME IInv, LegalInv, [Next]_vars PROVE LegalInv'
  OBVIOUS
<1>1. ASSUME files' = files, UNCHANGED <<which, items, total>>,
             phase = "diff", phase' \in {"diff", "done"}, error' \in {error, "write"},
             phase' = "done" \/ error' = error
      PROVE  LegalInv'
  <2>1. which = 2 /\ error = "none"
    BY <1>1 DEF IInv, Content, LegalInv, Account
  <2>2. error' \notin Reasons
    BY <1>1, <2>1 DEF Reasons
  <2>3. /\ IllegalIn(files[1])' = IllegalIn(files[1]) /\ IllegalIn(files[2])' = IllegalIn(files[2])
        /\ IllegalIn(files[1]) = {} /\ IllegalIn(files[2]) = {}
    <3>1. IllegalIn(files[1])' = IllegalIn(files[1]) /\ IllegalIn(files[2])' = IllegalIn(files[2])
      BY <1>1 DEF IllegalIn, Wrong
    <3> QED
      BY <1>1, <3>1 DEF LegalInv
  <2>4. phase' # "done" => error' = "none"
    BY <1>1, <2>1
  <2>5. Account'
    BY <1>1, <2>1, <2>4 DEF Account
  <2> QED
    BY <2>2, <2>3, <2>5 DEF LegalInv
<1>2. CASE MergeStep
  BY <1>1, <1>2 DEF MergeStep, Emit, WriteError
<1>3. CASE Finish
  BY <1>1, <1>3 DEF Finish, WriteError
<1>4. CASE ReadError
  <2>1. "read" \notin Reasons /\ files' = files /\ Reject("read")
    BY <1>4 DEF Reasons, ReadError
  <2> QED
    BY <2>1, RejectLegal
<1>5. CASE UNCHANGED vars
  <2>1. UNCHANGED <<phase, which, items, total, status, error, files>>
    BY <1>5 DEF vars
  <2>2. Accounted(files[which], items[which], total)' = Accounted(files[which], items[which], total)
    BY <2>1 DEF Accounted, Clean, Bytes, Size, Raw, Matches, EntryLines
  <2>3. Account'
    BY <2>1, <2>2 DEF LegalInv, Account
  <2>4. /\ IllegalIn(files[1])' = IllegalIn(files[1]) /\ IllegalIn(files[2])' = IllegalIn(files[2])
        /\ IllegalIn(files[which])' = IllegalIn(files[which])
    BY <2>1 DEF IllegalIn, Wrong
  <2> QED
    BY <2>1, <2>3, <2>4 DEF LegalInv
<1> QED
  BY <1>2, <1>3, <1>4, <1>5, OpenLegal, ReadLegal, EndLegal DEF Next, Terminated

(* Which snapshots sysdiff compares, for all of them and all limits: those *)
(* with nothing wrong, and what it says is wrong with another is wrong     *)
(* with it. The counters it goes by agree with the lines read.             *)
THEOREM OnlyLegalSnapshots == Spec => []LegalSnapshotsOnly
<1>1. Init => LegalInv
  <2> SUFFICES ASSUME Init PROVE LegalInv
    OBVIOUS
  <2>1. /\ phase = "open" /\ which = 1 /\ error = "none" /\ status = 0
        /\ files[1] = <<>> /\ items[1] = <<>> /\ files[2] = <<>> /\ items[2] = <<>>
    BY DEF Init
  <2> QED
    BY <2>1 DEF LegalInv, Account, Reasons
<1>2. LegalInv => LegalSnapshotsOnly
  BY DEF LegalInv, LegalSnapshotsOnly, Illegal, IllegalIn
<1> QED
  BY <1>1, <1>2, LegalStep, Invariant, PTL DEF Spec


-----------------------------------------------------------------------------
(* A printed value reads back. *)

(* The order of the naturals, as a set of pairs, is well-founded. *)
LEMMA NaturalOrder ==
  \E R : IsWellFoundedOn(R, Nat) /\ \A m, n \in Nat : n < m => <<n, m>> \in R
<1>1. \A m, n \in Nat : n < m => <<n, m>> \in OpToRel(<, Nat)
  BY DEF OpToRel
<1> QED
  BY <1>1, NatLessThanWellFounded, Zenon

(* A set that contains zero and with each number the next one has them all. *)
LEMMA EveryNatural ==
  ASSUME NEW S, 0 \in S, \A n \in Nat : n \in S => n + 1 \in S
  PROVE  Nat \subseteq S
<1>1. SUFFICES ASSUME Nat \ S # {} PROVE FALSE
  OBVIOUS
<1>2. PICK R : IsWellFoundedOn(R, Nat) /\ \A m, n \in Nat : n < m => <<n, m>> \in R
  BY NaturalOrder
<1>3. PICK m \in Nat \ S : \A n \in Nat \ S : ~(<<n, m>> \in R)
  <2>1. Nat \ S \subseteq Nat
    OBVIOUS
  <2> QED
    BY <1>1, <1>2, <2>1, WFMin
<1>4. m # 0 /\ m - 1 \in Nat /\ m - 1 < m /\ (m - 1) + 1 = m
  BY <1>3
<1>5. m - 1 \in S
  BY <1>2, <1>3, <1>4
<1> QED
  BY <1>3, <1>4, <1>5

(* The sequences up to each place, one after the other. *)
Flattening(f, s, n) == f = [m \in 1 .. n |-> IF m = 1 THEN s[m] ELSE f[m - 1] \o s[m]]

LEMMA FlatteningIsPossible ==
  ASSUME NEW s, NEW n \in Nat
  PROVE  \E f : Flattening(f, s, n)
<1> DEFINE S == {m \in Nat : \E f : Flattening(f, s, m)}
<1>1. 0 \in S
  <2> DEFINE f == [m \in 1 .. 0 |-> <<>>]
  <2>1. f = [m \in 1 .. 0 |-> IF m = 1 THEN s[m] ELSE f[m - 1] \o s[m]]
    OBVIOUS
  <2> HIDE DEF f
  <2> QED
    BY <2>1 DEF Flattening
<1>2. ASSUME NEW m \in Nat, m \in S PROVE m + 1 \in S
  <2>1. PICK f : Flattening(f, s, m)
    BY <1>2
  <2> DEFINE Next1(g, l) == IF l = 1 THEN s[l] ELSE g[l - 1] \o s[l]
             g == [l \in 1 .. m + 1 |-> IF l = m + 1 THEN Next1(f, m + 1) ELSE f[l]]
  <2>2. f = [l \in 1 .. m |-> Next1(f, l)]
    BY <2>1 DEF Flattening
  <2> HIDE DEF Next1
  <2>3. ASSUME NEW l \in 1 .. m + 1 PROVE g[l] = Next1(g, l)
    <3>1. l # 1 => l - 1 \in 1 .. m + 1 /\ l - 1 # m + 1
      OBVIOUS
    <3>2. l # 1 => g[l - 1] = f[l - 1]
      BY <3>1
    <3>3. Next1(g, l) = Next1(f, l)
      BY <3>2 DEF Next1
    <3>4. l # m + 1 => l \in 1 .. m
      OBVIOUS
    <3>5. l # m + 1 => f[l] = Next1(f, l)
      BY <2>2, <3>4
    <3> QED
      BY <3>3, <3>5
  <2>4. g = [l \in 1 .. m + 1 |-> Next1(g, l)]
    BY <2>3
  <2>5. Flattening(g, s, m + 1)
    BY <2>4 DEF Flattening, Next1
  <2> HIDE DEF g
  <2> QED
    BY <2>5
<1> HIDE DEF S
<1>3. Nat \subseteq S
  BY <1>1, <1>2, EveryNatural
<1> QED
  BY <1>3 DEF S

LEMMA CodeIs ==
  ASSUME NEW v \in Values, NEW i \in 1 .. Len(v)
  PROVE  /\ Code(v, i) \in Seq(Chars) /\ v[i] \in Chars
         /\ Code(v, i) \in {<<v[i]>>, <<"bs", "bs">>, <<"bs", "x", "hex">>, <<"bs", "x", "3E">>}
         /\ Code(v, i) = <<"bs", "bs">> <=> v[i] = "bs"
         /\ Code(v, i) = <<"bs", "x", "hex">> <=> v[i] = "raw"
         /\ Code(v, i) = <<"bs", "x", "3E">> => v[i] = "gt"
         /\ v[i] = "gt" /\ i > 2 /\ v[i - 2] = "sp" /\ v[i - 1] = "hy" => Code(v, i) # <<v[i]>>
<1>1. v[i] \in Chars
  BY DEF Values
<1>2. Code(v, i) \in {<<v[i]>>, <<"bs", "bs">>, <<"bs", "x", "hex">>, <<"bs", "x", "3E">>}
  BY DEF Code
<1>3. "bs" # "raw" /\ "bs" # "gt" /\ "raw" # "gt" /\ "hex" # "3E" /\ i \in Int
  OBVIOUS
<1> DEFINE c == v[i]
<1>4. /\ c = "bs" => Code(v, i) = <<"bs", "bs">>
      /\ c = "raw" => Code(v, i) = <<"bs", "x", "hex">>
      /\ c \notin {"bs", "raw"} => Code(v, i) \in {<<c>>, <<"bs", "x", "3E">>}
      /\ c # "gt" /\ c \notin {"bs", "raw"} => Code(v, i) = <<c>>
      /\ (c = "gt" /\ i > 2 /\ v[i - 2] = "sp" /\ v[i - 1] = "hy")
            => Code(v, i) = <<"bs", "x", "3E">>
  BY <1>3 DEF Code
<1> HIDE DEF c
<1>5. /\ <<c>> # <<"bs", "bs">> /\ <<c>> # <<"bs", "x", "hex">> /\ <<c>> # <<"bs", "x", "3E">>
      /\ <<"bs", "bs">> # <<"bs", "x", "hex">> /\ <<"bs", "bs">> # <<"bs", "x", "3E">>
      /\ <<"bs", "x", "hex">> # <<"bs", "x", "3E">>
  BY SMT
<1>6. Code(v, i) \in Seq(Chars)
  <2>1. c \in Chars
    BY <1>1 DEF c
  <2>2. <<c>> \in Seq(Chars)
    BY <2>1
  <2>3. <<"bs", "bs">> \in Seq(Chars) /\ <<"bs", "x", "hex">> \in Seq(Chars)
        /\ <<"bs", "x", "3E">> \in Seq(Chars)
    BY DEF Chars
  <2> QED
    BY <1>2, <2>2, <2>3 DEF c
<1>7. Code(v, i) = <<"bs", "bs">> <=> c = "bs"
  BY <1>4, <1>5
<1>8. Code(v, i) = <<"bs", "x", "hex">> <=> c = "raw"
  BY <1>4, <1>5
<1>9. Code(v, i) = <<"bs", "x", "3E">> => c = "gt"
  BY <1>4, <1>5
<1> QED
  BY <1>1, <1>2, <1>4, <1>5, <1>6, <1>7, <1>8, <1>9 DEF c

(* What was printed when the k-th character had been. *)
LEMMA EscapedInSteps ==
  ASSUME NEW v \in Values
  PROVE  \E g : /\ g[0] = <<>> /\ g[Len(v)] = Escaped(v)
                /\ \A k \in 0 .. Len(v) : g[k] \in Seq(Chars)
                /\ \A k \in 0 .. Len(v) - 1 : g[k + 1] = g[k] \o Code(v, k + 1)
<1>1. Len(v) \in Nat /\ DOMAIN v = 1 .. Len(v)
  BY DEF Values
<1> DEFINE n == Len(v)
           s == [i \in DOMAIN v |-> Code(v, i)]
<1>2. Len(s) = n /\ \A i \in 1 .. n : s[i] = Code(v, i)
  BY <1>1
<1>3. PICK f : /\ Flattening(f, s, n)
               /\ n # 0 => Escaped(v) = f[n]
  <2> DEFINE f == CHOOSE g : Flattening(g, s, n)
  <2>1. Flattening(f, s, n)
    BY <1>1, FlatteningIsPossible
  <2>2. n # 0 => Escaped(v) = f[n]
    BY <1>2 DEF Escaped, FlattenSeq, Flattening
  <2> QED
    BY <2>1, <2>2
<1>4. n = 0 => Escaped(v) = <<>>
  BY <1>1, <1>2 DEF Escaped, FlattenSeq
<1> DEFINE g == [k \in 0 .. n |-> IF k = 0 THEN <<>> ELSE f[k]]
<1>5. g[0] = <<>> /\ g[n] = Escaped(v)
  BY <1>1, <1>3, <1>4
<1>6. ASSUME NEW k \in 0 .. n - 1 PROVE g[k + 1] = g[k] \o Code(v, k + 1)
  <2>1. k + 1 \in 1 .. n /\ k + 1 # 0 /\ k + 1 \in 0 .. n /\ k \in 0 .. n /\ (k + 1) - 1 = k
    BY <1>1
  <2>2. g[k + 1] = f[k + 1]
    BY <2>1
  <2>3. f[k + 1] = IF k + 1 = 1 THEN s[k + 1] ELSE f[(k + 1) - 1] \o s[k + 1]
    BY <1>3, <2>1 DEF Flattening
  <2>4. s[k + 1] = Code(v, k + 1) /\ Code(v, k + 1) \in Seq(Chars)
    BY <1>2, <2>1, CodeIs
  <2>5. CASE k = 0
    <3>1. g[k] = <<>> /\ g[k + 1] = Code(v, k + 1)
      BY <2>1, <2>2, <2>3, <2>4, <2>5
    <3>2. <<>> \o Code(v, k + 1) = Code(v, k + 1)
      BY <2>4, ConcatEmptySeq
    <3> QED
      BY <3>1, <3>2
  <2>6. CASE k # 0
    <3>1. g[k] = f[k] /\ k + 1 # 1
      BY <2>1, <2>6
    <3> QED
      BY <2>1, <2>2, <2>3, <2>4, <3>1
  <2> QED
    BY <2>5, <2>6
<1> HIDE DEF g, s
<1>7. \A k \in 0 .. n : g[k] \in Seq(Chars)
  <2> DEFINE S == {k \in Nat : k <= n => g[k] \in Seq(Chars)}
  <2>1. 0 \in S
    <3>1. <<>> \in Seq(Chars)
      OBVIOUS
    <3> QED
      BY <1>5, <3>1
  <2>2. ASSUME NEW k \in Nat, k \in S PROVE k + 1 \in S
    <3> SUFFICES ASSUME k + 1 <= n PROVE g[k + 1] \in Seq(Chars)
      OBVIOUS
    <3>1. k \in 0 .. n - 1 /\ k <= n /\ k + 1 \in 1 .. n
      BY <1>1
    <3>2. g[k] \in Seq(Chars) /\ Code(v, k + 1) \in Seq(Chars)
      BY <2>2, <3>1, CodeIs
    <3>3. g[k] \o Code(v, k + 1) \in Seq(Chars)
      BY <3>2, ConcatProperties
    <3> QED
      BY <1>6, <3>1, <3>3
  <2> HIDE DEF S
  <2>3. Nat \subseteq S
    BY <2>1, <2>2, EveryNatural
  <2> QED
    BY <2>3 DEF S
<1> QED
  BY <1>5, <1>6, <1>7


LEMMA Regroup ==
  ASSUME NEW a \in Seq(Chars), NEW b \in Seq(Chars), NEW c \in Seq(Chars)
  PROVE  (a \o b) \o c = a \o (b \o c)
BY ConcatAssociative

LEMMA CancelLeft ==
  ASSUME NEW S, NEW a \in Seq(S), NEW b \in Seq(S), NEW c \in Seq(S), a \o b = a \o c
  PROVE  b = c
BY ConcatSimplifications, Zenon

(* What is still to be read once k characters have been. *)
Reading(h, v, y) ==
  /\ h[0] = Escaped(v) \o y /\ h[Len(v)] = y
  /\ \A k \in 0 .. Len(v) : h[k] \in Seq(Chars)
  /\ \A k \in 0 .. Len(v) - 1 : h[k] = Code(v, k + 1) \o h[k + 1]

LEMMA ReadingIsPossible ==
  ASSUME NEW v \in Values, NEW y \in Seq(Chars)
  PROVE  \E h : Reading(h, v, y)
<1> DEFINE n == Len(v)
<1>1. n \in Nat
  BY DEF Values
<1>2. PICK g : /\ g[0] = <<>> /\ g[n] = Escaped(v)
               /\ \A k \in 0 .. n : g[k] \in Seq(Chars)
               /\ \A k \in 0 .. n - 1 : g[k + 1] = g[k] \o Code(v, k + 1)
  BY EscapedInSteps, Zenon
<1> HIDE DEF n
<1>12. PICK T : T = Escaped(v) \o y
  OBVIOUS
(* Of every prefix that was printed there is a rest. *)
<1>3. \A k \in 0 .. n : \E r \in Seq(Chars) : T = g[k] \o r
  <2> DEFINE S == {d \in Nat : d <= n => \E r \in Seq(Chars) : T = g[n - d] \o r}
  <2>1. 0 \in S
    <3>1. n - 0 = n /\ 0 <= n
      BY <1>1
    <3>2. T = g[n - 0] \o y
      BY <1>2, <1>12, <3>1
    <3> QED
      BY <3>2
  <2>2. ASSUME NEW d \in Nat, d \in S PROVE d + 1 \in S
    <3> DEFINE k == n - (d + 1)
    <3> SUFFICES ASSUME d + 1 <= n PROVE \E r \in Seq(Chars) : T = g[k] \o r
      BY SMTT(30)
    <3>1. k \in 0 .. n - 1 /\ k \in 0 .. n /\ n - d = k + 1 /\ d <= n
      BY <1>1
    <3> HIDE DEF k
    <3>2. PICK r \in Seq(Chars) : T = g[k + 1] \o r
      BY <2>2, <3>1
    <3>3. k + 1 \in 1 .. Len(v)
      BY <1>1, <3>1 DEF n
    <3>4. Code(v, k + 1) \in Seq(Chars) /\ g[k] \in Seq(Chars)
      BY <1>2, <3>1, <3>3, CodeIs
    <3>5. (g[k] \o Code(v, k + 1)) \o r = g[k] \o (Code(v, k + 1) \o r)
      BY <3>4, Regroup
    <3>6. Code(v, k + 1) \o r \in Seq(Chars)
      BY <3>4, ConcatProperties
    <3>7. T = g[k] \o (Code(v, k + 1) \o r)
      BY <1>2, <3>1, <3>2, <3>5
    <3> QED
      BY <3>6, <3>7
  <2> HIDE DEF S
  <2>3. Nat \subseteq S
    BY <2>1, <2>2, EveryNatural
  <2>4. ASSUME NEW k \in 0 .. n PROVE \E r \in Seq(Chars) : T = g[k] \o r
    <3>1. n - k \in Nat /\ n - k <= n /\ n - (n - k) = k
      BY <1>1
    <3>2. n - k \in S
      BY <2>3, <3>1
    <3> QED
      BY <3>1, <3>2 DEF S
  <2> QED
    BY <2>4
<1> DEFINE h == [k \in 0 .. n |-> CHOOSE r \in Seq(Chars) : T = g[k] \o r]
<1>4. \A k \in 0 .. n : h[k] \in Seq(Chars) /\ T = g[k] \o h[k]
  BY <1>3
<1> HIDE DEF h
<1>5. Escaped(v) \in Seq(Chars)
  BY <1>1, <1>2
<1>7. 0 \in 0 .. n /\ n \in 0 .. n
  BY <1>1
<1>8. h[0] = T
  <2>1. T = <<>> \o h[0] /\ h[0] \in Seq(Chars)
    BY <1>2, <1>4, <1>7
  <2> QED
    BY <2>1, ConcatEmptySeq
<1>9. h[n] = y
  <2>1. T = g[n] \o h[n] /\ h[n] \in Seq(Chars)
    BY <1>4, <1>7
  <2>2. Escaped(v) \o h[n] = Escaped(v) \o y
    BY <1>2, <1>12, <2>1
  <2> QED
    BY <1>5, <2>1, <2>2, CancelLeft
<1>10. ASSUME NEW k \in 0 .. n - 1 PROVE h[k] = Code(v, k + 1) \o h[k + 1]
  <2>1. k + 1 \in 1 .. Len(v) /\ k \in 0 .. n /\ k + 1 \in 0 .. n
    BY <1>1 DEF n
  <2>2. /\ Code(v, k + 1) \in Seq(Chars) /\ g[k] \in Seq(Chars)
        /\ h[k] \in Seq(Chars) /\ h[k + 1] \in Seq(Chars)
        /\ T = g[k] \o h[k] /\ T = g[k + 1] \o h[k + 1]
    BY <1>2, <1>4, <2>1, CodeIs
  <2>3. (g[k] \o Code(v, k + 1)) \o h[k + 1] = g[k] \o (Code(v, k + 1) \o h[k + 1])
    BY <2>2, Regroup
  <2>4. g[k] \o h[k] = g[k] \o (Code(v, k + 1) \o h[k + 1])
    BY <1>2, <2>2, <2>3
  <2>5. Code(v, k + 1) \o h[k + 1] \in Seq(Chars)
    BY <2>2, ConcatProperties
  <2> QED
    BY <2>2, <2>4, <2>5, CancelLeft
<1>11. Reading(h, v, y)
  BY <1>4, <1>8, <1>9, <1>10, <1>12 DEF Reading, n
<1> QED
  BY <1>11

(* The code at the front of a text. *)
Token(T) ==
  IF T[1] # "bs" THEN <<T[1]>> ELSE IF T[2] = "bs" THEN <<"bs", "bs">> ELSE <<"bs", "x", T[3]>>

LEMMA TokenIsCode ==
  ASSUME NEW v \in Values, NEW i \in 1 .. Len(v), NEW a \in Seq(Chars)
  PROVE  Token(Code(v, i) \o a) = Code(v, i)
<1>1. v[i] \in Chars /\ (v[i] = "bs" => Code(v, i) = <<"bs", "bs">>)
  BY CodeIs
<1>2. CASE Code(v, i) = <<v[i]>> /\ v[i] # "bs"
  <2>1. <<v[i]>> \in Seq(Chars) /\ Len(<<v[i]>>) = 1 /\ <<v[i]>>[1] = v[i]
    BY <1>1
  <2>2. (<<v[i]>> \o a)[1] = v[i]
    BY <2>1, ConcatProperties
  <2> QED
    BY <1>2, <2>2 DEF Token
<1>3. CASE Code(v, i) = <<"bs", "bs">>
  <2>1. (<<"bs", "bs">> \o a)[1] = "bs" /\ (<<"bs", "bs">> \o a)[2] = "bs"
    OBVIOUS
  <2> QED
    BY <1>3, <2>1 DEF Token
<1>4. ASSUME NEW d \in {"hex", "3E"}, Code(v, i) = <<"bs", "x", d>>
      PROVE  Token(Code(v, i) \o a) = Code(v, i)
  <2> DEFINE c == <<"bs", "x", d>>
  <2>1. (c \o a)[1] = "bs" /\ (c \o a)[2] = "x" /\ (c \o a)[3] = d
    OBVIOUS
  <2> HIDE DEF c
  <2>2. Token(c \o a) = <<"bs", "x", d>>
    BY <2>1 DEF Token
  <2> QED
    BY <1>4, <2>2 DEF c
<1> QED
  BY <1>1, <1>2, <1>3, <1>4, CodeIs

(* A code stands for one character. *)
LEMMA CodeReadsBack ==
  ASSUME NEW u \in Values, NEW v \in Values, NEW i \in 1 .. Len(u), i \in 1 .. Len(v),
         Code(u, i) = Code(v, i)
  PROVE  u[i] = v[i]
<1> DEFINE c == Code(u, i)
<1>1. /\ c = Code(u, i) /\ c = Code(v, i)
      /\ c \in {<<u[i]>>, <<"bs", "bs">>, <<"bs", "x", "hex">>, <<"bs", "x", "3E">>}
      /\ c \in {<<v[i]>>, <<"bs", "bs">>, <<"bs", "x", "hex">>, <<"bs", "x", "3E">>}
      /\ c = <<"bs", "bs">> <=> u[i] = "bs"
      /\ c = <<"bs", "bs">> <=> v[i] = "bs"
      /\ c = <<"bs", "x", "hex">> <=> u[i] = "raw"
      /\ c = <<"bs", "x", "hex">> <=> v[i] = "raw"
      /\ c = <<"bs", "x", "3E">> => u[i] = "gt"
      /\ c = <<"bs", "x", "3E">> => v[i] = "gt"
  BY CodeIs
<1> HIDE DEF c
<1>2. c = <<u[i]>> /\ c = <<v[i]>> => u[i] = v[i]
  OBVIOUS
<1> QED
  BY <1>1, <1>2


(* Two values read alike as long as neither has been read to its end. *)
LEMMA ReadAlike ==
  ASSUME NEW u \in Values, NEW v \in Values, NEW g, NEW h, NEW x, NEW y,
         Reading(g, u, x), Reading(h, v, y), g[0] = h[0],
         NEW k \in Nat, k <= Len(u), k <= Len(v)
  PROVE  g[k] = h[k] /\ \A i \in 1 .. k : u[i] = v[i]
<1> DEFINE P(j) == g[j] = h[j] /\ \A i \in 1 .. j : u[i] = v[i]
           S == {j \in Nat : j <= Len(u) /\ j <= Len(v) => P(j)}
<1>1. Len(u) \in Nat /\ Len(v) \in Nat
  BY DEF Values
<1>2. 0 \in S
  OBVIOUS
<1>3. ASSUME NEW j \in Nat, j \in S PROVE j + 1 \in S
  <2> SUFFICES ASSUME j + 1 <= Len(u), j + 1 <= Len(v) PROVE P(j + 1)
    OBVIOUS
  <2>1. /\ j + 1 \in 1 .. Len(u) /\ j + 1 \in 1 .. Len(v)
        /\ j \in 0 .. Len(u) - 1 /\ j \in 0 .. Len(v) - 1
        /\ j + 1 \in 0 .. Len(u) /\ j + 1 \in 0 .. Len(v)
        /\ j <= Len(u) /\ j <= Len(v)
    BY <1>1
  <2>2. P(j)
    BY <1>3, <2>1
  <2>3. g[j] = Code(u, j + 1) \o g[j + 1] /\ g[j + 1] \in Seq(Chars)
    BY <2>1 DEF Reading
  <2>4. h[j] = Code(v, j + 1) \o h[j + 1] /\ h[j + 1] \in Seq(Chars)
    BY <2>1 DEF Reading
  <2>5. Token(g[j]) = Code(u, j + 1)
    BY <2>1, <2>3, TokenIsCode
  <2>6. Token(h[j]) = Code(v, j + 1)
    BY <2>1, <2>4, TokenIsCode
  <2>7. Code(u, j + 1) = Code(v, j + 1)
    BY <2>2, <2>5, <2>6
  <2>8. u[j + 1] = v[j + 1]
    BY <2>1, <2>7, CodeReadsBack
  <2>9. Code(u, j + 1) \in Seq(Chars)
    BY <2>1, CodeIs
  <2>10. Code(u, j + 1) \o g[j + 1] = Code(u, j + 1) \o h[j + 1]
    BY <2>2, <2>3, <2>4, <2>7
  <2>11. g[j + 1] = h[j + 1]
    BY <2>3, <2>4, <2>9, <2>10, CancelLeft
  <2>12. ASSUME NEW i \in 1 .. j + 1 PROVE u[i] = v[i]
    <3>1. i \in 1 .. j \/ i = j + 1
      OBVIOUS
    <3> QED
      BY <2>2, <2>8, <3>1
  <2> QED
    BY <2>11, <2>12
<1> HIDE DEF S
<1>4. Nat \subseteq S
  BY <1>2, <1>3, EveryNatural
<1> QED
  BY <1>4 DEF S

(* What may follow a value on its line: nothing, or the arrow. *)
Follows(x) ==
  /\ x \in Seq(Chars)
  /\ x # <<>> => Len(x) >= 3 /\ x[1] = "sp" /\ x[2] = "hy" /\ x[3] = "gt"

(* The next character of a text that does not start with a backslash is    *)
(* the first of the text.                                                  *)
LEMMA NextCharacter ==
  ASSUME NEW v \in Values, NEW h, NEW y, Reading(h, v, y),
         NEW k \in 0 .. Len(v) - 1, NEW c \in Chars \ {"bs"}, h[k][1] = c
  PROVE  /\ v[k + 1] = c /\ Code(v, k + 1) = <<c>>
         /\ Len(h[k]) \in Nat /\ Len(h[k + 1]) = Len(h[k]) - 1
         /\ \A j \in 1 .. Len(h[k]) - 1 : h[k + 1][j] = h[k][j + 1]
<1>1. Len(v) \in Nat /\ k + 1 \in 1 .. Len(v) /\ k + 1 \in 0 .. Len(v)
  BY DEF Values
<1>2. h[k] = Code(v, k + 1) \o h[k + 1] /\ h[k + 1] \in Seq(Chars)
  BY <1>1 DEF Reading
<1>3. Token(h[k]) = Code(v, k + 1)
  BY <1>1, <1>2, TokenIsCode
<1>4. Code(v, k + 1) = <<c>>
  BY <1>3 DEF Token
<1>5. <<c>> # <<"bs", "bs">> /\ <<c>> # <<"bs", "x", "hex">> /\ <<c>> # <<"bs", "x", "3E">>
  BY SMT
<1>6. <<c>> = <<v[k + 1]>>
  BY <1>1, <1>4, <1>5, CodeIs
<1>7. v[k + 1] = c
  BY <1>6
<1> DEFINE t == h[k + 1]
<1>8. t \in Seq(Chars) /\ h[k] = <<c>> \o t
  BY <1>2, <1>4
<1> HIDE DEF t
<1>9. Len(<<c>> \o t) = Len(t) + 1 /\ Len(t) \in Nat
  BY <1>8
<1>10. ASSUME NEW j \in 1 .. Len(t) PROVE (<<c>> \o t)[j + 1] = t[j]
  BY <1>8
<1>11. Len(h[k]) \in Nat /\ Len(h[k]) - 1 = Len(t)
  BY <1>8, <1>9
<1> QED
  BY <1>4, <1>7, <1>8, <1>10, <1>11 DEF t

(* The arrow is never taken for a part of a value: its ">" would have been *)
(* escaped.                                                                *)
LEMMA NotInTheMiddle ==
  ASSUME NEW u \in Values, NEW v \in Values, NEW g, NEW h, NEW x, NEW y,
         Reading(g, u, x), Reading(h, v, y), g[0] = h[0], Follows(x), Follows(y)
  PROVE  ~(Len(u) < Len(v))
<1> SUFFICES ASSUME Len(u) < Len(v) PROVE FALSE
  OBVIOUS
<1>1. PICK k \in Nat : k = Len(u)
  BY DEF Values
<1>2. PICK n \in Nat : n = Len(v)
  BY DEF Values
<1>3. k < n /\ h[n] = y
  BY <1>1, <1>2 DEF Reading
<1>4. h[k] = x
  <2>1. g[k] = h[k]
    BY <1>1, <1>2, <1>3, ReadAlike
  <2> QED
    BY <1>1, <2>1 DEF Reading
<1>5. x # <<>>
  <2>1. k + 1 \in 1 .. Len(v) /\ k \in 0 .. Len(v) - 1 /\ k + 1 \in 0 .. Len(v)
    BY <1>2, <1>3
  <2>2. x = Code(v, k + 1) \o h[k + 1] /\ h[k + 1] \in Seq(Chars) /\ Code(v, k + 1) \in Seq(Chars)
    BY <1>4, <2>1, CodeIs DEF Reading
  <2>3. Code(v, k + 1) # <<>>
    <3>1. PICK c : c = Code(v, k + 1)
      OBVIOUS
    <3>2. c \in {<<v[k + 1]>>, <<"bs", "bs">>, <<"bs", "x", "hex">>, <<"bs", "x", "3E">>}
      BY <2>1, <3>1, CodeIs
    <3>3. ASSUME NEW a PROVE Len(<<a>>) = 1
      OBVIOUS
    <3>4. Len(<<"bs", "bs">>) = 2 /\ Len(<<"bs", "x", "hex">>) = 3 /\ Len(<<"bs", "x", "3E">>) = 3
      OBVIOUS
    <3>5. Len(c) \in {1, 2, 3}
      BY <3>2, <3>3, <3>4, Zenon
    <3>6. Len(c) # 0
      <4> DEFINE size == Len(c)
      <4>1. size \in {1, 2, 3}
        BY <3>5
      <4> HIDE DEF size
      <4>2. size # 0
        BY <4>1
      <4> QED
        BY <4>2 DEF size
    <3>7. Len(<<>>) = 0
      OBVIOUS
    <3> QED
      BY <3>1, <3>6, <3>7, Zenon
  <2> QED
    BY <2>2, <2>3, ConcatEqualIffEmpty
<1>6. Len(x) >= 3 /\ x[1] = "sp" /\ x[2] = "hy" /\ x[3] = "gt"
  BY <1>5 DEF Follows
<1>7. "sp" \in Chars \ {"bs"} /\ "hy" \in Chars \ {"bs"} /\ "gt" \in Chars \ {"bs"}
  BY DEF Chars
<1>8. /\ v[k + 1] = "sp" /\ Len(h[k + 1]) = Len(x) - 1
      /\ h[k + 1][1] = "hy" /\ h[k + 1][2] = "gt"
  <2>1. k \in 0 .. Len(v) - 1
    BY <1>2, <1>3
  <2>2. /\ v[k + 1] = "sp" /\ Len(x) \in Nat /\ Len(h[k + 1]) = Len(x) - 1
        /\ \A j \in 1 .. Len(x) - 1 : h[k + 1][j] = x[j + 1]
    BY <1>4, <1>6, <1>7, <2>1, NextCharacter, SMTT(30)
  <2>3. 1 \in 1 .. Len(x) - 1 /\ 2 \in 1 .. Len(x) - 1 /\ 1 + 1 = 2 /\ 2 + 1 = 3
    BY <1>6, <2>2
  <2>4. h[k + 1][1] = x[2] /\ h[k + 1][2] = x[3]
    BY <2>2, <2>3
  <2> QED
    BY <1>6, <2>2, <2>4, Zenon
<1>9. ASSUME NEW w, Follows(w), w[1] # "sp", Len(w) # 0 PROVE FALSE
  BY <1>9 DEF Follows
<1>10. Len(x) \in Nat
  BY DEF Follows
<1>11. k + 1 # n
  BY <1>3, <1>6, <1>8, <1>9, <1>10
<1>12. /\ v[k + 2] = "hy" /\ Len(h[k + 2]) = Len(x) - 2 /\ h[k + 2][1] = "gt"
  <2>1. k + 1 \in 0 .. Len(v) - 1 /\ (k + 1) + 1 = k + 2
    BY <1>2, <1>3, <1>11
  <2>2. /\ v[k + 2] = "hy" /\ Len(h[k + 2]) = Len(h[k + 1]) - 1
        /\ \A j \in 1 .. Len(h[k + 1]) - 1 : h[k + 2][j] = h[k + 1][j + 1]
    BY <1>7, <1>8, <2>1, NextCharacter, SMTT(30)
  <2>3. 1 \in 1 .. Len(h[k + 1]) - 1 /\ (Len(x) - 1) - 1 = Len(x) - 2 /\ 1 + 1 = 2
    BY <1>6, <1>8, <1>10
  <2>4. h[k + 2][1] = h[k + 1][2]
    BY <2>2, <2>3
  <2>5. Len(h[k + 2]) = Len(x) - 2
    BY <1>8, <2>2, <2>3
  <2> QED
    BY <1>8, <2>2, <2>4, <2>5, Zenon
<1>13. k + 2 # n
  BY <1>3, <1>6, <1>9, <1>10, <1>12
<1>14. v[k + 3] = "gt" /\ Code(v, k + 3) = <<"gt">>
  <2>1. k + 2 \in 0 .. Len(v) - 1 /\ (k + 2) + 1 = k + 3
    BY <1>2, <1>3, <1>11, <1>13
  <2> QED
    BY <1>7, <1>12, <2>1, NextCharacter
<1>15. k + 3 \in 1 .. Len(v) /\ k + 3 > 2 /\ (k + 3) - 2 = k + 1 /\ (k + 3) - 1 = k + 2
  BY <1>2, <1>3, <1>11, <1>13
<1> QED
  BY <1>8, <1>12, <1>14, <1>15, CodeIs

(* A printed value reads back, with what follows it. *)
Alike(u, x, v, y) == Escaped(u) \o x = Escaped(v) \o y

LEMMA ValueReadsBack ==
  ASSUME NEW u \in Values, NEW v \in Values, NEW x, NEW y, Follows(x), Follows(y),
         Alike(u, x, v, y)
  PROVE  u = v /\ x = y
<1>1. PICK g : Reading(g, u, x)
  BY ReadingIsPossible DEF Follows
<1>2. PICK h : Reading(h, v, y)
  BY ReadingIsPossible DEF Follows
<1>3. g[0] = h[0]
  BY <1>1, <1>2 DEF Reading, Alike
<1>4. ~(Len(u) < Len(v)) /\ ~(Len(v) < Len(u))
  BY <1>1, <1>2, <1>3, NotInTheMiddle
<1>5. PICK k \in Nat : k = Len(u) /\ k = Len(v)
  BY <1>4 DEF Values
<1>6. g[k] = h[k] /\ \A i \in 1 .. k : u[i] = v[i]
  <2>1. k <= Len(u) /\ k <= Len(v)
    BY <1>5
  <2> QED
    BY <1>1, <1>2, <1>3, <2>1, ReadAlike
<1>7. x = y
  BY <1>1, <1>2, <1>5, <1>6 DEF Reading
<1>8. u = v
  BY <1>5, <1>6, SeqEqual DEF Values
<1> QED
  BY <1>7, <1>8

(* The records that are ever printed: of one entry, or of two. *)
Printable(r) ==
  \E e, f \in Entry : r = Removed(e) \/ r = Added(e) \/ r = Changed(e, f)

LEMMA EscapedIsText == ASSUME NEW v \in Values PROVE Escaped(v) \in Seq(Chars)
<1>1. PICK h : Reading(h, v, <<>>)
  <2>1. <<>> \in Seq(Chars)
    OBVIOUS
  <2> QED
    BY <2>1, ReadingIsPossible
<1>2. PICK g : /\ g[Len(v)] = Escaped(v)
               /\ \A k \in 0 .. Len(v) : g[k] \in Seq(Chars)
  BY EscapedInSteps
<1>3. Len(v) \in 0 .. Len(v)
  BY DEF Values
<1> QED
  BY <1>2, <1>3

LEMMA AloneReadsBack ==
  ASSUME NEW u \in Values, NEW v \in Values, Escaped(u) = Escaped(v)
  PROVE  u = v
<1>1. Follows(<<>>)
  BY DEF Follows
<1>2. Escaped(u) \o <<>> = Escaped(v) \o <<>>
  BY EscapedIsText, ConcatEmptySeq
<1>3. Alike(u, <<>>, v, <<>>)
  BY <1>2 DEF Alike
<1> QED
  BY <1>1, <1>3, ValueReadsBack

LEMMA ArrowIs ==
  /\ Arrow \in Seq(Chars) /\ Len(Arrow) = 4
  /\ Arrow[1] = "sp" /\ Arrow[2] = "hy" /\ Arrow[3] = "gt"
BY DEF Arrow, Chars

LEMMA ArrowFollows ==
  ASSUME NEW b \in Seq(Chars)
  PROVE  Follows(Arrow \o b)
<1>1. PICK a \in Seq(Chars) : /\ a = Arrow
                              /\ Len(a) = 4 /\ a[1] = "sp" /\ a[2] = "hy" /\ a[3] = "gt"
  BY ArrowIs
<1>2. a \o b \in Seq(Chars) /\ Len(a \o b) = Len(a) + Len(b) /\ Len(b) \in Nat
  BY ConcatProperties
<1>3. Len(a \o b) >= 3
  BY <1>1, <1>2
<1>4. (a \o b)[1] = a[1] /\ (a \o b)[2] = a[2] /\ (a \o b)[3] = a[3]
  <2>1. ASSUME NEW i \in 1 .. Len(a) PROVE (a \o b)[i] = a[i]
    OBVIOUS
  <2>2. 1 \in 1 .. Len(a) /\ 2 \in 1 .. Len(a) /\ 3 \in 1 .. Len(a)
    BY <1>1
  <2> QED
    BY <2>1, <2>2
<1> QED
  BY <1>1, <1>2, <1>3, <1>4, Zenon DEF Follows

LEMMA BeforeArrowReadsBack ==
  ASSUME NEW u \in Values, NEW v \in Values, NEW a \in Seq(Chars), NEW b \in Seq(Chars),
         Alike(u, Arrow \o a, v, Arrow \o b)
  PROVE  u = v /\ a = b
<1> DEFINE x == Arrow \o a
           y == Arrow \o b
<1>1. Follows(x) /\ Follows(y) /\ Alike(u, x, v, y)
  BY ArrowFollows
<1> HIDE DEF x, y
<1>2. u = v /\ x = y
  BY <1>1, ValueReadsBack
<1>3. a = b
  BY <1>2, ArrowIs, CancelLeft DEF x, y
<1> QED
  BY <1>2, <1>3

(* What a record prints after its mark and its key. *)
TextChars == Chars \cup {"=", ":"}

LEMMA AfterEquals ==
  ASSUME NEW a \in Seq(Chars), NEW b \in Seq(Chars), <<"=">> \o a = <<"=">> \o b
  PROVE  a = b
<1>1. <<"=">> \in Seq(TextChars) /\ a \in Seq(TextChars) /\ b \in Seq(TextChars)
  BY DEF TextChars
<1> QED
  BY <1>1, CancelLeft

Joined(m, p, r, q) == m \o p \o r \o q
Rest(p, r, q) == p \o (r \o q)
Regrouped(m, p, r, q) ==
  Joined(m, p, r, q) = m \o Rest(p, r, q) /\ Rest(p, r, q) \in Seq(TextChars)

Texts == Seq(TextChars)
Cat(a, b) == a \o b

LEMMA CatText ==
  ASSUME NEW a \in Texts, NEW b \in Texts, NEW c \in Texts
  PROVE  Cat(Cat(a, b), c) = Cat(a, Cat(b, c)) /\ Cat(b, c) \in Texts
<1>1. (a \o b) \o c = a \o (b \o c)
  BY ConcatAssociative DEF Texts
<1>2. b \o c \in Seq(TextChars)
  BY ConcatProperties DEF Texts
<1> QED
  BY <1>1, <1>2, Zenon DEF Cat, Texts

LEMMA RegroupFour ==
  ASSUME NEW m \in Seq(TextChars), NEW p \in Seq(TextChars), NEW r \in Seq(TextChars),
         NEW q \in Seq(TextChars)
  PROVE  Regrouped(m, p, r, q)
<1>1. m \in Texts /\ p \in Texts /\ r \in Texts /\ q \in Texts
  BY Zenon DEF Texts
<1>2. Cat(p, r) \in Texts /\ Cat(r, q) \in Texts
  BY <1>1, CatText
<1>3. Cat(p, Cat(r, q)) \in Texts
  BY <1>1, <1>2, CatText
<1>4. /\ Cat(Cat(m, p), r) = Cat(m, Cat(p, r))
      /\ Cat(Cat(m, Cat(p, r)), q) = Cat(m, Cat(Cat(p, r), q))
      /\ Cat(Cat(p, r), q) = Cat(p, Cat(r, q))
  BY <1>1, <1>2, CatText
<1>5. Cat(Cat(Cat(m, p), r), q) = Cat(m, Cat(p, Cat(r, q)))
  BY <1>4
<1> QED
  BY <1>3, <1>5, Zenon DEF Regrouped, Joined, Rest, Cat, Texts

LEMMA CancelMark ==
  ASSUME NEW m \in Seq(TextChars), NEW r \in Seq(TextChars),
         NEW a \in Seq(TextChars), NEW b \in Seq(TextChars),
         NEW c \in Seq(TextChars), NEW d \in Seq(TextChars),
         Joined(m, a, r, b) = Joined(m, c, r, d)
  PROVE  Rest(a, r, b) = Rest(c, r, d)
<1>1. Regrouped(m, a, r, b) /\ Regrouped(m, c, r, d)
  BY RegroupFour
<1>2. m \o Rest(a, r, b) = m \o Rest(c, r, d)
  BY <1>1 DEF Regrouped
<1>3. Rest(a, r, b) \in Seq(TextChars) /\ Rest(c, r, d) \in Seq(TextChars)
  BY <1>1 DEF Regrouped
<1> QED
  BY <1>2, <1>3, CancelLeft

SameChange(a, b, c, d) ==
  <<":", "sp">> \o a \o Arrow \o b = <<":", "sp">> \o c \o Arrow \o d

LEMMA ChangeReadsBack ==
  ASSUME NEW u \in Values, NEW v \in Values, NEW w \in Values, NEW z \in Values,
         SameChange(Escaped(u), Escaped(w), Escaped(v), Escaped(z))
  PROVE  u = v /\ w = z
<1> DEFINE a == Escaped(u)
           b == Escaped(w)
           c == Escaped(v)
           d == Escaped(z)
           m == <<":", "sp">>
           r == Arrow
<1>1. a \in Seq(Chars) /\ b \in Seq(Chars) /\ c \in Seq(Chars) /\ d \in Seq(Chars)
  BY EscapedIsText
<1>2. Seq(Chars) \subseteq Seq(TextChars)
  BY DEF TextChars
<1>3. m \in Seq(TextChars)
  BY DEF TextChars, Chars
<1>4. r \in Seq(TextChars)
  BY <1>2, ArrowIs
<1>5. Joined(m, a, r, b) = Joined(m, c, r, d)
  BY DEF SameChange, Joined
<1> HIDE DEF a, b, c, d, m, r
<1>6. /\ a \in Seq(TextChars) /\ b \in Seq(TextChars)
      /\ c \in Seq(TextChars) /\ d \in Seq(TextChars)
  BY <1>1, <1>2
<1>7. Rest(a, r, b) = Rest(c, r, d)
  BY <1>3, <1>4, <1>5, <1>6, CancelMark
<1>8. Alike(u, r \o b, v, r \o d)
  BY <1>7 DEF Alike, Rest, a, c
<1>9. u = v /\ b = d
  BY <1>1, <1>8, BeforeArrowReadsBack DEF r
<1> QED
  BY <1>9, AloneReadsBack DEF b, d

LEMMA RecordReadsBack ==
  ASSUME NEW q, NEW r, Printable(q), Printable(r), Text(q) = Text(r)
  PROVE  q = r
<1>1. PICK e \in Entry, f \in Entry : q = Removed(e) \/ q = Added(e) \/ q = Changed(e, f)
  BY DEF Printable
<1>2. PICK a \in Entry, b \in Entry : r = Removed(a) \/ r = Added(a) \/ r = Changed(a, b)
  BY DEF Printable
<1>3. q.mark = r.mark /\ q.key = r.key /\ Text(q).rest = Text(r).rest
  BY DEF Text
<1>4. /\ e.value \in Values /\ f.value \in Values /\ a.value \in Values /\ b.value \in Values
  BY DEF Entry
<1>5. /\ Escaped(e.value) \in Seq(Chars) /\ Escaped(f.value) \in Seq(Chars)
      /\ Escaped(a.value) \in Seq(Chars) /\ Escaped(b.value) \in Seq(Chars)
  BY <1>4, EscapedIsText
<1>6. CASE q = Removed(e)
  <2>1. r = Removed(a)
    BY <1>2, <1>3, <1>6 DEF Removed, Added, Changed
  <2>2. <<"=">> \o Escaped(e.value) = <<"=">> \o Escaped(a.value)
    BY <1>3, <1>6, <2>1 DEF Text, Removed
  <2>3. e.value = a.value
    BY <1>4, <1>5, <2>2, AfterEquals, AloneReadsBack
  <2> QED
    BY <1>3, <1>6, <2>1, <2>3 DEF Removed
<1>7. CASE q = Added(e)
  <2>1. r = Added(a)
    BY <1>2, <1>3, <1>7 DEF Removed, Added, Changed
  <2>2. <<"=">> \o Escaped(e.value) = <<"=">> \o Escaped(a.value)
    BY <1>3, <1>7, <2>1 DEF Text, Added
  <2>3. e.value = a.value
    BY <1>4, <1>5, <2>2, AfterEquals, AloneReadsBack
  <2> QED
    BY <1>3, <1>7, <2>1, <2>3 DEF Added
<1>8. CASE q = Changed(e, f)
  <2>1. r = Changed(a, b)
    BY <1>2, <1>3, <1>8 DEF Removed, Added, Changed
  <2>2. SameChange(Escaped(e.value), Escaped(f.value), Escaped(a.value), Escaped(b.value))
    BY <1>3, <1>8, <2>1 DEF Text, Changed, SameChange
  <2>4. e.value = a.value /\ f.value = b.value
    BY <1>4, <2>2, ChangeReadsBack
  <2> QED
    BY <1>3, <1>8, <2>1, <2>4 DEF Changed
<1> QED
  BY <1>1, <1>6, <1>7, <1>8

LEMMA EntriesAreEntries ==
  ASSUME TypeOK, NEW w \in {1, 2}
  PROVE  EntriesOf(w) \subseteq Entry
<1>1. files[w] \in Seq(Lines)
  BY PairItem DEF TypeOK
<1>2. ASSUME NEW i \in DOMAIN files[w] PROVE files[w][i] \in Line
  BY <1>1, SysdiffAssumption
<1>3. ASSUME NEW i \in DOMAIN files[w]
      PROVE  [key |-> files[w][i].key, value |-> files[w][i].value] \in Entry
  BY <1>2, <1>3 DEF Line, Entry
<1> QED
  BY <1>3 DEF EntriesOf

(* A printed line stands for one record and no other, whatever the two     *)
(* snapshots and the lines they are made of.                               *)
THEOREM PrintedLinesReadBack == Spec => []LinesReadBack
<1>1. IInv => LinesReadBack
  <2> SUFFICES ASSUME IInv, NEW i \in DOMAIN out, NEW r \in Candidates, Text(r) = Text(out[i])
               PROVE  r = out[i]
    BY DEF LinesReadBack
  <2>1. Printable(out[i])
    <3>1. EntriesOf(1) \subseteq Entry /\ EntriesOf(2) \subseteq Entry
      BY EntriesAreEntries DEF IInv
    <3>2. out[i] \in Difference
      BY DEF IInv, DiffIsExact, Range
    <3> QED
      BY <3>1, <3>2 DEF Difference, Printable
  <2>2. Printable(r)
    <3>1. {[key |-> l.key, value |-> l.value] : l \in {m \in Lines : m.kind = "entry"}}
            \subseteq Entry
      BY SysdiffAssumption DEF Line, Entry
    <3> QED
      BY <3>1 DEF Candidates, Printable
  <2> QED
    BY <2>1, <2>2, RecordReadsBack
<1> QED
  BY <1>1, Invariant, PTL
=============================================================================
