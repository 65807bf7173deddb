---------------------------- MODULE SnsliceProofs ----------------------------
(***************************************************************************)
(* Proofs about Snslice, for every configuration, length and fault.        *)
(***************************************************************************)
EXTENDS Snslice, Integers, FiniteSetTheorems, WellFoundedInduction, TLAPS

(* Numbers are used up no faster than bytes arrive: each closed chunk      *)
(* holds at least one.  An open chunk is a file this run made.             *)
Paced ==
  /\ Len(seen) <= MaxInput
  /\ chunk_index + chunk_bytes + Len(slice) <= Len(seen) + 1
  /\ pc \in {"record", "part"} => slice # <<>>
  /\ pc = "close" => fd
  /\ fd /\ pc \notin {"record", "part"} => chunk_bytes > 0

OwnChunk == fd => disk[chunk_index].kind = "ours"

IInv == TypeOK /\ Paced /\ OwnChunk

LEMMA InitOK == Init => IInv
<1> SUFFICES ASSUME Init PROVE IInv
  OBVIOUS
<1> USE SnsliceAssumption DEF Numbers
<1>1. disk \in [Numbers -> File]
  <2>1. Absent \in File /\ Foreign \in File
    BY DEF File, Foreign, Absent
  <2> QED
    BY <2>1 DEF Init
<1>2. TypeOK
  <2>1. <<>> \in Seq(Bytes) /\ 0 \in 0 .. MaxRecord /\ 1 \in Numbers
    OBVIOUS
  <2> QED
    BY <1>1, <2>1 DEF Init, TypeOK, CsvStates
<1>3. Paced /\ OwnChunk
  BY DEF Init, Paced, OwnChunk
<1> QED
  BY <1>2, <1>3 DEF IInv

(* The files that are not the run's own chunks have no content here. *)
LEMMA RemainsAreFiles ==
  /\ Remains \subseteq File
  /\ \A file \in Remains : file.kind # "ours" /\ file.data = <<>>
<1>1. Absent \in File /\ Stuck \in File
  BY DEF File, Absent, Stuck
<1>2. /\ Absent.kind # "ours" /\ Absent.data = <<>>
      /\ Stuck.kind # "ours" /\ Stuck.data = <<>>
  BY DEF Absent, Stuck
<1>3. \A file \in Remains : file = Absent \/ file = Stuck
  BY DEF Remains
<1> QED
  BY <1>1, <1>2, <1>3

LEMMA UnlinkingIsTyped ==
  ASSUME IInv, disk' \in Unlinked PROVE disk' \in [Numbers -> File]
<1>1. CASE fd
  <2>1. PICK file \in Remains : disk' = [disk EXCEPT ![chunk_index] = file]
    BY <1>1 DEF Unlinked
  <2>2. file \in File
    BY RemainsAreFiles
  <2> QED
    BY <2>1, <2>2 DEF IInv, TypeOK
<1>2. CASE ~fd
  BY <1>2 DEF Unlinked, IInv, TypeOK
<1> QED
  BY <1>1, <1>2

(* What abort_cleanup() leaves. *)
LEMMA AbortOK ==
  ASSUME IInv, NEW h \in Hazards, Abort(h), Len(seen') <= MaxInput,
         Len(seen) <= Len(seen'), seen' \in Seq(Bytes)
  PROVE  IInv'
<1> USE SnsliceAssumption DEF Numbers
<1>1. disk' \in [Numbers -> File]
  BY UnlinkingIsTyped DEF Abort
<1>2. TypeOK'
  <2>1. slice' \in Seq(Bytes)
    BY DEF Abort
  <2> QED
    BY <1>1, <2>1 DEF IInv, TypeOK, Abort, counters
<1>3. Paced' /\ OwnChunk'
  <2>1. Len(slice) \in Nat /\ slice' = <<>> /\ Len(slice') = 0 /\ Len(seen') \in Nat
    BY DEF IInv, TypeOK, Abort
  <2>2. chunk_index + chunk_bytes + 0 <= Len(seen') + 1
    BY <2>1 DEF IInv, TypeOK, Paced
  <2> QED
    BY <2>1, <2>2 DEF Paced, OwnChunk, Abort, counters
<1> QED
  BY <1>2, <1>3 DEF IInv

LEMMA ByteOK == ASSUME IInv, NEW c \in Bytes, Byte(c) PROVE IInv'
<1> USE SnsliceAssumption DEF Numbers
<1>1. /\ seen' \in Seq(Bytes) /\ Len(seen') = Len(seen) + 1 /\ Len(seen') <= MaxInput
      /\ Len(seen) <= Len(seen')
  BY DEF IInv, TypeOK, Paced, Byte
<1>2. CASE Abort("MALFORMED") \/ Abort("RECORD_LENGTH_LIMIT")
  BY <1>1, <1>2, AbortOK DEF Hazards, IInv, TypeOK
<1>3. CASE ~Malformed(csv_state, c) /\ ~TooLong /\ pc' # "done"
  <2>1. /\ slice' = Append(slice, c) /\ record_bytes' = record_bytes + 1
        /\ csv_state' = NextState(c) /\ pc' \in {"record", "byte"}
        /\ UNCHANGED <<cfg, chunk_index, chunk_bytes, chunk_records, fd, eof, disk, status>>
    BY <1>3 DEF Byte, Abort
  <2>2. csv_state' \in CsvStates
    BY <2>1 DEF IInv, TypeOK, NextState, CsvNext, CsvStates
  <2>3. record_bytes' \in 0 .. MaxRecord
    BY <1>3, <2>1 DEF IInv, TypeOK, TooLong
  <2>4. slice' \in Seq(Bytes) /\ Len(slice') = Len(slice) + 1
    BY <2>1 DEF IInv, TypeOK
  <2>5. TypeOK'
    BY <1>1, <2>1, <2>2, <2>3, <2>4 DEF IInv, TypeOK
  <2>6. Paced' /\ OwnChunk'
    BY <1>1, <2>1, <2>4 DEF IInv, TypeOK, Paced, OwnChunk, Byte
  <2> QED
    BY <2>5, <2>6 DEF IInv
<1>4. \/ Abort("MALFORMED") \/ Abort("RECORD_LENGTH_LIMIT")
      \/ ~Malformed(csv_state, c) /\ ~TooLong /\ pc' # "done"
  BY DEF Byte
<1> QED
  BY <1>2, <1>3, <1>4

LEMMA OpenOK == ASSUME IInv, OpenChunk PROVE IInv'
<1> USE SnsliceAssumption DEF Numbers
<1>1. CASE \E h \in Hazards : Abort(h)
  BY <1>1, AbortOK DEF OpenChunk, IInv, TypeOK, Paced
<1>2. CASE /\ disk[chunk_index] = Absent
           /\ disk' = [disk EXCEPT ![chunk_index] = Ours(<<>>)] /\ fd' = TRUE
           /\ UNCHANGED <<cfg, pc, csv_state, counters, eof, slice, status>>
  <2>1. Ours(<<>>) \in File
    BY DEF Ours, File
  <2>2. TypeOK'
    BY <1>2, <2>1 DEF IInv, TypeOK, OpenChunk, counters
  <2>3. OwnChunk'
    BY <1>2 DEF IInv, TypeOK, OwnChunk, Ours, counters
  <2>4. Paced'
    BY <1>2 DEF IInv, TypeOK, Paced, OpenChunk, counters
  <2> QED
    BY <2>2, <2>3, <2>4 DEF IInv
<1> QED
  BY <1>1, <1>2 DEF OpenChunk, Hazards

LEMMA WriteOK == ASSUME IInv, WriteChunk PROVE IInv'
<1> USE SnsliceAssumption DEF Numbers
<1>1. CASE \E h \in Hazards : Abort(h)
  BY <1>1, AbortOK DEF WriteChunk, IInv, TypeOK, Paced
<1>2. CASE /\ disk' = [disk EXCEPT ![chunk_index] = Ours(@.data \o slice)]
           /\ slice' = <<>> /\ chunk_bytes' = chunk_bytes + Len(slice)
           /\ UNCHANGED <<cfg, csv_state, chunk_index, fd, eof, status>>
  <2>1. /\ record_bytes' \in {0, record_bytes}
        /\ chunk_records' \in {chunk_records, chunk_records + 1}
        /\ pc' \in {"close", "byte"} /\ seen' = seen /\ fd
    BY <1>2 DEF WriteChunk, Abort, Hazards
  <2>2. disk[chunk_index].data \o slice \in Seq(Bytes)
    BY DEF IInv, TypeOK, File
  <2>3. disk' \in [Numbers -> File]
    <3>1. Ours(disk[chunk_index].data \o slice) \in File
      BY <2>2 DEF Ours, File
    <3> QED
      BY <1>2, <3>1 DEF IInv, TypeOK
  <2>4. Len(slice) > 0 /\ Len(slice) \in Nat /\ Len(slice') = 0
    BY <1>2 DEF IInv, TypeOK, Paced, WriteChunk
  <2>5. TypeOK'
    BY <1>2, <2>1, <2>3, <2>4 DEF IInv, TypeOK
  <2>6. OwnChunk'
    BY <1>2, <2>1 DEF IInv, TypeOK, OwnChunk, Ours
  <2>7. Paced'
    BY <1>2, <2>1, <2>4 DEF IInv, TypeOK, Paced
  <2> QED
    BY <2>5, <2>6, <2>7 DEF IInv
<1> QED
  BY <1>1, <1>2 DEF WriteChunk, Hazards

LEMMA CloseOK == ASSUME IInv, CloseChunk PROVE IInv'
<1> USE SnsliceAssumption DEF Numbers
<1>1. CASE Abort("CHUNK_WRITE_ERROR")
  <2>1. seen' = seen /\ seen \in Seq(Bytes) /\ Len(seen) <= MaxInput /\ Len(seen) \in Nat
    BY DEF CloseChunk, IInv, TypeOK, Paced
  <2>2. "CHUNK_WRITE_ERROR" \in Hazards
    BY DEF Hazards
  <2> QED
    BY <1>1, <2>1, <2>2, AbortOK
<1>2. CASE /\ chunk_index' = chunk_index + 1 /\ chunk_bytes' = 0 /\ chunk_records' = 0
           /\ fd' = FALSE /\ pc' \in {"done", "byte"} /\ status' \in {"ok", status}
           /\ UNCHANGED <<cfg, csv_state, record_bytes, eof, slice, disk>>
  <2>1. chunk_bytes > 0 /\ Len(slice) \in Nat /\ Len(seen) \in Nat
    BY DEF IInv, TypeOK, Paced, CloseChunk
  <2>0. chunk_index' = chunk_index + 1 /\ seen' = seen
    BY <1>2 DEF CloseChunk
  <2>2. chunk_index' + Len(slice) <= Len(seen) + 1 /\ seen' = seen
    BY <2>1, <2>0 DEF IInv, TypeOK, Paced
  <2>3. chunk_index' \in Numbers
    BY <1>2, <2>1, <2>2 DEF IInv, TypeOK, Paced, Numbers
  <2>4. TypeOK'
    BY <1>2, <2>2, <2>3 DEF IInv, TypeOK
  <2>5. Paced' /\ OwnChunk'
    BY <1>2, <2>1, <2>2 DEF IInv, TypeOK, Paced, OwnChunk
  <2> QED
    BY <2>4, <2>5 DEF IInv
<1> QED
  BY <1>1, <1>2 DEF CloseChunk

LEMMA EofOK == ASSUME IInv, Eof PROVE IInv'
<1> USE SnsliceAssumption DEF Numbers
<1>1. CASE status' = "MALFORMED" /\ pc' = "done" /\ disk' \in Unlinked /\ fd' = FALSE
           /\ UNCHANGED counters
  <2>1. disk' \in [Numbers -> File]
    BY <1>1, UnlinkingIsTyped
  <2>2. TypeOK'
    BY <1>1, <2>1 DEF IInv, TypeOK, Eof, counters, Hazards
  <2>3. Paced' /\ OwnChunk'
    BY <1>1 DEF IInv, TypeOK, Paced, OwnChunk, Eof, counters
  <2> QED
    BY <2>2, <2>3 DEF IInv
<1>2. CASE /\ chunk_records' \in {chunk_records, chunk_records + 1}
           /\ IF fd THEN pc' = "close" /\ UNCHANGED status ELSE pc' = "done" /\ status' = "ok"
           /\ UNCHANGED <<record_bytes, chunk_index, chunk_bytes, fd, disk>>
  <2>1. TypeOK'
    BY <1>2 DEF IInv, TypeOK, Eof
  <2>2. Paced' /\ OwnChunk'
    BY <1>2 DEF IInv, TypeOK, Paced, OwnChunk, Eof
  <2> QED
    BY <2>1, <2>2 DEF IInv
<1> QED
  BY <1>1, <1>2 DEF Eof

LEMMA StepOK == IInv /\ [Next]_vars => IInv'
<1> SUFFICES ASSUME IInv, [Next]_vars PROVE IInv'
  OBVIOUS
<1>1. CASE \E c \in Bytes : Byte(c)
  BY <1>1, ByteOK
<1>2. CASE EndOfBuffer
  BY <1>2 DEF EndOfBuffer, IInv, TypeOK, Paced, OwnChunk, counters
<1>3. CASE ReadError
  BY <1>3, AbortOK DEF ReadError, Hazards, IInv, TypeOK, Paced
<1>4. CASE UNCHANGED vars
  BY <1>4 DEF vars, counters, IInv, TypeOK, Paced, OwnChunk
<1> QED
  BY <1>1, <1>2, <1>3, <1>4, OpenOK, WriteOK, CloseOK, EofOK DEF Next, Terminated

(* Every variable keeps its type: no record is longer than the limit, and  *)
(* the chunk numbers never outrun the input.                               *)
THEOREM TypesHold == Spec => []TypeOK
<1>1. IInv => TypeOK
  BY DEF IInv
<1> QED
  BY InitOK, StepOK, <1>1, PTL DEF Spec

LEMMA StepKeepsForeign ==
  IInv /\ [Next]_vars =>
    [\A n \in Numbers : disk[n].kind = "foreign" => disk'[n] = disk[n]]_vars
<1> SUFFICES ASSUME IInv, Next, NEW n \in Numbers, disk[n].kind = "foreign"
             PROVE  disk'[n] = disk[n]
  OBVIOUS
<1>1. fd => chunk_index # n
  BY DEF IInv, OwnChunk
<1>2. \A left \in Unlinked : left[n] = disk[n]
  BY <1>1 DEF Unlinked, IInv, TypeOK
<1>3. \A h \in Hazards : Abort(h) => disk'[n] = disk[n]
  BY <1>2 DEF Abort
<1>4. CASE \E c \in Bytes : Byte(c)
  BY <1>3, <1>4 DEF Byte, Hazards
<1>5. CASE OpenChunk
  BY <1>3, <1>5 DEF OpenChunk, Hazards, IInv, TypeOK, Absent
<1>6. CASE WriteChunk
  BY <1>1, <1>3, <1>6 DEF WriteChunk, Hazards, IInv, TypeOK
<1>7. CASE CloseChunk
  BY <1>3, <1>7 DEF CloseChunk, Hazards
<1>8. CASE Eof
  BY <1>2, <1>8 DEF Eof
<1>9. CASE EndOfBuffer \/ ReadError \/ Terminated
  BY <1>3, <1>9 DEF EndOfBuffer, ReadError, Terminated, Hazards, vars
<1> QED
  BY <1>4, <1>5, <1>6, <1>7, <1>8, <1>9 DEF Next

(* A file that was there before the run survives it, whatever fails: what  *)
(* open_chunk() did not create abort_cleanup() does not unlink.            *)
THEOREM ForeignFilesSurvive == Spec => ForeignFilesAreKept
<1> QED
  BY InitOK, StepOK, StepKeepsForeign, PTL DEF Spec, ForeignFilesAreKept

-----------------------------------------------------------------------------
(* Pieces of sequences. *)

LEMMA UptoIs ==
  ASSUME NEW T, NEW s \in Seq(T), NEW k \in 0 .. Len(s)
  PROVE  /\ Upto(s, k) \in Seq(T) /\ Len(Upto(s, k)) = k
         /\ \A i \in 1 .. k : Upto(s, k)[i] = s[i]
BY DEF Upto

LEMMA FromIs ==
  ASSUME NEW T, NEW s \in Seq(T), NEW k \in 0 .. Len(s)
  PROVE  /\ From(s, k + 1) \in Seq(T) /\ Len(From(s, k + 1)) = Len(s) - k
         /\ \A i \in 1 .. Len(s) - k : From(s, k + 1)[i] = s[i + k]
BY DEF From

LEMMA SameSequence ==
  ASSUME NEW T, NEW s \in Seq(T), NEW t \in Seq(T), Len(s) = Len(t),
         \A i \in 1 .. Len(s) : s[i] = t[i]
  PROVE  s = t
OBVIOUS

LEMMA SubSeqIs ==
  ASSUME NEW T, NEW s \in Seq(T), NEW m \in Nat \ {0}, NEW n \in m - 1 .. Len(s)
  PROVE  /\ SubSeq(s, m, n) \in Seq(T) /\ Len(SubSeq(s, m, n)) = n - m + 1
         /\ \A i \in 1 .. n - m + 1 : SubSeq(s, m, n)[i] = s[i + m - 1]
OBVIOUS

LEMMA AppendIs ==
  ASSUME NEW T, NEW s \in Seq(T), NEW c \in T
  PROVE  /\ Append(s, c) \in Seq(T) /\ Len(Append(s, c)) = Len(s) + 1 /\ Len(s) \in Nat
         /\ Append(s, c)[Len(s) + 1] = c /\ \A i \in 1 .. Len(s) : Append(s, c)[i] = s[i]
         /\ Append(s, c) # <<>> /\ DOMAIN Append(s, c) = 1 .. Len(s) + 1
OBVIOUS

(* A piece of s is the same piece of what s begins. *)
LEMMA SubSeqOfAppend ==
  ASSUME NEW T, NEW s \in Seq(T), NEW c \in T, NEW m \in Nat \ {0}, NEW n \in m - 1 .. Len(s)
  PROVE  SubSeq(Append(s, c), m, n) = SubSeq(s, m, n)
<1>1. n \in m - 1 .. Len(Append(s, c)) /\ Append(s, c) \in Seq(T) /\ n \in Int /\ n <= Len(s)
  BY AppendIs
<1>2. /\ SubSeq(s, m, n) \in Seq(T) /\ Len(SubSeq(s, m, n)) = n - m + 1
      /\ \A i \in 1 .. n - m + 1 : SubSeq(s, m, n)[i] = s[i + m - 1]
  BY SubSeqIs
<1>3. /\ SubSeq(Append(s, c), m, n) \in Seq(T) /\ Len(SubSeq(Append(s, c), m, n)) = n - m + 1
      /\ \A i \in 1 .. n - m + 1 : SubSeq(Append(s, c), m, n)[i] = Append(s, c)[i + m - 1]
  BY <1>1, SubSeqIs
<1>4. \A i \in 1 .. n - m + 1 : i + m - 1 \in 1 .. Len(s)
  BY <1>1
<1>5. \A i \in 1 .. Len(s) : Append(s, c)[i] = s[i]
  BY AppendIs
<1>6. \A i \in 1 .. n - m + 1 : SubSeq(Append(s, c), m, n)[i] = SubSeq(s, m, n)[i]
  BY <1>2, <1>3, <1>4, <1>5
<1> HIDE <1>1, <1>4
<1> QED
  BY <1>2, <1>3, <1>6, SameSequence

LEMMA SubSeqOfUpto ==
  ASSUME NEW T, NEW s \in Seq(T), NEW k \in 0 .. Len(s), NEW m \in Nat \ {0}, NEW n \in m - 1 .. k
  PROVE  SubSeq(Upto(s, k), m, n) = SubSeq(s, m, n)
<1>1. Upto(s, k) \in Seq(T) /\ Len(Upto(s, k)) = k /\ \A i \in 1 .. k : Upto(s, k)[i] = s[i]
  BY UptoIs
<1>2. n \in m - 1 .. Len(Upto(s, k)) /\ n \in m - 1 .. Len(s)
  BY <1>1
<1>3. /\ SubSeq(s, m, n) \in Seq(T) /\ Len(SubSeq(s, m, n)) = n - m + 1
      /\ \A i \in 1 .. n - m + 1 : SubSeq(s, m, n)[i] = s[i + m - 1]
  BY <1>2, SubSeqIs
<1>4. /\ SubSeq(Upto(s, k), m, n) \in Seq(T) /\ Len(SubSeq(Upto(s, k), m, n)) = n - m + 1
      /\ \A i \in 1 .. n - m + 1 : SubSeq(Upto(s, k), m, n)[i] = Upto(s, k)[i + m - 1]
  BY <1>1, <1>2, SubSeqIs
<1>5. \A i \in 1 .. n - m + 1 : i + m - 1 \in 1 .. k
  OBVIOUS
<1>6. \A i \in 1 .. n - m + 1 : SubSeq(Upto(s, k), m, n)[i] = SubSeq(s, m, n)[i]
  BY <1>1, <1>3, <1>4, <1>5
<1> QED
  BY <1>3, <1>4, <1>6, SameSequence

LEMMA FromOfAppend ==
  ASSUME NEW T, NEW s \in Seq(T), NEW c \in T, NEW k \in 0 .. Len(s)
  PROVE  From(Append(s, c), k + 1) = Append(From(s, k + 1), c)
<1> DEFINE f == From(s, k + 1)
           g == From(Append(s, c), k + 1)
<1>1. f \in Seq(T) /\ Len(f) = Len(s) - k /\ \A i \in 1 .. Len(s) - k : f[i] = s[i + k]
  BY FromIs
<1>2. /\ Append(s, c) \in Seq(T) /\ Len(Append(s, c)) = Len(s) + 1 /\ Len(s) \in Nat
      /\ Append(s, c)[Len(s) + 1] = c /\ \A i \in 1 .. Len(s) : Append(s, c)[i] = s[i]
  BY AppendIs
<1>3. k \in 0 .. Len(Append(s, c)) /\ k \in Nat /\ k <= Len(s)
  BY <1>2
<1>4. g \in Seq(T) /\ Len(g) = Len(s) + 1 - k /\ \A i \in 1 .. Len(s) + 1 - k : g[i] = Append(s, c)[i + k]
  <2> DEFINE a == Append(s, c)
  <2>1. a \in Seq(T) /\ Len(a) = Len(s) + 1 /\ k \in 0 .. Len(a)
    BY <1>2, <1>3
  <2> HIDE DEF a
  <2>2. /\ From(a, k + 1) \in Seq(T) /\ Len(From(a, k + 1)) = Len(a) - k
        /\ \A i \in 1 .. Len(a) - k : From(a, k + 1)[i] = a[i + k]
    BY <2>1, FromIs
  <2>3. g = From(a, k + 1)
    BY DEF a
  <2> HIDE DEF g
  <2>4. g \in Seq(T) /\ Len(g) = Len(s) + 1 - k /\ \A i \in 1 .. Len(s) + 1 - k : g[i] = a[i + k]
    BY <2>1, <2>2, <2>3
  <2> QED
    BY <2>4 DEF a
<1> HIDE DEF f, g
<1>5. /\ Append(f, c) \in Seq(T) /\ Len(Append(f, c)) = Len(f) + 1 /\ Append(f, c)[Len(f) + 1] = c
      /\ \A i \in 1 .. Len(f) : Append(f, c)[i] = f[i]
  BY <1>1, AppendIs
<1>6. ASSUME NEW i \in 1 .. Len(g) PROVE g[i] = Append(f, c)[i]
  <2>1. CASE i = Len(f) + 1
    <3>1. i + k = Len(s) + 1 /\ i \in 1 .. Len(s) + 1 - k
      BY <1>1, <1>2, <1>3, <1>4, <2>1
    <3> QED
      BY <1>2, <1>4, <1>5, <2>1, <3>1
  <2>2. CASE i # Len(f) + 1
    <3>1. i + k \in 1 .. Len(s) /\ i \in 1 .. Len(f) /\ i \in 1 .. Len(s) + 1 - k /\ i \in 1 .. Len(s) - k
      BY <1>1, <1>2, <1>3, <1>4, <2>2
    <3> QED
      BY <1>1, <1>2, <1>4, <1>5, <3>1
  <2> QED
    BY <2>1, <2>2
<1>7. Len(g) = Len(Append(f, c))
  BY <1>1, <1>2, <1>3, <1>4, <1>5
<1>8. g = Append(f, c)
  BY <1>4, <1>5, <1>6, <1>7, SameSequence
<1> QED
  BY <1>8 DEF f, g

-----------------------------------------------------------------------------
(* A field that is being read, as each state of the automaton has it. *)

(* Carriage returns, and then the field. *)
Leads(f, k) ==
  k \in 0 .. Len(f) /\ (\A i \in 1 .. k : f[i] = "cr") /\ (k < Len(f) => f[k + 1] # "cr")

InField(g, state) ==
  \/ state = "START" /\ g = <<>>
  \/ state = "UNQUOTED" /\ g # <<>> /\ Plain(g)
  \/ state = "QUOTED" /\ g # <<>> /\ g[1] = "quote" /\ Doubled(From(g, 2))
  \/ state = "ESCAPED_QUOTE" /\ Quoted(g)

PartOfField(f, state) == \E k \in 0 .. Len(f) : Leads(f, k) /\ InField(From(f, k + 1), state)

LEMMA DoubledGrows ==
  ASSUME NEW s \in Seq(Bytes), Doubled(s), NEW c \in Bytes, c # "quote"
  PROVE  Doubled(Append(s, c))
<1>1. {i \in DOMAIN Append(s, c) : Append(s, c)[i] = "quote"} = {i \in DOMAIN s : s[i] = "quote"}
  OBVIOUS
<1> QED
  BY <1>1 DEF Doubled

LEMMA DoubledPair ==
  ASSUME NEW s \in Seq(Bytes), Doubled(s)
  PROVE  Doubled(Append(Append(s, "quote"), "quote"))
<1> DEFINE t == Append(Append(s, "quote"), "quote")
           n == Len(s) + 1
           Q == {i \in DOMAIN s : s[i] = "quote"}
<1>1. {i \in DOMAIN t : t[i] = "quote"} = Q \cup {n, n + 1}
  BY DEF Bytes
<1>2. PICK first \in SUBSET Q :
        first \cap {i + 1 : i \in first} = {} /\ Q = first \cup {i + 1 : i \in first}
  BY DEF Doubled
<1>3. \A i \in Q : i \in Nat /\ i < n
  OBVIOUS
<1>4. n \in Nat
  OBVIOUS
<1> HIDE DEF Q, n, t
<1> DEFINE new == first \cup {n}
<1>5. {i + 1 : i \in new} = {i + 1 : i \in first} \cup {n + 1}
  OBVIOUS
<1>6. {i + 1 : i \in first} \subseteq Q
  BY <1>2
<1>7. new \cap {i + 1 : i \in new} = {}
  <2>1. n \notin {i + 1 : i \in first} /\ n + 1 \notin first /\ n # n + 1
    BY <1>3, <1>4, <1>6
  <2> QED
    BY <1>2, <1>5, <2>1
<1>8. Q \cup {n, n + 1} = new \cup {i + 1 : i \in new} /\ new \subseteq Q \cup {n, n + 1}
  BY <1>2, <1>5
<1> HIDE DEF new
<1> QED
  BY <1>1, <1>7, <1>8 DEF Doubled, t

LEMMA FieldGoesOn ==
  ASSUME NEW g \in Seq(Bytes), NEW state \in CsvStates, InField(g, state), NEW c \in Bytes,
         state = "START" => c # "cr",
         ~(c \in {"comma", "lf"} /\ state # "QUOTED"), c # "nul",
         ~(state = "ESCAPED_QUOTE" /\ c = "other")
  PROVE  InField(Append(g, c), CsvNext(state, c)) \/ SpacedQuotes(Append(g, c))
<1> DEFINE h == Append(g, c)
<1>1. /\ h \in Seq(Bytes) /\ Len(h) = Len(g) + 1 /\ Len(g) \in Nat /\ h[Len(g) + 1] = c
      /\ \A i \in 1 .. Len(g) : h[i] = g[i]
      /\ h # <<>> /\ DOMAIN h = 1 .. Len(g) + 1
  BY AppendIs
<1>2. g # <<>> => Len(g) > 0 /\ h[1] = g[1]
  BY <1>1
<1>3. Len(g) > 0 => From(h, 2) = Append(From(g, 2), c) /\ From(g, 2) \in Seq(Bytes)
  <2> SUFFICES ASSUME Len(g) > 0 PROVE From(h, 2) = Append(From(g, 2), c) /\ From(g, 2) \in Seq(Bytes)
    OBVIOUS
  <2>1. 1 \in 0 .. Len(g) /\ 1 + 1 = 2
    BY <1>1
  <2>2. From(h, 1 + 1) = Append(From(g, 1 + 1), c) /\ From(g, 1 + 1) \in Seq(Bytes)
    BY <2>1, FromOfAppend, FromIs
  <2> QED
    BY <2>1, <2>2
<1> HIDE DEF h
<1>4. CASE state = "START"
  <2>1. g = <<>> /\ Len(g) = 0 /\ h[1] = c /\ DOMAIN h = {1} /\ Len(h) = 1
    BY <1>1, <1>4 DEF InField
  <2>2. CASE c = "quote"
    <3>1. From(h, 2) = <<>>
      BY <1>1, <2>1 DEF From
    <3>2. Doubled(<<>>)
      <4>1. {i \in DOMAIN <<>> : <<>>[i] = "quote"} = {} /\ {i + 1 : i \in {}} = {}
        OBVIOUS
      <4> QED
        BY <4>1 DEF Doubled
    <3>3. CsvNext(state, c) = "QUOTED"
      BY <1>4, <2>2 DEF CsvNext
    <3> QED
      BY <1>1, <2>1, <2>2, <3>1, <3>2, <3>3 DEF InField, h
  <2>3. CASE c # "quote"
    <3>1. CsvNext(state, c) = "UNQUOTED" /\ c \notin {"comma", "lf", "quote"}
      BY <1>4, <2>3 DEF CsvNext
    <3>2. Plain(h)
      BY <2>1, <3>1 DEF Plain
    <3> QED
      BY <1>1, <3>1, <3>2 DEF InField, h
  <2> QED
    BY <2>2, <2>3
<1>5. CASE state = "UNQUOTED"
  <2>1. g # <<>> /\ Plain(g)
    BY <1>5 DEF InField
  <2>2. CsvNext(state, c) = "UNQUOTED" /\ c \notin {"comma", "lf"}
    BY <1>5 DEF CsvNext
  <2>3. Plain(h)
    BY <1>1, <1>2, <2>1, <2>2 DEF Plain
  <2> QED
    BY <1>1, <2>2, <2>3 DEF InField, h
<1>6. CASE state = "QUOTED"
  <2>1. g # <<>> /\ g[1] = "quote" /\ Doubled(From(g, 2))
    BY <1>6 DEF InField
  <2>2. CASE c = "quote"
    <3>1. CsvNext(state, c) = "ESCAPED_QUOTE"
      BY <1>6, <2>2 DEF CsvNext
    <3>2. Len(h) \in 2 .. Len(h) /\ h[Len(h)] = "quote" /\ Len(h) - 1 = Len(g)
      BY <1>1, <1>2, <2>1, <2>2
    <3>3. SubSeq(h, 2, Len(h) - 1) = From(g, 2)
      <4>1. 2 \in Nat \ {0} /\ Len(g) \in 2 - 1 .. Len(g)
        BY <1>1, <1>2, <2>1
      <4>2. SubSeq(Append(g, c), 2, Len(g)) = SubSeq(g, 2, Len(g))
        BY <4>1, SubSeqOfAppend
      <4> QED
        BY <3>2, <4>2 DEF From, h
    <3>4. \A i \in Len(h) + 1 .. Len(h) : h[i] = "cr"
      BY <1>1
    <3>5. Quoted(h)
      BY <1>1, <1>2, <2>1, <3>2, <3>3, <3>4 DEF Quoted
    <3> QED
      BY <3>1, <3>5 DEF InField, h
  <2>3. CASE c # "quote"
    <3>1. CsvNext(state, c) = "QUOTED"
      BY <1>6, <2>3 DEF CsvNext
    <3>2. Doubled(From(h, 2))
      BY <1>2, <1>3, <2>1, <2>3, DoubledGrows
    <3> QED
      BY <1>1, <1>2, <2>1, <3>1, <3>2 DEF InField, h
  <2> QED
    BY <2>2, <2>3
<1>7. CASE state = "ESCAPED_QUOTE"
  <2>1. Quoted(g) /\ c \in {"cr", "quote"}
    BY <1>7 DEF InField, Bytes
  <2>2. g # <<>> /\ g[1] = "quote"
    BY <2>1 DEF Quoted
  <2>3. PICK k \in 2 .. Len(g) :
          /\ g[k] = "quote" /\ Doubled(SubSeq(g, 2, k - 1))
          /\ \A i \in k + 1 .. Len(g) : g[i] = "cr"
    BY <2>1 DEF Quoted
  <2>4. SubSeq(h, 2, k - 1) = SubSeq(g, 2, k - 1)
    <3>1. 2 \in Nat \ {0} /\ k - 1 \in 2 - 1 .. Len(g)
      BY <1>1
    <3> QED
      BY <3>1, SubSeqOfAppend DEF h
  <2>5. CASE c = "cr"
    <3>1. CsvNext(state, c) = "ESCAPED_QUOTE"
      BY <1>7, <2>5 DEF CsvNext
    <3>2. k \in 2 .. Len(h) /\ h[k] = "quote" /\ Doubled(SubSeq(h, 2, k - 1))
      <4>1. k \in 2 .. Len(h) /\ h[k] = g[k]
        BY <1>1
      <4> QED
        BY <2>3, <2>4, <4>1
    <3>3. \A i \in k + 1 .. Len(h) : h[i] = "cr"
      BY <1>1, <2>3, <2>5
    <3>4. Quoted(h)
      BY <1>1, <1>2, <2>2, <3>2, <3>3 DEF Quoted
    <3> QED
      BY <3>1, <3>4 DEF InField, h
  <2>6. CASE c = "quote" /\ k = Len(g)
    <3>1. CsvNext(state, c) = "QUOTED"
      BY <1>7, <2>6 DEF CsvNext
    <3> DEFINE inner == SubSeq(g, 2, Len(g) - 1)
    <3>2. inner \in Seq(Bytes) /\ Doubled(inner)
      <4>1. 2 \in Nat \ {0} /\ Len(g) - 1 \in 2 - 1 .. Len(g)
        BY <1>1, <2>6
      <4> QED
        BY <2>3, <2>6, <4>1, SubSeqIs
    <3>3. From(g, 2) = Append(inner, "quote")
      <4>1. 2 \in Nat \ {0} /\ Len(g) \in 2 - 1 .. Len(g) /\ Len(g) - 1 \in 2 - 1 .. Len(g)
        BY <1>1, <2>6
      <4>2. /\ SubSeq(g, 2, Len(g)) \in Seq(Bytes) /\ Len(SubSeq(g, 2, Len(g))) = Len(g) - 2 + 1
            /\ \A i \in 1 .. Len(g) - 2 + 1 : SubSeq(g, 2, Len(g))[i] = g[i + 2 - 1]
        <5> HIDE DEF inner
        <5> QED
          BY <4>1, SubSeqIs
      <4>3. /\ Len(inner) = Len(g) - 1 - 2 + 1
            /\ \A i \in 1 .. Len(g) - 1 - 2 + 1 : inner[i] = g[i + 2 - 1]
        BY <4>1, SubSeqIs, ZenonT(60)
      <4> HIDE DEF inner
      <4>4. "quote" \in Bytes
        BY DEF Bytes
      <4>5. /\ Append(inner, "quote") \in Seq(Bytes) /\ Len(Append(inner, "quote")) = Len(inner) + 1
            /\ Append(inner, "quote")[Len(inner) + 1] = "quote"
            /\ \A i \in 1 .. Len(inner) : Append(inner, "quote")[i] = inner[i]
        BY <3>2, <4>4, AppendIs
      <4>6. Len(SubSeq(g, 2, Len(g))) = Len(Append(inner, "quote"))
        BY <1>1, <4>2, <4>3, <4>5
      <4>7. ASSUME NEW i \in 1 .. Len(SubSeq(g, 2, Len(g)))
            PROVE  SubSeq(g, 2, Len(g))[i] = Append(inner, "quote")[i]
        <5>1. CASE i = Len(inner) + 1
          <6>1. i + 2 - 1 = Len(g) /\ i \in 1 .. Len(g) - 2 + 1
            BY <1>1, <4>2, <4>3, <5>1
          <6> QED
            BY <2>3, <2>6, <4>2, <4>5, <5>1, <6>1
        <5>2. CASE i # Len(inner) + 1
          <6>1. i \in 1 .. Len(inner) /\ i \in 1 .. Len(g) - 2 + 1 /\ i \in 1 .. Len(g) - 1 - 2 + 1
            BY <1>1, <4>2, <4>3, <5>2
          <6> QED
            BY <4>2, <4>3, <4>5, <6>1
        <5> QED
          BY <5>1, <5>2
      <4> QED
        BY <4>2, <4>5, <4>6, <4>7, SameSequence DEF From
    <3> HIDE DEF inner
    <3>4. Doubled(From(h, 2))
      BY <1>2, <1>3, <2>2, <2>6, <3>2, <3>3, DoubledPair
    <3> QED
      BY <1>1, <1>2, <2>2, <3>1, <3>4 DEF InField, h
  <2>7. CASE c = "quote" /\ k # Len(g)
    <3>1. k + 1 < Len(g) + 1 /\ k \in DOMAIN h /\ Len(g) + 1 \in DOMAIN h /\ h[k] = "quote"
      BY <1>1, <2>3, <2>7
    <3>2. \A i \in k + 1 .. Len(g) + 1 - 1 : h[i] = "cr"
      BY <1>1, <2>3
    <3>3. SpacedQuotes(h)
      BY <1>1, <2>7, <3>1, <3>2 DEF SpacedQuotes
    <3> QED
      BY <3>3 DEF h
  <2> QED
    BY <2>1, <2>5, <2>6, <2>7
<1> QED
  BY <1>4, <1>5, <1>6, <1>7 DEF CsvStates

LEMMA SpacedGrows ==
  ASSUME NEW s \in Seq(Bytes), NEW c \in Bytes, SpacedQuotes(s)
  PROVE  SpacedQuotes(Append(s, c))
<1> DEFINE t == Append(s, c)
<1>1. /\ DOMAIN t = 1 .. Len(s) + 1 /\ Len(s) \in Nat /\ DOMAIN s = 1 .. Len(s)
      /\ \A i \in 1 .. Len(s) : t[i] = s[i]
  BY AppendIs
<1> HIDE DEF t
<1>2. PICK i \in DOMAIN s, j \in DOMAIN s :
        /\ i + 1 < j /\ s[i] = "quote" /\ s[j] = "quote"
        /\ \A k \in i + 1 .. j - 1 : s[k] = "cr"
  BY DEF SpacedQuotes
<1>3. i \in DOMAIN t /\ j \in DOMAIN t /\ t[i] = s[i] /\ t[j] = s[j]
  BY <1>1, <1>2
<1>4. \A k \in i + 1 .. j - 1 : t[k] = "cr"
  BY <1>1, <1>2
<1> QED
  BY <1>2, <1>3, <1>4 DEF SpacedQuotes, t

LEMMA SpacedInside ==
  ASSUME NEW s \in Seq(Bytes), NEW k \in 0 .. Len(s), SpacedQuotes(From(s, k + 1))
  PROVE  SpacedQuotes(s)
<1> DEFINE f == From(s, k + 1)
<1>1. f \in Seq(Bytes) /\ Len(f) = Len(s) - k /\ \A i \in 1 .. Len(s) - k : f[i] = s[i + k]
  BY FromIs
<1>2. DOMAIN f = 1 .. Len(s) - k /\ DOMAIN s = 1 .. Len(s) /\ Len(s) \in Nat /\ k \in Nat
  BY <1>1
<1> HIDE DEF f
<1>3. PICK i \in DOMAIN f, j \in DOMAIN f :
        /\ i + 1 < j /\ f[i] = "quote" /\ f[j] = "quote"
        /\ \A n \in i + 1 .. j - 1 : f[n] = "cr"
  BY DEF SpacedQuotes, f
<1>4. PICK a \in DOMAIN s, b \in DOMAIN s : a = i + k /\ b = j + k
  <2>1. i + k \in DOMAIN s
    BY <1>2
  <2>2. j + k \in DOMAIN s
    BY <1>2
  <2> QED
    BY <2>1, <2>2
<1>5. s[a] = "quote" /\ s[b] = "quote" /\ a + 1 < b
  BY <1>1, <1>2, <1>3, <1>4
<1>6. ASSUME NEW n \in a + 1 .. b - 1 PROVE s[n] = "cr"
  <2>1. n - k \in i + 1 .. j - 1 /\ n - k \in 1 .. Len(s) - k /\ n - k + k = n
    BY <1>2, <1>3, <1>4, SMTT(30)
  <2> QED
    BY <1>1, <1>3, <2>1
<1> QED
  BY <1>5, <1>6 DEF SpacedQuotes

LEMMA PartGoesOn ==
  ASSUME NEW f \in Seq(Bytes), NEW state \in CsvStates, PartOfField(f, state), NEW c \in Bytes,
         ~(c \in {"comma", "lf"} /\ state # "QUOTED"), c # "nul",
         ~(state = "ESCAPED_QUOTE" /\ c = "other")
  PROVE  PartOfField(Append(f, c), CsvNext(state, c)) \/ SpacedQuotes(Append(f, c))
<1> DEFINE h == Append(f, c)
<1>1. /\ h \in Seq(Bytes) /\ Len(h) = Len(f) + 1 /\ Len(f) \in Nat /\ h[Len(f) + 1] = c
      /\ \A i \in 1 .. Len(f) : h[i] = f[i]
  BY AppendIs
<1>2. PICK k \in 0 .. Len(f) : Leads(f, k) /\ InField(From(f, k + 1), state)
  BY DEF PartOfField
<1>3. From(h, k + 1) = Append(From(f, k + 1), c) /\ From(f, k + 1) \in Seq(Bytes)
      /\ Len(From(f, k + 1)) = Len(f) - k
  BY FromOfAppend, FromIs
<1>4. k \in 0 .. Len(h) /\ k \in Nat /\ k <= Len(f)
  BY <1>1
<1> HIDE DEF h
<1>5. CASE state = "START" /\ c = "cr"
  <2>1. From(f, k + 1) = <<>> /\ Len(<<>>) = 0
    BY <1>2, <1>5 DEF InField
  <2>2. k = Len(f)
    BY <1>1, <1>3, <1>4, <2>1
  <2>3. Leads(h, Len(h))
    <3>1. \A i \in 1 .. Len(h) : h[i] = "cr"
      BY <1>1, <1>2, <1>5, <2>2 DEF Leads
    <3> QED
      BY <1>1, <3>1 DEF Leads
  <2>4. From(h, Len(h) + 1) = <<>>
    BY <1>1 DEF From
  <2>5. CsvNext(state, c) = "START"
    BY <1>5 DEF CsvNext
  <2>6. Len(h) \in 0 .. Len(h)
    BY <1>1
  <2> QED
    BY <2>3, <2>4, <2>5, <2>6 DEF PartOfField, InField, h
<1>6. CASE ~(state = "START" /\ c = "cr")
  <2>1. k = Len(f) => c # "cr"
    <3> SUFFICES ASSUME k = Len(f) PROVE c # "cr"
      OBVIOUS
    <3>1. Len(From(f, k + 1)) = 0
      BY <1>1, <1>3
    <3>2. From(f, k + 1) = <<>>
      BY <1>3, <3>1
    <3>3. state = "START"
      BY <1>2, <3>2 DEF InField, Quoted
    <3> QED
      BY <1>6, <3>3
  <2>2. Leads(h, k)
    <3>1. \A i \in 1 .. k : h[i] = "cr"
      BY <1>1, <1>2, <1>4 DEF Leads
    <3>2. CASE k = Len(f)
      BY <1>1, <1>4, <2>1, <3>1, <3>2 DEF Leads
    <3>3. CASE k # Len(f)
      <4>1. k + 1 \in 1 .. Len(f) /\ k < Len(f)
        BY <1>1, <1>4, <3>3
      <4>2. h[k + 1] # "cr"
        BY <1>1, <1>2, <4>1 DEF Leads
      <4> QED
        BY <1>4, <3>1, <4>2 DEF Leads
    <3> QED
      BY <3>2, <3>3
  <2>3. state = "START" => c # "cr"
    BY <1>6
  <2>4. \/ InField(From(h, k + 1), CsvNext(state, c))
        \/ SpacedQuotes(From(h, k + 1))
    BY <1>2, <1>3, <2>3, FieldGoesOn
  <2>5. SpacedQuotes(From(h, k + 1)) => SpacedQuotes(h)
    BY <1>1, <1>4, SpacedInside
  <2> QED
    BY <1>4, <2>2, <2>4, <2>5 DEF PartOfField, h
<1> QED
  BY <1>5, <1>6

LEMMA PartEnds ==
  ASSUME NEW f \in Seq(Bytes), NEW state, PartOfField(f, state), state # "QUOTED"
  PROVE  IsField(f)
<1>1. PICK k \in 0 .. Len(f) : Leads(f, k) /\ InField(From(f, k + 1), state)
  BY DEF PartOfField
<1>2. Plain(From(f, k + 1)) \/ Quoted(From(f, k + 1))
  <2>1. Plain(<<>>)
    BY DEF Plain
  <2> QED
    BY <1>1, <2>1 DEF InField
<1> QED
  BY <1>1, <1>2 DEF IsField, Leads

(* Before the first byte of a field. *)
LEMMA NoFieldYet == PartOfField(<<>>, "START")
<1>1. Leads(<<>>, 0) /\ 0 \in 0 .. Len(<<>>)
  BY DEF Leads
<1>2. From(<<>>, 0 + 1) = <<>>
  BY DEF From
<1> QED
  BY <1>1, <1>2 DEF PartOfField, InField

-----------------------------------------------------------------------------
(* A record, and a stream, that is being read. *)

LEMMA FieldsGrow ==
  ASSUME NEW p \in Seq(Bytes), NEW n \in 0 .. Len(p),
         n = 0 \/ (p[n] = "comma" /\ AreFields(Upto(p, n - 1))),
         IsField(From(p, n + 1))
  PROVE  AreFields(p)
<1>1. Len(p) \in Nat /\ DOMAIN p = 1 .. Len(p) /\ n \in Nat /\ n <= Len(p)
  OBVIOUS
<1>2. SubSeq(p, n + 1, Len(p) + 1 - 1) = From(p, n + 1)
  BY <1>1 DEF From
<1>3. CASE n = 0
  <2> DEFINE places == {} \cup {0, Len(p) + 1}
  <2>1. ASSUME NEW i \in places, NEW j \in places, Adjacent(places, i, j)
        PROVE  IsField(SubSeq(p, i + 1, j - 1))
    <3>1. i = n /\ j = Len(p) + 1
      BY <1>1, <1>3, <2>1 DEF Adjacent
    <3>2. SubSeq(p, i + 1, j - 1) = SubSeq(p, n + 1, Len(p) + 1 - 1)
      BY <3>1
    <3> QED
      BY <1>2, <3>2
  <2> QED
    BY <2>1 DEF AreFields
<1>4. CASE n # 0
  <2> DEFINE q == Upto(p, n - 1)
  <2>1. n - 1 \in 0 .. Len(p)
    BY <1>1, <1>4
  <2>2. q \in Seq(Bytes) /\ Len(q) = n - 1 /\ \A i \in 1 .. n - 1 : q[i] = p[i]
    BY <2>1, UptoIs
  <2>3. DOMAIN q = 1 .. n - 1 /\ Len(q) + 1 = n
    BY <1>1, <2>2
  <2>4. PICK commas \in SUBSET {i \in DOMAIN q : q[i] = "comma"} :
          \A i, j \in commas \cup {0, n} :
            Adjacent(commas \cup {0, n}, i, j) => IsField(SubSeq(q, i + 1, j - 1))
    BY <1>4, <2>3 DEF AreFields
  <2>5. commas \subseteq 1 .. n - 1 /\ \A i \in commas : p[i] = "comma"
    BY <2>2, <2>3, <2>4
  <2> DEFINE old == commas \cup {0, n}
             new == (commas \cup {n}) \cup {0, Len(p) + 1}
  <2>6. commas \cup {n} \in SUBSET {i \in DOMAIN p : p[i] = "comma"}
    BY <1>1, <1>4, <2>5
  <2>7. ASSUME NEW i \in new, NEW j \in new, Adjacent(new, i, j)
        PROVE  IsField(SubSeq(p, i + 1, j - 1))
    <3>1. \A x \in new : x = Len(p) + 1 \/ (x \in old /\ x \in 0 .. n)
      BY <1>1, <2>5
    <3>2. i < j /\ i \in Nat /\ j \in Nat /\ n \in new
      BY <1>1, <2>5, <2>7 DEF Adjacent
    <3>3. CASE j = Len(p) + 1
      <4>1. i \in 0 .. n
        BY <1>1, <3>1, <3>2, <3>3
      <4>2. ~(i < n)
        <5> SUFFICES ASSUME i < n PROVE FALSE
          OBVIOUS
        <5>1. n \in i + 1 .. j - 1
          BY <1>1, <3>2, <3>3
        <5> QED
          BY <2>7, <3>2, <5>1 DEF Adjacent
      <4>3. i = n
        BY <1>1, <4>1, <4>2
      <4>4. SubSeq(p, i + 1, j - 1) = SubSeq(p, n + 1, Len(p) + 1 - 1)
        BY <3>3, <4>3
      <4> QED
        BY <1>2, <4>4
    <3>4. CASE j # Len(p) + 1
      <4>1. j \in old /\ j \in 0 .. n /\ i \in old /\ i \in 0 .. n
        BY <1>1, <3>1, <3>2, <3>4
      <4>2. Adjacent(old, i, j)
        <5>1. old \subseteq new
          OBVIOUS
        <5> QED
          BY <2>7, <5>1 DEF Adjacent
      <4>3. IsField(SubSeq(q, i + 1, j - 1))
        BY <2>4, <4>1, <4>2
      <4>4. i + 1 \in Nat \ {0} /\ j - 1 \in (i + 1) - 1 .. n - 1
        BY <1>1, <3>2, <4>1
      <4>5. SubSeq(q, i + 1, j - 1) = SubSeq(p, i + 1, j - 1)
        BY <2>1, <4>4, SubSeqOfUpto
      <4> QED
        BY <4>3, <4>5
    <3> QED
      BY <3>3, <3>4
  <2> QED
    BY <2>6, <2>7 DEF AreFields
<1> QED
  BY <1>3, <1>4

(* The neighbours among places to which a last one is added. *)
LEMMA LastNeighbours ==
  ASSUME NEW n \in Nat, NEW last \in Nat, n < last, NEW ends \in SUBSET (1 .. n), n \in ends \cup {0},
         NEW i \in (ends \cup {last}) \cup {0}, NEW j \in (ends \cup {last}) \cup {0},
         Adjacent((ends \cup {last}) \cup {0}, i, j)
  PROVE  \/ i = n /\ j = last
         \/ /\ i \in ends \cup {0} /\ j \in ends \cup {0} /\ Adjacent(ends \cup {0}, i, j)
            /\ i + 1 \in Nat \ {0} /\ j \in (i + 1) - 1 .. n
<1>1. \A x \in (ends \cup {last}) \cup {0} : x = last \/ (x \in ends \cup {0} /\ x \in 0 .. n)
  OBVIOUS
<1>2. i < j /\ i \in Nat /\ j \in Nat /\ n \in (ends \cup {last}) \cup {0}
  BY <1>1 DEF Adjacent
<1>3. CASE j = last
  <2>1. i \in 0 .. n
    BY <1>1, <1>2, <1>3
  <2>2. ~(i < n)
    <3> SUFFICES ASSUME i < n PROVE FALSE
      OBVIOUS
    <3>1. n \in i + 1 .. j - 1
      BY <1>2, <1>3
    <3> QED
      BY <1>2, <3>1 DEF Adjacent
  <2> QED
    BY <1>3, <2>1, <2>2
<1>4. CASE j # last
  <2>1. i \in ends \cup {0} /\ j \in ends \cup {0} /\ i \in 0 .. n /\ j \in 0 .. n
    BY <1>1, <1>2, <1>4
  <2>2. Adjacent(ends \cup {0}, i, j)
    <3>1. ends \cup {0} \subseteq (ends \cup {last}) \cup {0}
      OBVIOUS
    <3> QED
      BY <3>1 DEF Adjacent
  <2> QED
    BY <1>2, <2>1, <2>2
<1> QED
  BY <1>3, <1>4

Ended(format, q) == q = <<>> \/ WholeRecords(format, q)

LEMMA Difference ==
  ASSUME NEW a \in Nat, NEW b \in Nat, b < a PROVE a - b \in 1 .. a - b /\ a - b + b = a
OBVIOUS

LEMMA RecordsGrow ==
  ASSUME NEW format \in Formats, NEW s \in Seq(Bytes), NEW n \in 0 .. Len(s),
         NEW q, q = Upto(s, n), NEW f, f = From(s, n + 1),
         Ended(format, q), IsRecord(format, f)
  PROVE  WholeRecords(format, s)
<1>1. Len(s) \in Nat /\ DOMAIN s = 1 .. Len(s) /\ n \in Nat /\ n <= Len(s)
  OBVIOUS
<1>2. q \in Seq(Bytes) /\ Len(q) = n /\ (\A i \in 1 .. n : q[i] = s[i]) /\ DOMAIN q = 1 .. n
  BY UptoIs
<1>3. f \in Seq(Bytes) /\ Len(f) = Len(s) - n /\ \A i \in 1 .. Len(s) - n : f[i] = s[i + n]
  BY FromIs
<1>10. n < Len(s)
  <2>1. f # <<>>
    BY DEF IsRecord
  <2>2. Len(f) # 0
    BY <1>3, <2>1
  <2> QED
    BY <1>1, <1>3, <2>2
<1>4. s[Len(s)] = "lf"
  <2>1. Len(s) - n \in 1 .. Len(s) - n /\ Len(s) - n + n = Len(s)
    BY <1>1, <1>10, Difference, Zenon
  <2>2. f[Len(s) - n] = "lf"
    BY <1>3 DEF IsRecord
  <2> QED
    BY <1>3, <2>1, <2>2
<1>5. SubSeq(s, n + 1, Len(s)) = f
  BY DEF From
<1>6. PICK ends \in SUBSET {i \in DOMAIN q : q[i] = "lf"} :
        /\ n \in ends \cup {0}
        /\ \A i, j \in ends \cup {0} :
             Adjacent(ends \cup {0}, i, j) => IsRecord(format, SubSeq(q, i + 1, j))
  <2>1. CASE q = <<>>
    <3>1. n = 0 /\ {} \in SUBSET {i \in DOMAIN q : q[i] = "lf"}
      BY <1>2, <2>1
    <3>2. \A i, j \in {} \cup {0} : ~Adjacent({} \cup {0}, i, j)
      BY DEF Adjacent
    <3> QED
      BY <3>1, <3>2
  <2>2. CASE q # <<>>
    <3>1. WholeRecords(format, q)
      BY <2>2 DEF Ended
    <3> QED
      BY <1>2, <3>1 DEF WholeRecords
  <2> QED
    BY <2>1, <2>2
<1>7. ends \subseteq 1 .. n /\ \A i \in ends : s[i] = "lf"
  BY <1>2, <1>6
<1> DEFINE new == (ends \cup {Len(s)}) \cup {0}
<1>8. ends \cup {Len(s)} \in SUBSET {i \in DOMAIN s : s[i] = "lf"}
  <2>1. ends \subseteq DOMAIN s /\ Len(s) \in DOMAIN s
    BY <1>1, <1>7, <1>10
  <2> QED
    BY <1>4, <1>7, <2>1
<1>9. ASSUME NEW i \in new, NEW j \in new, Adjacent(new, i, j)
      PROVE  IsRecord(format, SubSeq(s, i + 1, j))
  <2>1. \/ i = n /\ j = Len(s)
        \/ /\ i \in ends \cup {0} /\ j \in ends \cup {0} /\ Adjacent(ends \cup {0}, i, j)
           /\ i + 1 \in Nat \ {0} /\ j \in (i + 1) - 1 .. n
    BY <1>1, <1>6, <1>7, <1>9, <1>10, LastNeighbours
  <2>2. CASE i = n /\ j = Len(s)
    BY <1>5, <2>2
  <2>3. CASE /\ i \in ends \cup {0} /\ j \in ends \cup {0} /\ Adjacent(ends \cup {0}, i, j)
             /\ i + 1 \in Nat \ {0} /\ j \in (i + 1) - 1 .. n
    <3>1. IsRecord(format, SubSeq(q, i + 1, j))
      BY <1>6, <2>3
    <3>2. SubSeq(q, i + 1, j) = SubSeq(s, i + 1, j)
      BY <2>3, SubSeqOfUpto
    <3> QED
      BY <3>1, <3>2
  <2> QED
    BY <2>1, <2>2, <2>3, SMTT(30)
<1>11. Len(s) \in ends \cup {Len(s)}
  OBVIOUS
<1> QED
  BY <1>8, <1>9, <1>11 DEF WholeRecords

LEMMA UptoAll == ASSUME NEW s \in Seq(Bytes) PROVE Upto(s, Len(s)) = s /\ From(s, Len(s) + 1) = <<>>
<1>1. Len(s) \in 0 .. Len(s)
  OBVIOUS
<1>2. Upto(s, Len(s)) = s
  BY <1>1, UptoIs, SameSequence
<1>3. From(s, Len(s) + 1) = <<>>
  BY DEF From
<1> QED
  BY <1>2, <1>3

LEMMA UptoOfAppend ==
  ASSUME NEW s \in Seq(Bytes), NEW c \in Bytes, NEW k \in 0 .. Len(s)
  PROVE  Upto(Append(s, c), k) = Upto(s, k)
<1>1. 1 \in Nat \ {0} /\ k \in 1 - 1 .. Len(s)
  OBVIOUS
<1> QED
  BY <1>1, SubSeqOfAppend DEF Upto

FieldsBefore(p, j) == j = 0 \/ (p[j] = "comma" /\ AreFields(Upto(p, j - 1)))

PartOfRecord(format, p, state) ==
  IF format = "csv"
  THEN \E j \in 0 .. Len(p) : FieldsBefore(p, j) /\ PartOfField(From(p, j + 1), state)
  ELSE state = "START" /\ \A i \in 1 .. Len(p) : p[i] # "lf"

(* Whole records, and a part of one. *)
PartOfStream(format, s, state) ==
  \E k \in 0 .. Len(s) : Ended(format, Upto(s, k)) /\ PartOfRecord(format, From(s, k + 1), state)

(* The next state of the automaton, and the ends of records it sees. *)
StateAfter(format, state, c) == IF format = "csv" THEN CsvNext(state, c) ELSE state
EndsRecord(format, state, c) == c = "lf" /\ (format = "ndjson" \/ state # "QUOTED")
BadByte(format, state, c) == c = "nul" \/ (format = "csv" /\ state = "ESCAPED_QUOTE" /\ c = "other")

LEMMA RecordGoesOn ==
  ASSUME NEW format \in Formats, NEW p \in Seq(Bytes), NEW state \in CsvStates,
         PartOfRecord(format, p, state), NEW c \in Bytes,
         ~EndsRecord(format, state, c), ~BadByte(format, state, c)
  PROVE  PartOfRecord(format, Append(p, c), StateAfter(format, state, c)) \/ SpacedQuotes(Append(p, c))
<1> DEFINE h == Append(p, c)
<1>1. /\ h \in Seq(Bytes) /\ Len(h) = Len(p) + 1 /\ Len(p) \in Nat /\ h[Len(p) + 1] = c
      /\ \A i \in 1 .. Len(p) : h[i] = p[i]
  BY AppendIs
<1>2. CASE format = "csv"
  <2>1. PICK j \in 0 .. Len(p) : FieldsBefore(p, j) /\ PartOfField(From(p, j + 1), state)
    BY <1>2 DEF PartOfRecord
  <2>2. StateAfter(format, state, c) = CsvNext(state, c)
    BY <1>2 DEF StateAfter
  <2>3. CASE c = "comma" /\ state # "QUOTED"
    <3>1. IsField(From(p, j + 1))
      BY <2>1, <2>3, <1>1, FromIs, PartEnds
    <3>2. AreFields(p)
      BY <2>1, <3>1, FieldsGrow DEF FieldsBefore
    <3>3. Upto(h, Len(p)) = p
      <4>1. Len(p) \in 0 .. Len(p)
        BY <1>1
      <4> QED
        BY <4>1, UptoOfAppend, UptoAll
    <3>4. From(h, Len(h) + 1) = <<>> /\ Len(h) \in 0 .. Len(h) /\ Len(h) - 1 = Len(p)
      <4> HIDE DEF h
      <4>1. From(h, Len(h) + 1) = <<>>
        BY <1>1, UptoAll
      <4> QED
        BY <1>1, <4>1
    <3>5. CsvNext(state, c) = "START"
      BY <2>3 DEF CsvNext, CsvStates
    <3> HIDE DEF h
    <3>6. FieldsBefore(h, Len(h))
      BY <1>1, <2>3, <3>2, <3>3, <3>4 DEF FieldsBefore
    <3> QED
      BY <1>2, <2>2, <3>4, <3>5, <3>6, NoFieldYet DEF PartOfRecord, h
  <2>4. CASE ~(c = "comma" /\ state # "QUOTED")
    <3>1. ~(c \in {"comma", "lf"} /\ state # "QUOTED") /\ c # "nul" /\ ~(state = "ESCAPED_QUOTE" /\ c = "other")
      BY <1>2, <2>4 DEF EndsRecord, BadByte
    <3> DEFINE f == From(p, j + 1)
    <3>2. f \in Seq(Bytes) /\ From(h, j + 1) = Append(f, c)
      BY FromIs, FromOfAppend
    <3>3. PartOfField(Append(f, c), CsvNext(state, c)) \/ SpacedQuotes(Append(f, c))
      <4> HIDE DEF f, h
      <4>1. PartOfField(f, state)
        BY <2>1 DEF f
      <4> QED
        BY <3>1, <3>2, <4>1, PartGoesOn
    <3>4. j \in 0 .. Len(h)
      BY <1>1
    <3>5. FieldsBefore(h, j)
      <4>1. CASE j = 0
        BY <4>1 DEF FieldsBefore
      <4>2. CASE j # 0
        <5>1. p[j] = "comma" /\ AreFields(Upto(p, j - 1))
          BY <2>1, <4>2 DEF FieldsBefore
        <5>2. j \in 1 .. Len(p) /\ j - 1 \in 0 .. Len(p)
          BY <1>1, <4>2
        <5>3. h[j] = p[j]
          BY <1>1, <5>2
        <5>4. Upto(h, j - 1) = Upto(p, j - 1)
          BY <5>2, UptoOfAppend
        <5> QED
          BY <5>1, <5>3, <5>4 DEF FieldsBefore
      <4> QED
        BY <4>1, <4>2
    <3> HIDE DEF f, h
    <3>6. SpacedQuotes(Append(f, c)) => SpacedQuotes(h)
      BY <1>1, <3>2, <3>4, SpacedInside
    <3> QED
      BY <1>2, <2>2, <3>2, <3>3, <3>4, <3>5, <3>6 DEF PartOfRecord, h
  <2> QED
    BY <2>3, <2>4
<1>3. CASE format = "ndjson"
  <2>1. state = "START" /\ c # "lf" /\ \A i \in 1 .. Len(p) : p[i] # "lf"
    BY <1>3 DEF EndsRecord, PartOfRecord
  <2>2. StateAfter(format, state, c) = "START"
    BY <1>3, <2>1 DEF StateAfter
  <2> HIDE DEF h
  <2>3. \A i \in 1 .. Len(h) : h[i] # "lf"
    BY <1>1, <2>1
  <2> QED
    BY <1>3, <2>2, <2>3 DEF PartOfRecord, h
<1> QED
  BY <1>2, <1>3 DEF Formats

LEMMA RecordEnds ==
  ASSUME NEW format \in Formats, NEW p \in Seq(Bytes), NEW state \in CsvStates,
         PartOfRecord(format, p, state), format = "ndjson" \/ state # "QUOTED"
  PROVE  IsRecord(format, Append(p, "lf"))
<1> DEFINE h == Append(p, "lf")
<1>0. "lf" \in Bytes
  BY DEF Bytes
<1>1. /\ h \in Seq(Bytes) /\ Len(h) = Len(p) + 1 /\ Len(p) \in Nat /\ h[Len(p) + 1] = "lf"
      /\ h # <<>> /\ \A i \in 1 .. Len(p) : h[i] = p[i]
  BY <1>0, AppendIs
<1>2. h[Len(h)] = "lf" /\ Len(h) - 1 = Len(p)
  BY <1>1
<1>3. CASE format = "csv"
  <2>1. PICK j \in 0 .. Len(p) : FieldsBefore(p, j) /\ PartOfField(From(p, j + 1), state)
    BY <1>3 DEF PartOfRecord
  <2>2. IsField(From(p, j + 1))
    BY <2>1, <1>3, FromIs, PartEnds
  <2>3. AreFields(p)
    BY <2>1, <2>2, FieldsGrow DEF FieldsBefore
  <2>4. Upto(h, Len(p)) = p
    <3>1. Len(p) \in 0 .. Len(p)
      BY <1>1
    <3> QED
      BY <1>0, <3>1, UptoOfAppend, UptoAll
  <2> HIDE DEF h
  <2>5. AreFields(Upto(h, Len(h) - 1))
    BY <1>2, <2>3, <2>4
  <2> QED
    BY <1>1, <1>2, <1>3, <2>5 DEF IsRecord, h
<1>4. CASE format = "ndjson"
  <2>1. \A i \in 1 .. Len(p) : p[i] # "lf"
    BY <1>4 DEF PartOfRecord
  <2> HIDE DEF h
  <2>2. \A i \in 1 .. Len(h) - 1 : h[i] # "lf"
    BY <1>1, <1>2, <2>1
  <2> QED
    BY <1>1, <1>2, <1>4, <2>2 DEF IsRecord, h
<1> QED
  BY <1>3, <1>4 DEF Formats

LEMMA StreamGoesOn ==
  ASSUME NEW format \in Formats, NEW s \in Seq(Bytes), NEW state \in CsvStates,
         PartOfStream(format, s, state), NEW c \in Bytes,
         ~EndsRecord(format, state, c), ~BadByte(format, state, c)
  PROVE  PartOfStream(format, Append(s, c), StateAfter(format, state, c)) \/ SpacedQuotes(Append(s, c))
<1>1. PICK k \in 0 .. Len(s) :
        Ended(format, Upto(s, k)) /\ PartOfRecord(format, From(s, k + 1), state)
  BY DEF PartOfStream
<1> DEFINE h == Append(s, c)
           f == From(s, k + 1)
<1>2. f \in Seq(Bytes) /\ From(h, k + 1) = Append(f, c) /\ Upto(h, k) = Upto(s, k)
  BY FromIs, FromOfAppend, UptoOfAppend
<1>3. h \in Seq(Bytes) /\ k \in 0 .. Len(h)
  BY AppendIs
<1>4. PartOfRecord(format, f, state)
  BY <1>1
<1> HIDE DEF f, h
<1>5. PartOfRecord(format, Append(f, c), StateAfter(format, state, c)) \/ SpacedQuotes(Append(f, c))
  BY <1>2, <1>4, RecordGoesOn
<1>6. SpacedQuotes(Append(f, c)) => SpacedQuotes(h)
  BY <1>2, <1>3, SpacedInside
<1> QED
  BY <1>1, <1>2, <1>3, <1>5, <1>6 DEF PartOfStream, h

LEMMA StreamEnds ==
  ASSUME NEW format \in Formats, NEW s \in Seq(Bytes), NEW state \in CsvStates,
         PartOfStream(format, s, state), format = "ndjson" \/ state # "QUOTED"
  PROVE  WholeRecords(format, Append(s, "lf"))
<1>0. "lf" \in Bytes
  BY DEF Bytes
<1>1. PICK k \in 0 .. Len(s) :
        Ended(format, Upto(s, k)) /\ PartOfRecord(format, From(s, k + 1), state)
  BY DEF PartOfStream
<1> DEFINE h == Append(s, "lf")
           f == From(s, k + 1)
<1>2. f \in Seq(Bytes) /\ From(h, k + 1) = Append(f, "lf") /\ Upto(h, k) = Upto(s, k)
  BY <1>0, FromIs, FromOfAppend, UptoOfAppend
<1>3. h \in Seq(Bytes) /\ k \in 0 .. Len(h)
  BY <1>0, AppendIs
<1>4. PartOfRecord(format, f, state)
  BY <1>1
<1> HIDE DEF f, h
<1>5. IsRecord(format, Append(f, "lf"))
  BY <1>2, <1>4, RecordEnds
<1> QED
  BY <1>1, <1>2, <1>3, <1>5, RecordsGrow DEF h

LEMMA EndedIsPart ==
  ASSUME NEW format \in Formats, NEW s \in Seq(Bytes), Ended(format, s)
  PROVE  PartOfStream(format, s, "START")
<1>1. PartOfRecord(format, <<>>, "START")
  <2>1. From(<<>>, 0 + 1) = <<>> /\ 0 \in 0 .. Len(<<>>) /\ FieldsBefore(<<>>, 0)
    BY DEF From, FieldsBefore
  <2>2. \A i \in 1 .. Len(<<>>) : <<>>[i] # "lf"
    OBVIOUS
  <2> QED
    BY <2>1, <2>2, NoFieldYet DEF PartOfRecord
<1>2. Len(s) \in 0 .. Len(s)
  OBVIOUS
<1> QED
  BY <1>1, <1>2, UptoAll DEF PartOfStream

-----------------------------------------------------------------------------
(* The active chunk, written or not, is what ChunkStream calls rest. *)

Rest == disk[chunk_index].data \o slice

(* Only files of this run have content here, the active chunk's is counted *)
(* in chunk_bytes, and none is there under a number to come.               *)
FilesInOrder ==
  /\ \A n \in Numbers : disk[n].kind # "ours" => disk[n].data = <<>>
  /\ \A n \in Numbers : n > chunk_index => disk[n].kind # "ours"
  /\ ~fd => disk[chunk_index].kind # "ours"
  /\ fd => Len(disk[chunk_index].data) = chunk_bytes

Stages ==
  /\ pc = "close" => slice = <<>>
  /\ eof => pc \in {"close", "done"}
  /\ status = "running" <=> pc # "done"
  /\ ~fd /\ pc # "done" => chunk_bytes = 0

(* The automaton knows which part of a record was read last. *)
AtRecordEnd == pc = "record" \/ (pc = "close" /\ ~eof)

Shape ==
  /\ cfg.format = "ndjson" => csv_state = "START"
  /\ pc \in {"byte", "part"} => SpacedQuotes(Rest) \/ PartOfStream(cfg.format, Rest, csv_state)
  /\ AtRecordEnd => csv_state = "START" /\ (SpacedQuotes(Rest) \/ WholeRecords(cfg.format, Rest))

RInv == FilesInOrder /\ Stages /\ Shape

LEMMA AppendLast ==
  ASSUME NEW u \in Seq(Bytes), NEW v \in Seq(Bytes), NEW c \in Bytes
  PROVE  u \o Append(v, c) = Append(u \o v, c)
OBVIOUS

LEMMA RestIs ==
  ASSUME IInv
  PROVE  /\ disk[chunk_index].data \in Seq(Bytes) /\ slice \in Seq(Bytes) /\ Rest \in Seq(Bytes)
         /\ chunk_index \in Numbers /\ chunk_index \in Nat \ {0} /\ cfg.format \in Formats
         /\ csv_state \in CsvStates /\ eof \in BOOLEAN /\ fd \in BOOLEAN
         /\ cfg \in Configs
<1>1. chunk_index \in Numbers /\ slice \in Seq(Bytes) /\ csv_state \in CsvStates /\ eof \in BOOLEAN
      /\ fd \in BOOLEAN /\ cfg \in Configs
  BY DEF IInv, TypeOK
<1>2. chunk_index \in Nat \ {0}
  BY <1>1, SnsliceAssumption DEF Numbers
<1>3. disk[chunk_index].data \in Seq(Bytes)
  BY <1>1 DEF IInv, TypeOK, File
<1>4. cfg.format \in Formats
  BY <1>1, SnsliceAssumption
<1> QED
  BY <1>1, <1>2, <1>3, <1>4 DEF Rest

(* Published chunks do not change with the active one. *)
LEMMA PublishedIsKept ==
  ASSUME IInv, chunk_index' = chunk_index,
         \A n \in Numbers : n # chunk_index => disk'[n] = disk[n]
  PROVE  Published' = Published
<1>1. \A n \in 1 .. chunk_index - 1 : n \in Numbers /\ n # chunk_index
  BY SnsliceAssumption DEF IInv, TypeOK, Numbers
<1>2. \A n \in 1 .. chunk_index - 1 : disk'[n].data = disk[n].data
  BY <1>1
<1> QED
  BY <1>2 DEF Published

LEMMA RInitOK == Init => RInv /\ S!SInit
<1> SUFFICES ASSUME Init PROVE RInv /\ S!SInit
  OBVIOUS
<1>1. IInv
  BY InitOK
<1>2. \A n \in Numbers : disk[n] \in {Foreign, Absent}
  BY DEF Init
<1>3. FilesInOrder
  BY <1>1, <1>2, RestIs DEF FilesInOrder, Foreign, Absent, Init
<1>4. Rest = <<>>
  <2>1. disk[chunk_index].data = <<>> /\ slice = <<>>
    BY <1>1, <1>3, RestIs DEF Init, FilesInOrder
  <2> QED
    BY <2>1 DEF Rest
<1>5. Shape
  <2>1. <<>> \in Seq(Bytes) /\ Ended(cfg.format, <<>>) /\ cfg.format \in Formats
    BY <1>1, RestIs DEF Ended
  <2>2. PartOfStream(cfg.format, <<>>, "START")
    BY <2>1, EndedIsPart
  <2> QED
    BY <1>4, <2>2 DEF Shape, Init, AtRecordEnd
<1>6. Stages
  BY DEF Stages, Init
<1>7. Published = <<>>
  <2>1. 1 .. chunk_index - 1 = {}
    BY DEF Init
  <2> QED
    BY <2>1 DEF Published
<1>8. S!SInit
  BY <1>1, <1>4, <1>7, RestIs DEF S!SInit, Init, Rest, Hazards
<1> QED
  BY <1>3, <1>5, <1>6, <1>8 DEF RInv

(* A run that fails drops the active chunk, and keeps what is published. *)
LEMMA AbortImplements ==
  ASSUME IInv, RInv, pc # "done", NEW h \in Hazards, Abort(h)
  PROVE  RInv' /\ S!Fail
<1>1. chunk_index' = chunk_index /\ cfg' = cfg /\ csv_state' = csv_state /\ eof' = eof
      /\ slice' = <<>> /\ fd' = FALSE /\ pc' = "done" /\ status' = h /\ disk' \in Unlinked
  BY DEF Abort, counters
<1>2. /\ \A n \in Numbers : n # chunk_index => disk'[n] = disk[n]
      /\ disk'[chunk_index].kind # "ours" /\ disk'[chunk_index].data = <<>>
  <2>1. CASE fd
    <3>1. PICK file \in Remains : disk' = [disk EXCEPT ![chunk_index] = file]
      BY <1>1, <2>1 DEF Unlinked
    <3> QED
      BY <3>1, RemainsAreFiles DEF IInv, TypeOK
  <2>2. CASE ~fd
    BY <1>1, <2>2, RestIs DEF Unlinked, RInv, FilesInOrder
  <2> QED
    BY <2>1, <2>2
<1>3. FilesInOrder'
  <2>1. \A n \in Numbers : disk'[n].kind # "ours" => disk'[n].data = <<>>
    BY <1>2 DEF RInv, FilesInOrder
  <2>2. \A n \in Numbers : n > chunk_index => disk'[n].kind # "ours"
    BY <1>2 DEF RInv, FilesInOrder
  <2> QED
    BY <1>1, <1>2, <2>1, <2>2 DEF FilesInOrder
<1>4. Stages' /\ Shape'
  BY <1>1 DEF RInv, Stages, Shape, AtRecordEnd, Hazards
<1>5. Rest' = <<>>
  <2>1. disk'[chunk_index'].data = <<>> /\ slice' = <<>>
    BY <1>1, <1>2
  <2> QED
    BY <2>1 DEF Rest
<1>6. Published' = Published
  BY <1>1, <1>2, PublishedIsKept
<1>7. status = "running" /\ status \notin Hazards
  BY DEF RInv, Stages, Hazards
<1>8. S!Fail
  BY <1>1, <1>5, <1>6, <1>7, RestIs DEF S!Fail, Rest
<1> QED
  BY <1>3, <1>4, <1>8 DEF RInv

LEMMA ByteImplements ==
  ASSUME IInv, RInv, NEW c \in Bytes, Byte(c)
  PROVE  RInv' /\ S!SNext
<1>1. CASE \E h \in Hazards : Abort(h)
  BY <1>1, AbortImplements DEF Byte, S!SNext
<1>2. CASE /\ ~Malformed(csv_state, c)
           /\ slice' = Append(slice, c) /\ csv_state' = NextState(c)
           /\ pc' = IF Boundary(csv_state, c) THEN "record" ELSE "byte"
           /\ UNCHANGED <<cfg, chunk_index, chunk_bytes, chunk_records, fd, eof, disk, status>>
  <2>1. pc = "byte" /\ status = "running" /\ ~eof /\ status \notin Hazards
    BY DEF Byte, RInv, Stages, Hazards
  <2>2. Rest' = Append(Rest, c)
    BY <1>2, RestIs, AppendLast DEF Rest
  <2>3. FilesInOrder' /\ Stages'
    BY <1>2, <2>1 DEF RInv, FilesInOrder, Stages
  <2>4. /\ Malformed(csv_state, c) <=> BadByte(cfg.format, csv_state, c)
        /\ Boundary(csv_state, c) <=> EndsRecord(cfg.format, csv_state, c)
        /\ NextState(c) = StateAfter(cfg.format, csv_state, c)
    BY DEF Malformed, BadByte, Boundary, EndsRecord, NextState, StateAfter
  <2>5. SpacedQuotes(Rest) \/ PartOfStream(cfg.format, Rest, csv_state)
    BY <2>1 DEF RInv, Shape
  <2>6. SpacedQuotes(Rest) => SpacedQuotes(Rest')
    BY <2>2, RestIs, SpacedGrows
  <2>7. Boundary(csv_state, c) => SpacedQuotes(Rest') \/ WholeRecords(cfg.format, Rest')
    <3> SUFFICES ASSUME Boundary(csv_state, c), PartOfStream(cfg.format, Rest, csv_state)
                 PROVE  WholeRecords(cfg.format, Rest')
      BY <2>5, <2>6
    <3> QED
      BY <2>2, RestIs, StreamEnds DEF Boundary
  <2>8. ~Boundary(csv_state, c) => SpacedQuotes(Rest') \/ PartOfStream(cfg.format, Rest', csv_state')
    <3> SUFFICES ASSUME ~Boundary(csv_state, c), PartOfStream(cfg.format, Rest, csv_state)
                 PROVE  SpacedQuotes(Rest') \/ PartOfStream(cfg.format, Rest', csv_state')
      BY <2>5, <2>6
    <3> QED
      BY <1>2, <2>2, <2>4, RestIs, StreamGoesOn
  <2>9. /\ cfg.format = "ndjson" => csv_state' = "START"
        /\ Boundary(csv_state, c) => csv_state' = "START"
    BY <1>2, RestIs DEF RInv, Shape, NextState, CsvNext, CsvStates, Boundary, Formats
  <2>10. Shape'
    BY <1>2, <2>7, <2>8, <2>9 DEF Shape, AtRecordEnd
  <2>11. Published' = Published
    BY <1>2, PublishedIsKept
  <2>12. S!Consume
    BY <1>2, <2>1, <2>2, <2>11 DEF S!Consume, Rest
  <2> QED
    BY <2>3, <2>10, <2>12 DEF RInv, S!SNext
<1> QED
  BY <1>1, <1>2 DEF Byte, Hazards

LEMMA EndOfBufferImplements == ASSUME IInv, RInv, EndOfBuffer PROVE RInv' /\ UNCHANGED S!stream
<1>1. /\ pc = "byte" /\ pc' = "part"
      /\ UNCHANGED <<cfg, csv_state, chunk_index, chunk_bytes, fd, eof, slice, disk, status>>
  BY DEF EndOfBuffer, counters
<1>2. Rest' = Rest
  BY <1>1 DEF Rest
<1>3. RInv'
  BY <1>1, <1>2 DEF RInv, FilesInOrder, Stages, Shape, AtRecordEnd
<1>4. Published' = Published
  BY <1>1, PublishedIsKept
<1> QED
  BY <1>1, <1>2, <1>3, <1>4 DEF S!stream, Rest

LEMMA OpenImplements ==
  ASSUME IInv, RInv, OpenChunk PROVE RInv' /\ [S!SNext]_S!stream
<1>1. CASE \E h \in Hazards : Abort(h)
  BY <1>1, AbortImplements DEF OpenChunk, S!SNext
<1>2. CASE /\ disk[chunk_index] = Absent
           /\ disk' = [disk EXCEPT ![chunk_index] = Ours(<<>>)] /\ fd' = TRUE
           /\ UNCHANGED <<cfg, pc, csv_state, chunk_index, chunk_bytes, eof, slice, status>>
  <2>1. /\ \A n \in Numbers : n # chunk_index => disk'[n] = disk[n]
        /\ disk'[chunk_index].data = <<>> /\ disk[chunk_index].data = <<>>
        /\ disk'[chunk_index].kind = "ours"
    BY <1>2, RestIs DEF IInv, TypeOK, Ours, Absent
  <2>2. Rest' = Rest
    BY <1>2, <2>1 DEF Rest
  <2>3. chunk_bytes = 0
    BY DEF RInv, Stages, OpenChunk
  <2>4. FilesInOrder'
    BY <1>2, <2>1, <2>3, RestIs DEF RInv, FilesInOrder
  <2>5. Stages' /\ Shape'
    BY <1>2, <2>2 DEF RInv, Stages, Shape, AtRecordEnd
  <2>6. Published' = Published
    BY <1>2, <2>1, PublishedIsKept
  <2>7. UNCHANGED S!stream
    BY <1>2, <2>2, <2>6 DEF S!stream, Rest
  <2> QED
    BY <2>4, <2>5, <2>7 DEF RInv
<1> QED
  BY <1>1, <1>2 DEF OpenChunk, Hazards, counters

LEMMA WriteImplements ==
  ASSUME IInv, RInv, WriteChunk PROVE RInv' /\ [S!SNext]_S!stream
<1>1. CASE \E h \in Hazards : Abort(h)
  BY <1>1, AbortImplements DEF WriteChunk, S!SNext
<1>2. CASE /\ disk' = [disk EXCEPT ![chunk_index] = Ours(@.data \o slice)]
           /\ slice' = <<>> /\ chunk_bytes' = chunk_bytes + Len(slice)
           /\ pc' \in {"close", "byte"} /\ (pc' = "close" => pc = "record")
           /\ UNCHANGED <<cfg, csv_state, chunk_index, fd, eof, status>>
  <2>1. /\ \A n \in Numbers : n # chunk_index => disk'[n] = disk[n]
        /\ disk'[chunk_index].data = Rest /\ disk'[chunk_index].kind = "ours"
    BY <1>2, RestIs DEF IInv, TypeOK, Ours, Rest
  <2>2. Rest' = Rest
    <3>1. Rest' = Rest \o <<>>
      BY <1>2, <2>1 DEF Rest
    <3> QED
      BY <3>1, RestIs
  <2>3. fd /\ pc \in {"record", "part"} /\ ~eof
    BY DEF WriteChunk, RInv, Stages
  <2>4. FilesInOrder'
    <3>1. Len(Rest) = Len(disk[chunk_index].data) + Len(slice)
      BY RestIs DEF Rest
    <3>2. Len(disk'[chunk_index].data) = chunk_bytes'
      BY <1>2, <2>1, <2>3, <3>1 DEF RInv, FilesInOrder
    <3>3. \A n \in Numbers : disk'[n].kind # "ours" => disk'[n].data = <<>>
      BY <2>1 DEF RInv, FilesInOrder
    <3>4. \A n \in Numbers : n > chunk_index => disk'[n].kind # "ours"
      BY <2>1, RestIs DEF RInv, FilesInOrder, Numbers
    <3> QED
      BY <1>2, <2>3, <3>2, <3>3, <3>4 DEF FilesInOrder
  <2>5. Stages'
    BY <1>2, <2>3 DEF RInv, Stages
  <2>6. Shape'
    <3>1. CASE pc = "part"
      BY <1>2, <2>2, <2>3, <3>1 DEF RInv, Shape, AtRecordEnd
    <3>2. CASE pc = "record"
      <4>1. csv_state = "START" /\ (SpacedQuotes(Rest) \/ WholeRecords(cfg.format, Rest))
        BY <3>2 DEF RInv, Shape, AtRecordEnd
      <4>2. SpacedQuotes(Rest) \/ PartOfStream(cfg.format, Rest, csv_state)
        BY <4>1, RestIs, EndedIsPart DEF Ended
      <4> QED
        BY <1>2, <2>2, <4>1, <4>2 DEF Shape, AtRecordEnd
    <3> QED
      BY <2>3, <3>1, <3>2
  <2>7. Published' = Published
    BY <1>2, <2>1, PublishedIsKept
  <2>8. UNCHANGED S!stream
    BY <1>2, <2>2, <2>7 DEF S!stream, Rest
  <2> QED
    BY <2>4, <2>5, <2>6, <2>8 DEF RInv
<1> QED
  BY <1>1, <1>2 DEF WriteChunk, Hazards

LEMMA CloseImplements ==
  ASSUME IInv, IInv', RInv, CloseChunk PROVE RInv' /\ S!SNext
<1>1. CASE \E h \in Hazards : Abort(h)
  BY <1>1, AbortImplements DEF CloseChunk, S!SNext
<1>2. CASE /\ chunk_index' = chunk_index + 1 /\ chunk_bytes' = 0 /\ fd' = FALSE
           /\ IF eof THEN pc' = "done" /\ status' = "ok" ELSE pc' = "byte" /\ UNCHANGED status
           /\ UNCHANGED <<cfg, csv_state, eof, slice, disk>>
  <2>1. pc = "close" /\ fd /\ chunk_bytes > 0 /\ slice = <<>> /\ status = "running"
        /\ status \notin Hazards /\ status' \notin Hazards
    BY <1>2 DEF CloseChunk, IInv, Paced, RInv, Stages, Hazards
  <2>2. Rest = disk[chunk_index].data
    BY <2>1, RestIs DEF Rest
  <2>3. Rest # <<>>
    <3>1. Len(disk[chunk_index].data) > 0
      BY <2>1 DEF RInv, FilesInOrder
    <3> QED
      BY <2>2, <3>1
  <2>4. chunk_index' \in Numbers /\ chunk_index' > chunk_index
    BY <1>2, RestIs DEF IInv, TypeOK
  <2>5. disk[chunk_index'].kind # "ours" /\ disk[chunk_index'].data = <<>>
    BY <2>4 DEF RInv, FilesInOrder
  <2>6. Rest' = <<>>
    <3>1. disk'[chunk_index'].data = <<>> /\ slice' = <<>>
      BY <1>2, <2>1, <2>5
    <3> QED
      BY <3>1 DEF Rest
  <2>7. FilesInOrder'
    <3>1. \A n \in Numbers : n > chunk_index' => disk'[n].kind # "ours"
      BY <1>2, <2>4, RestIs DEF RInv, FilesInOrder, Numbers
    <3> QED
      BY <1>2, <2>5, <3>1 DEF RInv, FilesInOrder
  <2>8. Stages'
    BY <1>2, <2>1, RestIs DEF RInv, Stages
  <2>9. Shape'
    <3>0. <<>> \in Seq(Bytes) /\ Ended(cfg.format, <<>>) /\ cfg.format \in Formats
      BY RestIs DEF Ended
    <3>1. PartOfStream(cfg.format, <<>>, "START")
      BY <3>0, EndedIsPart
    <3> QED
      BY <1>2, <2>1, <2>6, <3>1 DEF RInv, Shape, AtRecordEnd
  <2>10. MayEnd(cfg.format, Rest) \/ eof
    BY <2>1 DEF RInv, Shape, AtRecordEnd, MayEnd
  <2>11. Published' = Append(Published, Rest)
    <3> DEFINE m == chunk_index - 1
    <3>0. chunk_index \in Nat \ {0}
      BY RestIs
    <3>6. chunk_index' = chunk_index + 1
      BY <1>2
    <3>1. m \in Nat /\ chunk_index = m + 1 /\ chunk_index' - 1 = m + 1
      BY <3>0, <3>6
    <3>2. Published = [n \in 1 .. m |-> disk[n].data]
      BY DEF Published
    <3>3. Published' = [n \in 1 .. m + 1 |-> disk[n].data]
      BY <1>2, <3>1 DEF Published
    <3>4. \A n \in 1 .. m : disk[n].data \in Seq(Bytes)
      <4>1. 1 .. m \subseteq Numbers
        BY SnsliceAssumption, <3>1, RestIs DEF Numbers
      <4>2. \A n \in Numbers : disk[n] \in File
        BY DEF IInv, TypeOK
      <4>3. \A file \in File : file.data \in Seq(Bytes)
        BY DEF File
      <4> QED
        BY <4>1, <4>2, <4>3
    <3>5. disk[m + 1].data = Rest
      BY <2>2, <3>1
    <3> HIDE DEF m
    <3> QED
      BY <3>1, <3>2, <3>3, <3>4, <3>5, RestIs
  <2>12. S!Publish
    BY <1>2, <2>1, <2>3, <2>6, <2>10, <2>11 DEF S!Publish, Rest
  <2> QED
    BY <2>7, <2>8, <2>9, <2>12 DEF RInv, S!SNext
<1> QED
  BY <1>1, <1>2 DEF CloseChunk, Hazards

LEMMA EofImplements ==
  ASSUME IInv, RInv, Eof PROVE RInv' /\ S!SNext
<1>0. /\ pc = "byte" /\ slice = <<>> /\ slice' = <<>> /\ status = "running" /\ ~eof /\ eof' = TRUE
      /\ cfg' = cfg /\ csv_state' = csv_state /\ status \notin Hazards
  BY DEF Eof, RInv, Stages, Hazards
<1>1. CASE status' = "MALFORMED" /\ pc' = "done" /\ disk' \in Unlinked /\ fd' = FALSE
           /\ UNCHANGED <<chunk_index, chunk_bytes>>
  <2>1. /\ \A n \in Numbers : n # chunk_index => disk'[n] = disk[n]
        /\ disk'[chunk_index].kind # "ours" /\ disk'[chunk_index].data = <<>>
    <3>1. CASE fd
      <4>1. PICK file \in Remains : disk' = [disk EXCEPT ![chunk_index] = file]
        BY <1>1, <3>1 DEF Unlinked
      <4> QED
        BY <4>1, RemainsAreFiles DEF IInv, TypeOK
    <3>2. CASE ~fd
      BY <1>1, <3>2, RestIs DEF Unlinked, RInv, FilesInOrder
    <3> QED
      BY <3>1, <3>2
  <2>2. FilesInOrder'
    <3>1. \A n \in Numbers : disk'[n].kind # "ours" => disk'[n].data = <<>>
      BY <2>1 DEF RInv, FilesInOrder
    <3>2. \A n \in Numbers : n > chunk_index => disk'[n].kind # "ours"
      BY <2>1 DEF RInv, FilesInOrder
    <3> QED
      BY <1>1, <2>1, <3>1, <3>2 DEF FilesInOrder
  <2>3. Stages' /\ Shape'
    BY <1>0, <1>1 DEF RInv, Stages, Shape, AtRecordEnd
  <2>4. Rest' = <<>>
    <3>1. disk'[chunk_index'].data = <<>> /\ slice' = <<>>
      BY <1>0, <1>1, <2>1
    <3> QED
      BY <3>1 DEF Rest
  <2>5. Published' = Published
    BY <1>1, <2>1, PublishedIsKept
  <2>6. "MALFORMED" \in Hazards
    BY DEF Hazards
  <2>7. S!Fail
    BY <1>0, <1>1, <2>4, <2>5, <2>6 DEF S!Fail, Rest
  <2> QED
    BY <2>2, <2>3, <2>7 DEF RInv, S!SNext
<1>2. CASE /\ IF fd THEN pc' = "close" /\ UNCHANGED status ELSE pc' = "done" /\ status' = "ok"
           /\ UNCHANGED <<chunk_index, chunk_bytes, fd, disk>>
  <2>1. FilesInOrder'
    BY <1>2 DEF RInv, FilesInOrder
  <2>2. Stages' /\ Shape'
    BY <1>0, <1>2 DEF RInv, Stages, Shape, AtRecordEnd
  <2>3. Rest' = Rest /\ Published' = Published
    <3>1. Rest' = Rest
      BY <1>0, <1>2 DEF Rest
    <3> QED
      BY <1>2, <3>1, PublishedIsKept
  <2>4. CASE fd
    <3>1. S!Close
      BY <1>0, <1>2, <2>3, <2>4 DEF S!Close, Rest
    <3> QED
      BY <2>1, <2>2, <3>1 DEF RInv, S!SNext
  <2>5. CASE ~fd
    <3>1. Rest = <<>>
      <4>1. disk[chunk_index].data = <<>>
        BY <2>5, RestIs DEF RInv, FilesInOrder
      <4> QED
        BY <1>0, <4>1 DEF Rest
    <3>2. "ok" \notin Hazards
      BY DEF Hazards
    <3>3. S!Succeed
      BY <1>0, <1>2, <2>3, <2>5, <3>1, <3>2 DEF S!Succeed, Rest
    <3> QED
      BY <2>1, <2>2, <3>3 DEF RInv, S!SNext
  <2> QED
    BY <2>4, <2>5
<1> QED
  BY <1>1, <1>2 DEF Eof, counters

LEMMA StepImplements == IInv /\ IInv' /\ RInv /\ [Next]_vars => RInv' /\ [S!SNext]_S!stream
<1> SUFFICES ASSUME IInv, IInv', RInv, [Next]_vars PROVE RInv' /\ [S!SNext]_S!stream
  OBVIOUS
<1>1. CASE \E c \in Bytes : Byte(c)
  BY <1>1, ByteImplements
<1>2. CASE ReadError
  BY <1>2, AbortImplements DEF ReadError, Hazards, S!SNext
<1>3. CASE UNCHANGED vars
  <2>1. /\ UNCHANGED <<cfg, pc, csv_state, chunk_index, chunk_bytes, fd, eof, slice, disk, status>>
    BY <1>3 DEF vars, counters
  <2>2. Rest' = Rest /\ Published' = Published
    BY <2>1 DEF Rest, Published
  <2>3. RInv'
    BY <2>1, <2>2 DEF RInv, FilesInOrder, Stages, Shape, AtRecordEnd
  <2>4. UNCHANGED S!stream
    BY <2>1, <2>2 DEF S!stream, Rest
  <2> QED
    BY <2>3, <2>4
<1> QED
  BY <1>1, <1>2, <1>3, EndOfBufferImplements, OpenImplements, WriteImplements, CloseImplements,
     EofImplements DEF Next, Terminated

(* snslice implements ChunkStream: nothing of the input is lost, added or  *)
(* moved, a chunk before the last ends with a record of the grammar, and a *)
(* run that fails keeps the published chunks and publishes no other.       *)
THEOREM SlicingIsAChunkStream == Spec => ImplementsChunkStream
<1> QED
  BY InitOK, StepOK, RInitOK, StepImplements, PTL DEF Spec, ImplementsChunkStream, S!SSpec

-----------------------------------------------------------------------------
(* The automaton finds every end of a record that the grammar allows. *)

(* Induction over numbers is over sets of numbers. *)
LEMMA NaturalOrder ==
  \E R : /\ IsWellFoundedOn(R, Nat)
         /\ \A m, n \in Nat : n < m => <<n, m>> \in R
<1>1. \A m, n \in Nat : n < m => <<n, m>> \in OpToRel(<, Nat)
  BY DEF OpToRel
<1> QED
  BY <1>1, NatLessThanWellFounded, Zenon

LEMMA LeastNatural ==
  ASSUME NEW X, X \subseteq Nat, X # {}
  PROVE  \E m \in X : \A n \in X : m <= n
<1>1. PICK R : /\ IsWellFoundedOn(R, Nat)
               /\ \A m, n \in Nat : n < m => <<n, m>> \in R
  BY NaturalOrder
<1>2. PICK m \in X : \A n \in X : ~(<<n, m>> \in R)
  BY <1>1, WFMin
<1>3. ASSUME NEW n \in X PROVE m <= n
  <2>1. m \in Nat /\ n \in Nat
    OBVIOUS
  <2>2. ~(n < m)
    BY <1>1, <1>2, <2>1
  <2> QED
    BY <2>1, <2>2
<1> QED
  BY <1>3

LEMMA EveryNatural ==
  ASSUME NEW X, 0 \in X, \A n \in Nat : n \in X => n + 1 \in X
  PROVE  Nat \subseteq X
<1>1. SUFFICES ASSUME Nat \ X # {} PROVE FALSE
  OBVIOUS
<1>2. PICK m \in Nat \ X : \A n \in Nat \ X : m <= n
  <2>1. Nat \ X \subseteq Nat
    OBVIOUS
  <2> QED
    BY <1>1, <2>1, LeastNatural
<1>3. m # 0 /\ m - 1 \in Nat /\ ~(m <= m - 1)
  BY <1>2
<1>4. m - 1 \in X
  BY <1>2, <1>3
<1>5. (m - 1) + 1 = m
  BY <1>2
<1> QED
  BY <1>2, <1>3, <1>4, <1>5

LEMMA GreatestBelow ==
  ASSUME NEW X, X \subseteq Nat, NEW n \in Nat, \A m \in X : m < n, X # {}
  PROVE  \E m \in X : \A x \in X : x <= m
<1> DEFINE D == {n - m : m \in X}
<1>1. D \subseteq Nat /\ D # {}
  <2>1. \A m \in X : n - m \in Nat
    OBVIOUS
  <2> QED
    BY <2>1
<1> HIDE DEF D
<1>2. PICK d \in D : \A e \in D : d <= e
  BY <1>1, LeastNatural
<1>3. PICK m \in X : d = n - m
  BY <1>2 DEF D
<1>4. ASSUME NEW x \in X PROVE x <= m
  <2>1. n - x \in D
    BY DEF D
  <2>2. n - m <= n - x /\ x \in Nat /\ m \in Nat
    BY <1>2, <1>3, <2>1
  <2> QED
    BY <2>2
<1> QED
  BY <1>4

(* What passes from each place to the next passes from zero to all. *)
LEMMA PlaceByPlace ==
  ASSUME NEW places, places \subseteq Nat, 0 \in places, NEW good, 0 \in good,
         \A i, j \in places : Adjacent(places, i, j) /\ i \in good => j \in good
  PROVE  places \subseteq good
<1>1. SUFFICES ASSUME places \ good # {} PROVE FALSE
  OBVIOUS
<1>2. places \ good \subseteq Nat
  OBVIOUS
<1>3. PICK j \in places \ good : \A x \in places \ good : j <= x
  BY <1>1, <1>2, LeastNatural
<1> DEFINE X == {x \in places : x < j}
<1>4. X \subseteq Nat /\ j \in Nat /\ j # 0 /\ (\A m \in X : m < j) /\ X # {}
  <2>1. j \in Nat /\ j # 0
    OBVIOUS
  <2>2. 0 \in X
    BY <2>1
  <2> QED
    BY <2>1, <2>2
<1>5. PICK i \in X : \A x \in X : x <= i
  BY <1>4, GreatestBelow
<1>6. i \in places /\ i \in Nat /\ i < j
  BY <1>5
<1>7. Adjacent(places, i, j)
  <2>1. ASSUME NEW x \in places, x \in i + 1 .. j - 1 PROVE FALSE
    <3>1. x \in Nat /\ x < j /\ x > i
      BY <1>4, <1>6, <2>1
    <3> QED
      BY <1>5, <1>6, <3>1
  <2> QED
    BY <1>6, <2>1 DEF Adjacent
<1>8. i \in good
  <2> SUFFICES ASSUME i \notin good PROVE FALSE
    OBVIOUS
  <2>1. j <= i
    BY <1>3, <1>6
  <2> QED
    BY <1>4, <1>6, <2>1
<1> QED
  BY <1>3, <1>6, <1>7, <1>8

(* The states that the automaton passes while it reads s. *)
Reads(r, s, state) ==
  /\ r \in [0 .. Len(s) -> CsvStates] /\ r[0] = state
  /\ \A k \in 1 .. Len(s) : r[k] = CsvNext(r[k - 1], s[k])

(* The states passed from place a to place b. *)
Passed(r, a, b) == [k \in 0 .. b - a |-> r[a + k]]

(* A piece of s, from the state in which the automaton comes to it. *)
LEMMA PieceIsRead ==
  ASSUME NEW s \in Seq(Bytes), NEW r, NEW state, Reads(r, s, state),
         NEW a \in 0 .. Len(s), NEW b \in a .. Len(s)
  PROVE  /\ SubSeq(s, a + 1, b) \in Seq(Bytes) /\ Len(SubSeq(s, a + 1, b)) = b - a
         /\ \A i \in 1 .. b - a : SubSeq(s, a + 1, b)[i] = s[a + i]
         /\ Reads(Passed(r, a, b), SubSeq(s, a + 1, b), r[a])
         /\ \A k \in 0 .. b - a : Passed(r, a, b)[k] = r[a + k]
<1> DEFINE p == SubSeq(s, a + 1, b)
           t == Passed(r, a, b)
<1>1. a \in Nat /\ b \in Nat /\ a <= b /\ b <= Len(s) /\ Len(s) \in Nat /\ b - a \in Nat
  OBVIOUS
<1>2. p \in Seq(Bytes) /\ Len(p) = b - a /\ \A i \in 1 .. b - a : p[i] = s[a + i]
  <2>1. a + 1 \in Nat \ {0} /\ b \in (a + 1) - 1 .. Len(s) /\ b - (a + 1) + 1 = b - a
    BY <1>1
  <2>2. /\ SubSeq(s, a + 1, b) \in Seq(Bytes) /\ Len(SubSeq(s, a + 1, b)) = b - (a + 1) + 1
        /\ \A i \in 1 .. b - (a + 1) + 1 : SubSeq(s, a + 1, b)[i] = s[i + (a + 1) - 1]
    BY <2>1, SubSeqIs
  <2>3. \A i \in 1 .. b - a : i + (a + 1) - 1 = a + i
    BY <1>1
  <2> QED
    BY <2>1, <2>2, <2>3
<1> HIDE DEF p
<1>3. \A k \in 0 .. b - a : a + k \in 0 .. Len(s) /\ t[k] = r[a + k]
  BY <1>1 DEF Passed
<1>4. t \in [0 .. b - a -> CsvStates]
  BY <1>3 DEF Reads, Passed
<1>5. t[0] = r[a]
  BY <1>1 DEF Passed
<1>6. ASSUME NEW k \in 1 .. b - a PROVE t[k] = CsvNext(t[k - 1], p[k])
  <2>1. /\ k \in 0 .. b - a /\ k - 1 \in 0 .. b - a /\ a + k \in 1 .. Len(s)
        /\ (a + k) - 1 = a + (k - 1)
    BY <1>1
  <2>2. r[a + k] = CsvNext(r[(a + k) - 1], s[a + k])
    BY <2>1 DEF Reads
  <2> HIDE DEF t
  <2> QED
    BY <1>2, <1>3, <2>1, <2>2
<1> HIDE DEF t
<1>7. Reads(t, p, r[a])
  BY <1>2, <1>4, <1>5, <1>6 DEF Reads
<1> QED
  BY <1>2, <1>3, <1>7 DEF p, t

(* Between the quotes: the first of each pair may be the closing quote,    *)
(* the second takes it back.                                               *)
LEMMA DoubledIsRead ==
  ASSUME NEW s \in Seq(Bytes), NEW r, Reads(r, s, "QUOTED"), Doubled(s)
  PROVE  r[Len(s)] = "QUOTED"
<1> DEFINE Q == {i \in DOMAIN s : s[i] = "quote"}
<1>1. PICK first \in SUBSET Q :
        first \cap {i + 1 : i \in first} = {} /\ Q = first \cup {i + 1 : i \in first}
  BY DEF Doubled
<1>2. /\ DOMAIN s = 1 .. Len(s) /\ Len(s) \in Nat /\ Q \subseteq 1 .. Len(s)
      /\ \A i \in 1 .. Len(s) : i \in Q <=> s[i] = "quote"
  OBVIOUS
<1>3. \A i \in first : i \in Nat /\ i + 1 \in Q /\ i + 1 \notin first /\ i + 1 <= Len(s)
  BY <1>1, <1>2
<1> HIDE DEF Q
<1> DEFINE state(k) == IF k \in first THEN "ESCAPED_QUOTE" ELSE "QUOTED"
           X == {k \in Nat : k <= Len(s) => r[k] = state(k)}
<1>4. 0 \in X
  <2>1. 0 \notin first
    BY <1>1, <1>2
  <2> QED
    BY <2>1 DEF Reads
<1>5. ASSUME NEW k \in Nat, k \in X PROVE k + 1 \in X
  <2>1. SUFFICES ASSUME k + 1 <= Len(s) PROVE r[k + 1] = state(k + 1)
    OBVIOUS
  <2>2. r[k] = state(k) /\ k + 1 \in 1 .. Len(s) /\ (k + 1) - 1 = k
    BY <1>2, <1>5, <2>1
  <2>3. r[k + 1] = CsvNext(state(k), s[k + 1])
    BY <2>2 DEF Reads
  <2>4. CASE k \in first
    <3>1. s[k + 1] = "quote" /\ k + 1 \notin first
      BY <1>2, <1>3, <2>2, <2>4
    <3> QED
      BY <2>3, <2>4, <3>1 DEF CsvNext
  <2>5. CASE k \notin first
    <3>1. k + 1 \in Q <=> k + 1 \in first
      <4>1. ASSUME k + 1 \in {i + 1 : i \in first} PROVE FALSE
        <5>1. PICK i \in first : k + 1 = i + 1
          BY <4>1
        <5>2. k = i
          BY <1>3, <5>1
        <5> QED
          BY <2>5, <5>1, <5>2
      <4> QED
        BY <1>1, <4>1
    <3>2. k + 1 \in first <=> s[k + 1] = "quote"
      BY <1>2, <2>2, <3>1
    <3> QED
      BY <2>3, <2>5, <3>2 DEF CsvNext
  <2> QED
    BY <2>4, <2>5
<1> HIDE DEF X
<1>6. Len(s) \in X
  BY <1>2, <1>4, <1>5, EveryNatural
<1>7. Len(s) \notin first
  BY <1>2, <1>3
<1> QED
  BY <1>2, <1>6, <1>7 DEF X

(* A state that every byte of a stretch keeps. *)
LEMMA StateStays ==
  ASSUME NEW s \in Seq(Bytes), NEW r, NEW state, Reads(r, s, state),
         NEW a \in 0 .. Len(s), NEW b \in a .. Len(s),
         \A k \in a + 1 .. b : CsvNext(r[a], s[k]) = r[a]
  PROVE  r[b] = r[a]
<1> DEFINE X == {k \in Nat : a + k <= b => r[a + k] = r[a]}
<1>1. a \in Nat /\ b \in Nat /\ b - a \in Nat /\ a + (b - a) = b /\ b <= Len(s) /\ Len(s) \in Nat
  OBVIOUS
<1>2. 0 \in X
  BY <1>1
<1>3. ASSUME NEW k \in Nat, k \in X PROVE k + 1 \in X
  <2>1. SUFFICES ASSUME a + (k + 1) <= b PROVE r[a + (k + 1)] = r[a]
    BY DEF X
  <2>2. r[a + k] = r[a] /\ a + (k + 1) \in a + 1 .. b /\ a + (k + 1) \in 1 .. Len(s)
        /\ (a + (k + 1)) - 1 = a + k
    BY <1>1, <1>3, <2>1
  <2>3. r[a + (k + 1)] = CsvNext(r[a], s[a + (k + 1)])
    BY <2>2 DEF Reads
  <2> QED
    BY <2>2, <2>3
<1> HIDE DEF X
<1>4. b - a \in X
  BY <1>1, <1>2, <1>3, EveryNatural
<1> QED
  BY <1>1, <1>4 DEF X


LEMMA PieceBefore ==
  ASSUME NEW s \in Seq(Bytes), NEW r, NEW state, Reads(r, s, state),
         NEW a \in 0 .. Len(s), NEW j \in Nat, j - 1 \in a .. Len(s)
  PROVE  /\ SubSeq(s, a + 1, j - 1) \in Seq(Bytes) /\ Len(SubSeq(s, a + 1, j - 1)) = (j - 1) - a
         /\ \E t : Reads(t, SubSeq(s, a + 1, j - 1), r[a])
                   /\ \A n \in 0 .. (j - 1) - a : t[n] = r[a + n]
<1> DEFINE e == j - 1
<1>1. e \in a .. Len(s)
  OBVIOUS
<1> HIDE DEF e
<1>2. /\ SubSeq(s, a + 1, e) \in Seq(Bytes) /\ Len(SubSeq(s, a + 1, e)) = e - a
      /\ Reads(Passed(r, a, e), SubSeq(s, a + 1, e), r[a])
  BY <1>1, PieceIsRead
<1>3. \A n \in 0 .. e - a : Passed(r, a, e)[n] = r[a + n]
  BY <1>1, PieceIsRead
<1>4. \E t : Reads(t, SubSeq(s, a + 1, e), r[a]) /\ \A n \in 0 .. e - a : t[n] = r[a + n]
  BY <1>2, <1>3
<1> QED
  BY <1>2, <1>4 DEF e

LEMMA RestIsRead ==
  ASSUME NEW s \in Seq(Bytes), NEW r, NEW state, Reads(r, s, state), NEW a \in 0 .. Len(s)
  PROVE  /\ From(s, a + 1) \in Seq(Bytes) /\ Len(From(s, a + 1)) = Len(s) - a
         /\ \A i \in 1 .. Len(s) - a : From(s, a + 1)[i] = s[a + i]
         /\ \E t : Reads(t, From(s, a + 1), r[a]) /\ \A n \in 0 .. Len(s) - a : t[n] = r[a + n]
<1> DEFINE e == Len(s)
<1>1. e \in a .. Len(s)
  OBVIOUS
<1> HIDE DEF e
<1>2. /\ SubSeq(s, a + 1, e) \in Seq(Bytes) /\ Len(SubSeq(s, a + 1, e)) = e - a
      /\ \A i \in 1 .. e - a : SubSeq(s, a + 1, e)[i] = s[a + i]
      /\ Reads(Passed(r, a, e), SubSeq(s, a + 1, e), r[a])
      /\ \A n \in 0 .. e - a : Passed(r, a, e)[n] = r[a + n]
  BY <1>1, PieceIsRead
<1>3. \E t : Reads(t, SubSeq(s, a + 1, e), r[a]) /\ \A n \in 0 .. e - a : t[n] = r[a + n]
  BY <1>2
<1>4. From(s, a + 1) = SubSeq(s, a + 1, e)
  BY DEF From, e
<1>5. Len(s) = e
  BY DEF e
<1> QED
  BY <1>2, <1>3, <1>4, <1>5

LEMMA PlainIsRead ==
  ASSUME NEW g \in Seq(Bytes), NEW r, Reads(r, g, "START"), Plain(g), g # <<>> => g[1] # "cr"
  PROVE  r[Len(g)] # "QUOTED"
<1>1. CASE g = <<>>
  BY <1>1 DEF Reads
<1>2. CASE g # <<>>
  <2>1. Len(g) \in Nat /\ 1 \in 1 .. Len(g) /\ 1 \in 0 .. Len(g) /\ Len(g) \in 1 .. Len(g)
    BY <1>2
  <2>2. g[1] \notin {"comma", "lf", "quote", "cr"} /\ \A k \in 1 .. Len(g) : g[k] \notin {"comma", "lf"}
    BY <1>2, <2>1 DEF Plain
  <2>3. r[1] = CsvNext(r[1 - 1], g[1]) /\ r[1 - 1] = "START"
    BY <2>1 DEF Reads
  <2>4. r[1] = "UNQUOTED"
    BY <2>2, <2>3 DEF CsvNext
  <2>5. \A k \in 1 + 1 .. Len(g) : CsvNext(r[1], g[k]) = r[1]
    BY <2>1, <2>2, <2>4 DEF CsvNext
  <2>6. r[Len(g)] = r[1]
    BY <2>1, <2>5, StateStays
  <2> QED
    BY <2>4, <2>6
<1> QED
  BY <1>1, <1>2

LEMMA QuotedIsRead ==
  ASSUME NEW g \in Seq(Bytes), NEW r, Reads(r, g, "START"), Quoted(g)
  PROVE  r[Len(g)] # "QUOTED"
<1>1. PICK k \in 2 .. Len(g) :
        /\ g[k] = "quote" /\ Doubled(SubSeq(g, 2, k - 1))
        /\ \A i \in k + 1 .. Len(g) : g[i] = "cr"
  BY DEF Quoted
<1>2. /\ Len(g) \in Nat /\ 1 \in 1 .. Len(g) /\ 1 \in 0 .. Len(g) /\ k - 1 \in 1 .. Len(g)
      /\ k \in 1 .. Len(g) /\ k \in 0 .. Len(g) /\ Len(g) \in k .. Len(g) /\ 1 + 1 = 2
  BY <1>1
<1>3. r[1] = "QUOTED"
  <2>1. r[1] = CsvNext(r[1 - 1], g[1]) /\ r[1 - 1] = "START" /\ g[1] = "quote"
    BY <1>2 DEF Reads, Quoted
  <2> QED
    BY <2>1 DEF CsvNext
<1>4. r[k - 1] = "QUOTED"
  <2> DEFINE p == SubSeq(g, 1 + 1, k - 1)
  <2>1. /\ p \in Seq(Bytes) /\ Len(p) = (k - 1) - 1
        /\ \E t : Reads(t, p, r[1]) /\ \A n \in 0 .. (k - 1) - 1 : t[n] = r[1 + n]
    BY <1>2, PieceBefore
  <2>2. Doubled(p)
    BY <1>1, <1>2
  <2> HIDE DEF p
  <2>3. PICK t : Reads(t, p, "QUOTED") /\ \A n \in 0 .. (k - 1) - 1 : t[n] = r[1 + n]
    BY <1>3, <2>1
  <2>4. t[Len(p)] = "QUOTED"
    BY <2>1, <2>2, <2>3, DoubledIsRead
  <2>5. (k - 1) - 1 \in 0 .. (k - 1) - 1 /\ 1 + ((k - 1) - 1) = k - 1
    BY <1>1, <1>2
  <2> QED
    BY <2>1, <2>3, <2>4, <2>5
<1>5. r[k] = "ESCAPED_QUOTE"
  <2>1. r[k] = CsvNext(r[k - 1], g[k])
    BY <1>2 DEF Reads
  <2> QED
    BY <1>1, <1>4, <2>1 DEF CsvNext
<1>6. \A n \in k + 1 .. Len(g) : CsvNext(r[k], g[n]) = r[k]
  BY <1>1, <1>5 DEF CsvNext
<1>7. r[Len(g)] = r[k]
  BY <1>2, <1>6, StateStays
<1> QED
  BY <1>5, <1>7

(* A field does not end inside quotes. *)
LEMMA FieldIsRead ==
  ASSUME NEW f \in Seq(Bytes), NEW r, Reads(r, f, "START"), IsField(f)
  PROVE  r[Len(f)] # "QUOTED"
<1>1. PICK k \in 0 .. Len(f) :
        /\ \A i \in 1 .. k : f[i] = "cr"
        /\ k < Len(f) => f[k + 1] # "cr"
        /\ Plain(From(f, k + 1)) \/ Quoted(From(f, k + 1))
  BY DEF IsField
<1>2. Len(f) \in Nat /\ 0 \in 0 .. Len(f) /\ Len(f) \in k .. Len(f) /\ k \in Nat /\ k <= Len(f)
  OBVIOUS
<1>3. r[k] = "START"
  <2>1. r[0] = "START"
    BY DEF Reads
  <2>2. \A n \in 0 + 1 .. k : CsvNext(r[0], f[n]) = r[0]
    BY <1>1, <2>1 DEF CsvNext
  <2> QED
    BY <1>2, <2>1, <2>2, StateStays
<1> DEFINE g == From(f, k + 1)
<1>4. /\ g \in Seq(Bytes) /\ Len(g) = Len(f) - k
      /\ \A i \in 1 .. Len(f) - k : g[i] = f[k + i]
      /\ \E t : Reads(t, g, r[k]) /\ \A n \in 0 .. Len(f) - k : t[n] = r[k + n]
  BY RestIsRead
<1>5. g # <<>> => g[1] # "cr"
  <2> HIDE DEF g
  <2>1. g # <<>> => k < Len(f) /\ 1 \in 1 .. Len(f) - k
    BY <1>2, <1>4
  <2> QED
    BY <1>1, <1>4, <2>1
<1>6. Plain(g) \/ Quoted(g)
  BY <1>1
<1> HIDE DEF g
<1>7. PICK t : Reads(t, g, "START") /\ \A n \in 0 .. Len(f) - k : t[n] = r[k + n]
  BY <1>3, <1>4
<1>8. t[Len(g)] # "QUOTED"
  BY <1>4, <1>5, <1>6, <1>7, PlainIsRead, QuotedIsRead
<1>9. Len(f) - k \in 0 .. Len(f) - k /\ k + (Len(f) - k) = Len(f)
  BY <1>2
<1> QED
  BY <1>4, <1>7, <1>8, <1>9

(* Outside of quotes a comma and a line feed begin a field. *)
LEMMA SeparatorStarts ==
  ASSUME NEW s \in Seq(Bytes), NEW r, NEW state, Reads(r, s, state), NEW k \in 1 .. Len(s),
         s[k] \in {"comma", "lf"}, r[k - 1] # "QUOTED"
  PROVE  r[k] = "START"
<1>1. r[k] = CsvNext(r[k - 1], s[k]) /\ r[k - 1] \in CsvStates
  <2>1. k - 1 \in 0 .. Len(s)
    OBVIOUS
  <2> QED
    BY <2>1 DEF Reads
<1> QED
  BY <1>1 DEF CsvNext, CsvStates

LEMMA FieldsAreRead ==
  ASSUME NEW b \in Seq(Bytes), NEW r, Reads(r, b, "START"), AreFields(b)
  PROVE  r[Len(b)] # "QUOTED"
<1>1. PICK commas \in SUBSET {i \in DOMAIN b : b[i] = "comma"} :
        \A i, j \in commas \cup {0, Len(b) + 1} :
          Adjacent(commas \cup {0, Len(b) + 1}, i, j) => IsField(SubSeq(b, i + 1, j - 1))
  BY DEF AreFields
<1> DEFINE places == commas \cup {0, Len(b) + 1}
           good == {p \in Nat : p = 0 \/ (p \in 1 .. Len(b) + 1 /\ r[p - 1] # "QUOTED")}
<1>2. Len(b) \in Nat /\ commas \subseteq 1 .. Len(b) /\ \A i \in commas : b[i] = "comma"
  BY <1>1
<1>3. places \subseteq 0 .. Len(b) + 1 /\ places \subseteq Nat /\ 0 \in places /\ 0 \in good
  BY <1>2
<1>4. ASSUME NEW i \in places, NEW j \in places, Adjacent(places, i, j), i \in good
      PROVE  j \in good
  <2>1. /\ i < j /\ i \in Nat /\ j \in Nat /\ i \in 0 .. Len(b) /\ j \in 1 .. Len(b) + 1
        /\ j - 1 \in i .. Len(b)
    BY <1>2, <1>3, <1>4 DEF Adjacent
  <2>2. r[i] = "START"
    <3>1. CASE i = 0
      BY <3>1 DEF Reads
    <3>2. CASE i # 0
      <4>1. i \in commas /\ r[i - 1] # "QUOTED" /\ i \in 1 .. Len(b)
        BY <1>2, <1>4, <2>1, <3>2
      <4> QED
        BY <1>2, <4>1, SeparatorStarts
    <3> QED
      BY <3>1, <3>2
  <2> DEFINE f == SubSeq(b, i + 1, j - 1)
  <2>3. /\ f \in Seq(Bytes) /\ Len(f) = (j - 1) - i
        /\ \E t : Reads(t, f, r[i]) /\ \A n \in 0 .. (j - 1) - i : t[n] = r[i + n]
    BY <2>1, PieceBefore
  <2>4. IsField(f)
    BY <1>1, <1>4
  <2> HIDE DEF f
  <2>5. PICK t : Reads(t, f, "START") /\ \A n \in 0 .. (j - 1) - i : t[n] = r[i + n]
    BY <2>2, <2>3
  <2>6. t[Len(f)] # "QUOTED"
    BY <2>3, <2>4, <2>5, FieldIsRead
  <2>7. (j - 1) - i \in 0 .. (j - 1) - i /\ i + ((j - 1) - i) = j - 1
    BY <2>1
  <2>8. r[j - 1] # "QUOTED"
    BY <2>3, <2>5, <2>6, <2>7
  <2> QED
    BY <2>1, <2>8
<1> HIDE DEF places, good
<1>5. places \subseteq good
  BY <1>3, <1>4, PlaceByPlace
<1>6. Len(b) + 1 \in good
  BY <1>5 DEF places
<1> QED
  BY <1>2, <1>6 DEF good


LEMMA PrefixIsRead ==
  ASSUME NEW s \in Seq(Bytes), NEW r, NEW state, Reads(r, s, state), NEW e \in 0 .. Len(s)
  PROVE  /\ Upto(s, e) \in Seq(Bytes) /\ Len(Upto(s, e)) = e
         /\ \E t : Reads(t, Upto(s, e), state) /\ \A n \in 0 .. e : t[n] = r[n]
<1>1. PICK a : a = 0
  OBVIOUS
<1>2. a \in 0 .. Len(s) /\ e \in a .. Len(s) /\ a + 1 = 1 /\ e - a = e /\ r[a] = state
      /\ \A n \in 0 .. e : a + n = n
  BY <1>1 DEF Reads
<1>3. /\ SubSeq(s, a + 1, e) \in Seq(Bytes) /\ Len(SubSeq(s, a + 1, e)) = e - a
      /\ \E t : Reads(t, SubSeq(s, a + 1, e), r[a]) /\ \A n \in 0 .. e - a : t[n] = r[a + n]
  <2> HIDE <1>1
  <2>1. /\ SubSeq(s, a + 1, e) \in Seq(Bytes) /\ Len(SubSeq(s, a + 1, e)) = e - a
        /\ Reads(Passed(r, a, e), SubSeq(s, a + 1, e), r[a])
        /\ \A n \in 0 .. e - a : Passed(r, a, e)[n] = r[a + n]
    BY <1>2, PieceIsRead
  <2> QED
    BY <2>1
<1>4. SubSeq(s, a + 1, e) = Upto(s, e)
  BY <1>2 DEF Upto
<1> QED
  BY <1>2, <1>3, <1>4

(* A record does not end inside quotes. *)
LEMMA RecordIsRead ==
  ASSUME NEW f \in Seq(Bytes), NEW r, Reads(r, f, "START"), IsRecord("csv", f)
  PROVE  Len(f) \in Nat \ {0} /\ r[Len(f) - 1] # "QUOTED"
<1> DEFINE e == Len(f) - 1
           g == Upto(f, e)
<1>1. Len(f) \in Nat \ {0} /\ e \in 0 .. Len(f) /\ e \in 0 .. e
  BY DEF IsRecord
<1>2. AreFields(g)
  BY DEF IsRecord
<1> HIDE DEF e
<1>3. g \in Seq(Bytes) /\ Len(g) = e /\ \E t : Reads(t, g, "START") /\ \A n \in 0 .. e : t[n] = r[n]
  BY <1>1, PrefixIsRead
<1> HIDE DEF g
<1>4. PICK t : Reads(t, g, "START") /\ \A n \in 0 .. e : t[n] = r[n]
  BY <1>3
<1>5. t[Len(g)] # "QUOTED"
  BY <1>2, <1>3, <1>4, FieldsAreRead
<1>6. r[e] # "QUOTED"
  BY <1>1, <1>3, <1>4, <1>5
<1> QED
  BY <1>1, <1>6 DEF e

LEMMA RecordsAreRead ==
  ASSUME NEW s \in Seq(Bytes), NEW r, Reads(r, s, "START"), WholeRecords("csv", s)
  PROVE  Len(s) \in Nat \ {0} /\ s[Len(s)] = "lf" /\ r[Len(s) - 1] # "QUOTED"
<1>1. PICK ends \in SUBSET {i \in DOMAIN s : s[i] = "lf"} :
        /\ Len(s) \in ends
        /\ \A i, j \in ends \cup {0} :
             Adjacent(ends \cup {0}, i, j) => IsRecord("csv", SubSeq(s, i + 1, j))
  BY DEF WholeRecords
<1> DEFINE places == ends \cup {0}
           good == {p \in Nat : p = 0 \/ (p \in 1 .. Len(s) /\ r[p - 1] # "QUOTED")}
<1>2. Len(s) \in Nat /\ ends \subseteq 1 .. Len(s) /\ \A i \in ends : s[i] = "lf"
  BY <1>1
<1>3. places \subseteq 0 .. Len(s) /\ places \subseteq Nat /\ 0 \in places /\ 0 \in good
  BY <1>2
<1>4. ASSUME NEW i \in places, NEW j \in places, Adjacent(places, i, j), i \in good
      PROVE  j \in good
  <2>1. /\ i < j /\ i \in Nat /\ j \in Nat /\ i \in 0 .. Len(s) /\ j \in i .. Len(s)
        /\ j \in 1 .. Len(s)
    BY <1>2, <1>3, <1>4 DEF Adjacent
  <2>2. r[i] = "START"
    <3>1. CASE i = 0
      BY <3>1 DEF Reads
    <3>2. CASE i # 0
      <4>1. s[i] = "lf" /\ r[i - 1] # "QUOTED" /\ i \in 1 .. Len(s)
        BY <1>2, <1>4, <2>1, <3>2
      <4> QED
        BY <1>2, <4>1, SeparatorStarts
    <3> QED
      BY <3>1, <3>2
  <2> DEFINE f == SubSeq(s, i + 1, j)
  <2>3. IsRecord("csv", f)
    BY <1>1, <1>4
  <2> HIDE DEF places, good
  <2>4. /\ f \in Seq(Bytes) /\ Len(f) = j - i
        /\ Reads(Passed(r, i, j), f, r[i])
        /\ \A n \in 0 .. j - i : Passed(r, i, j)[n] = r[i + n]
    BY <2>1, PieceIsRead
  <2> HIDE DEF f
  <2>5. PICK t : Reads(t, f, "START") /\ \A n \in 0 .. j - i : t[n] = r[i + n]
    BY <2>2, <2>4
  <2>6. t[Len(f) - 1] # "QUOTED"
    BY <2>3, <2>4, <2>5, RecordIsRead
  <2>7. (j - i) - 1 \in 0 .. j - i /\ i + ((j - i) - 1) = j - 1
    BY <2>1
  <2>8. r[j - 1] # "QUOTED"
    BY <2>4, <2>5, <2>6, <2>7
  <2> QED
    BY <2>1, <2>8 DEF good
<1> HIDE DEF places, good
<1>5. places \subseteq good
  BY <1>3, <1>4, PlaceByPlace
<1>6. Len(s) \in good /\ Len(s) \in ends
  BY <1>1, <1>5 DEF places
<1> QED
  BY <1>2, <1>6 DEF good

(* What the automaton was in before each byte, and is in now. *)
Now(s, state) == \E r : Reads(r, s, "START") /\ r[Len(s)] = state

LEMMA NothingIsRead == Now(<<>>, "START")
<1> DEFINE r == [k \in 0 .. 0 |-> "START"]
<1>1. Len(<<>>) = 0 /\ r \in [0 .. 0 -> CsvStates] /\ r[0] = "START" /\ 1 .. 0 = {}
  BY DEF CsvStates
<1> HIDE DEF r
<1>2. Reads(r, <<>>, "START") /\ r[Len(<<>>)] = "START"
  BY <1>1 DEF Reads
<1> QED
  BY <1>2 DEF Now

LEMMA CsvNextIs ==
  ASSUME NEW state \in CsvStates, NEW c PROVE CsvNext(state, c) \in CsvStates
BY DEF CsvNext, CsvStates

LEMMA ReadsGrow ==
  ASSUME NEW s \in Seq(Bytes), NEW r, Reads(r, s, "START"), NEW c \in Bytes
  PROVE  \E t : /\ Reads(t, Append(s, c), "START")
                /\ t[Len(s) + 1] = CsvNext(r[Len(s)], c) /\ t[Len(s)] = r[Len(s)]
<1> DEFINE h == Append(s, c)
           n == Len(s)
           t == [k \in 0 .. n + 1 |-> IF k = n + 1 THEN CsvNext(r[n], c) ELSE r[k]]
<1>1. /\ h \in Seq(Bytes) /\ Len(h) = n + 1 /\ n \in Nat /\ h[n + 1] = c
      /\ \A i \in 1 .. n : h[i] = s[i]
  BY AppendIs
<1>2. /\ r \in [0 .. n -> CsvStates] /\ r[0] = "START"
      /\ \A k \in 1 .. n : r[k] = CsvNext(r[k - 1], s[k])
  BY DEF Reads
<1> HIDE DEF h, n
<1>3. n \in 0 .. n /\ n # n + 1 /\ 0 # n + 1 /\ n \in 0 .. n + 1 /\ n + 1 \in 0 .. n + 1
      /\ 0 \in 0 .. n + 1 /\ (n + 1) - 1 = n
  BY <1>1
<1>4. t[n + 1] = CsvNext(r[n], c) /\ t[n] = r[n] /\ t[0] = "START"
  BY <1>2, <1>3
<1>5. \A k \in 0 .. n : t[k] = r[k]
  BY <1>1
<1>6. t \in [0 .. n + 1 -> CsvStates]
  <2>1. CsvNext(r[n], c) \in CsvStates
    BY <1>2, <1>3, CsvNextIs
  <2>2. \A k \in 0 .. n + 1 : k # n + 1 => k \in 0 .. n
    BY <1>1
  <2> QED
    BY <1>2, <2>1, <2>2
<1> HIDE DEF t
<1>7. ASSUME NEW k \in 1 .. n + 1 PROVE t[k] = CsvNext(t[k - 1], h[k])
  <2>1. CASE k = n + 1
    BY <1>1, <1>3, <1>4, <2>1
  <2>2. CASE k # n + 1
    <3>1. k \in 1 .. n /\ k \in 0 .. n /\ k - 1 \in 0 .. n
      BY <1>1, <2>2
    <3> QED
      BY <1>1, <1>2, <1>5, <3>1
  <2> QED
    BY <2>1, <2>2
<1>8. Reads(t, h, "START")
  BY <1>1, <1>4, <1>6, <1>7 DEF Reads
<1> QED
  BY <1>4, <1>8 DEF h, n

(* What the automaton made of s. *)
LimitReached(c, data, k) ==
  \/ c.limit_bytes > 0 /\ k >= c.limit_bytes
  \/ c.limit_records > 0
     /\ Cardinality({j \in Cuts(c.format, data) : j <= k}) >= c.limit_records

Unfilled(c, data) == \A k \in Cuts(c.format, data) : ~LimitReached(c, data, k)

FilledAtEnd(c, data) ==
  \A k \in Cuts(c.format, data) : LimitReached(c, data, k) => k >= Len(data)

(* Before the end of the input the automaton was in the states it has to   *)
(* be in, and the records of the active chunk are counted.                 *)
Counting ==
  pc # "done" /\ ~eof =>
    /\ cfg.format = "csv" => Now(Rest, csv_state)
    /\ ~SpacedQuotes(Rest) =>
         Cardinality(Cuts(cfg.format, Rest)) = chunk_records + (IF pc = "record" THEN 1 ELSE 0)

(* No limit was passed by; one is reached when the chunk is to be closed.  *)
Filling ==
  ~SpacedQuotes(Rest) =>
    /\ pc \in {"byte", "part"} \/ (pc = "close" /\ eof) => Unfilled(cfg, Rest)
    /\ AtRecordEnd => Len(Rest) \in Cuts(cfg.format, Rest) /\ FilledAtEnd(cfg, Rest)
    /\ pc = "close" /\ ~eof => LimitReached(cfg, Rest, Len(Rest))

InTime(c, data) == FilledAtEnd(c, data) /\ LimitReached(c, data, Len(data))

Filled ==
  \A n \in 1 .. chunk_index - 1 :
    ~SpacedQuotes(disk[n].data) =>
      \/ InTime(cfg, disk[n].data)
      \/ FilledAtEnd(cfg, disk[n].data) /\ pc = "done" /\ eof /\ n = chunk_index - 1

TInv == Counting /\ Filling /\ Filled

(* The automaton finds every cut that the grammar allows, and no other. *)
LEMMA CutsGrow ==
  ASSUME NEW format \in Formats, NEW s \in Seq(Bytes), NEW state \in CsvStates, NEW c \in Bytes,
         PartOfStream(format, s, state), format = "csv" => Now(s, state)
  PROVE  Cuts(format, Append(s, c)) =
           Cuts(format, s) \cup (IF EndsRecord(format, state, c) THEN {Len(s) + 1} ELSE {})
<1> DEFINE h == Append(s, c)
           n == Len(s)
<1>1. h \in Seq(Bytes) /\ Len(h) = n + 1 /\ n \in Nat /\ h[n + 1] = c /\ h # <<>>
  BY AppendIs
<1>2. \A k \in 1 .. n : Upto(h, k) = Upto(s, k)
  BY UptoOfAppend
<1>3. Upto(h, Len(h)) = h
  BY <1>1, UptoAll
<1>4. WholeRecords(format, h) <=> EndsRecord(format, state, c)
  <2>1. ASSUME EndsRecord(format, state, c) PROVE WholeRecords(format, h)
    BY <2>1, StreamEnds DEF EndsRecord
  <2>2. ASSUME WholeRecords(format, h), format = "csv" PROVE EndsRecord(format, state, c)
    <3>1. PICK r : Reads(r, s, "START") /\ r[Len(s)] = state
      BY <2>2 DEF Now
    <3>2. PICK t : /\ Reads(t, h, "START") /\ t[Len(s)] = r[Len(s)]
      BY <3>1, ReadsGrow
    <3>3. h[Len(h)] = "lf" /\ t[Len(h) - 1] # "QUOTED"
      <4> HIDE DEF h
      <4> QED
        BY <1>1, <2>2, <3>2, RecordsAreRead
    <3>4. Len(h) - 1 = Len(s)
      BY <1>1
    <3> QED
      BY <1>1, <3>1, <3>2, <3>3, <3>4 DEF EndsRecord
  <2>3. ASSUME WholeRecords(format, h), format = "ndjson" PROVE EndsRecord(format, state, c)
    <3>1. h[Len(h)] = "lf"
      BY <2>3 DEF WholeRecords
    <3> QED
      BY <1>1, <2>3, <3>1 DEF EndsRecord
  <2> QED
    BY <2>1, <2>2, <2>3 DEF Formats
<1> HIDE DEF h, n
<1>5. Cuts(format, h) = {k \in 1 .. n + 1 : WholeRecords(format, Upto(h, k))}
  BY <1>1 DEF Cuts
<1>6. Cuts(format, s) = {k \in 1 .. n : WholeRecords(format, Upto(s, k))}
  BY DEF Cuts, n
<1>7. \A k : k \in 1 .. n + 1 <=> (k \in 1 .. n \/ k = n + 1)
  BY <1>1
<1>8. \A k : k \in Cuts(format, h) <=> (k \in Cuts(format, s) \/ (k = n + 1 /\ EndsRecord(format, state, c)))
  BY <1>1, <1>2, <1>3, <1>4, <1>5, <1>6, <1>7
<1>9. Cuts(format, h) = Cuts(format, s) \cup (IF EndsRecord(format, state, c) THEN {n + 1} ELSE {})
  BY <1>8
<1> QED
  BY <1>9 DEF h, n

LEMMA CutsAreFinite ==
  ASSUME NEW format, NEW s \in Seq(Bytes)
  PROVE  /\ Cuts(format, s) \subseteq 1 .. Len(s) /\ IsFiniteSet(Cuts(format, s))
         /\ Cardinality(Cuts(format, s)) \in Nat
<1>1. Cuts(format, s) \subseteq 1 .. Len(s)
  BY DEF Cuts
<1>2. Len(s) \in Int /\ 1 \in Int
  OBVIOUS
<1>3. IsFiniteSet(1 .. Len(s))
  BY <1>2, FS_Interval
<1>4. IsFiniteSet(Cuts(format, s))
  BY <1>1, <1>3, FS_Subset
<1> QED
  BY <1>1, <1>4, FS_CardinalityType

(* What more of the stream leaves as it was. *)
LEMMA LimitsGrow ==
  ASSUME NEW c, NEW s \in Seq(Bytes), NEW b \in Bytes, NEW ended \in BOOLEAN,
         Cuts(c.format, Append(s, b)) =
           Cuts(c.format, s) \cup (IF ended THEN {Len(s) + 1} ELSE {}),
         Unfilled(c, s)
  PROVE  /\ ~ended => /\ Unfilled(c, Append(s, b))
                      /\ Cardinality(Cuts(c.format, Append(s, b))) = Cardinality(Cuts(c.format, s))
         /\ ended => /\ Len(Append(s, b)) \in Cuts(c.format, Append(s, b))
                     /\ FilledAtEnd(c, Append(s, b))
                     /\ Cardinality(Cuts(c.format, Append(s, b))) = Cardinality(Cuts(c.format, s)) + 1
<1> DEFINE h == Append(s, b)
           n == Len(s)
           old == Cuts(c.format, s)
           new == Cuts(c.format, h)
<1>1. Len(h) = n + 1 /\ n \in Nat
  BY AppendIs
<1>2. old \subseteq 1 .. n /\ IsFiniteSet(old)
  BY CutsAreFinite
<1>3. new = old \cup (IF ended THEN {n + 1} ELSE {})
  OBVIOUS
<1>4. ASSUME NEW k \in old PROVE ~LimitReached(c, h, k)
  <2>1. ~LimitReached(c, s, k)
    BY DEF Unfilled
  <2> HIDE DEF h, n, old, new
  <2>2. k \in 1 .. n
    BY <1>2
  <2>3. {j \in new : j <= k} = {j \in old : j <= k}
    BY <1>1, <1>2, <1>3, <2>2
  <2>4. /\ ~(c.limit_bytes > 0 /\ k >= c.limit_bytes)
        /\ ~(c.limit_records > 0 /\ Cardinality({j \in old : j <= k}) >= c.limit_records)
    BY <2>1 DEF LimitReached, old
  <2> QED
    BY <2>3, <2>4 DEF LimitReached, new
<1>5. CASE ~ended
  <2>1. new = old
    BY <1>3, <1>5
  <2> HIDE DEF h, n, old
  <2>2. Unfilled(c, h)
    BY <1>4, <2>1 DEF Unfilled
  <2> QED
    BY <1>5, <2>1, <2>2 DEF h, old
<1>6. CASE ended
  <2> HIDE DEF h, n, old, new
  <2>1. new = old \cup {n + 1} /\ n + 1 \notin old
    BY <1>1, <1>2, <1>3, <1>6
  <2>2. Cardinality(new) = Cardinality(old) + 1
    BY <1>2, <2>1, FS_AddElement
  <2>3. ASSUME NEW k \in new, LimitReached(c, h, k) PROVE k >= Len(h)
    <3>1. k = n + 1
      BY <1>4, <2>1, <2>3
    <3> QED
      BY <1>1, <3>1
  <2>4. FilledAtEnd(c, h) /\ Len(h) \in new
    BY <1>1, <2>1, <2>3 DEF FilledAtEnd, new
  <2> QED
    BY <1>6, <2>2, <2>4 DEF h, old, new
<1> QED
  BY <1>5, <1>6

(* At the end of the bytes all cuts have been counted. *)
LEMMA LimitAtEnd ==
  ASSUME NEW c, NEW s \in Seq(Bytes)
  PROVE  LimitReached(c, s, Len(s)) <=>
           \/ c.limit_bytes > 0 /\ Len(s) >= c.limit_bytes
           \/ c.limit_records > 0 /\ Cardinality(Cuts(c.format, s)) >= c.limit_records
<1> DEFINE X == Cuts(c.format, s)
<1>1. X \subseteq 1 .. Len(s) /\ Len(s) \in Nat
  BY CutsAreFinite
<1> HIDE DEF X
<1>2. {j \in X : j <= Len(s)} = X
  <2>1. \A j \in X : j <= Len(s)
    BY <1>1
  <2> QED
    BY <2>1
<1> QED
  BY <1>2 DEF LimitReached, X

-----------------------------------------------------------------------------
(* Each step keeps the count. *)

LEMMA FilledIsKept ==
  ASSUME IInv, Filled, pc # "done", cfg' = cfg, chunk_index' = chunk_index,
         \A n \in Numbers : n # chunk_index => disk'[n] = disk[n]
  PROVE  Filled'
<1>1. \A n \in 1 .. chunk_index - 1 : n \in Numbers /\ n # chunk_index
  BY SnsliceAssumption DEF IInv, TypeOK, Numbers
<1>2. \A n \in 1 .. chunk_index - 1 : disk'[n] = disk[n]
  BY <1>1
<1>3. \A n \in 1 .. chunk_index - 1 : ~SpacedQuotes(disk[n].data) => InTime(cfg, disk[n].data)
  BY DEF Filled
<1> QED
  BY <1>2, <1>3 DEF Filled

LEMMA StoppedIsCounted ==
  ASSUME IInv, TInv, pc # "done", pc' = "done", cfg' = cfg, chunk_index' = chunk_index,
         \A n \in Numbers : n # chunk_index => disk'[n] = disk[n]
  PROVE  TInv'
<1>1. Filled'
  BY FilledIsKept DEF TInv
<1>2. Counting' /\ Filling'
  BY DEF Counting, Filling, AtRecordEnd
<1> QED
  BY <1>1, <1>2 DEF TInv

LEMMA UnlinkedIsKept ==
  ASSUME IInv, disk' \in Unlinked
  PROVE  \A n \in Numbers : n # chunk_index => disk'[n] = disk[n]
<1>1. disk' = disk \/ \E file : disk' = [disk EXCEPT ![chunk_index] = file]
  BY DEF Unlinked
<1> QED
  BY <1>1 DEF IInv, TypeOK

LEMMA AbortCounts ==
  ASSUME IInv, TInv, pc # "done", NEW h \in Hazards, Abort(h)
  PROVE  TInv'
BY UnlinkedIsKept, StoppedIsCounted DEF Abort, counters

LEMMA ByteCounts ==
  ASSUME IInv, RInv, TInv, NEW c \in Bytes, Byte(c)
  PROVE  TInv'
<1>0. pc = "byte" /\ ~eof
  BY DEF Byte, RInv, Stages
<1>1. CASE \E h \in Hazards : Abort(h)
  BY <1>0, <1>1, AbortCounts
<1>2. CASE /\ slice' = Append(slice, c) /\ csv_state' = NextState(c)
           /\ pc' = IF Boundary(csv_state, c) THEN "record" ELSE "byte"
           /\ UNCHANGED <<cfg, chunk_index, chunk_records, eof, disk>>
  <2> DEFINE ended == Boundary(csv_state, c)
  <2>1. Rest' = Append(Rest, c) /\ Rest \in Seq(Bytes) /\ csv_state \in CsvStates /\ cfg.format \in Formats
    BY <1>2, RestIs, AppendLast DEF Rest
  <2>2. ended <=> EndsRecord(cfg.format, csv_state, c)
    BY DEF Boundary, EndsRecord
  <2>3. cfg.format = "csv" => Now(Rest, csv_state) /\ Now(Rest', csv_state')
    <3> SUFFICES ASSUME cfg.format = "csv" PROVE Now(Rest, csv_state) /\ Now(Rest', csv_state')
      OBVIOUS
    <3>1. Now(Rest, csv_state)
      BY <1>0 DEF TInv, Counting
    <3>2. PICK r : Reads(r, Rest, "START") /\ r[Len(Rest)] = csv_state
      BY <3>1 DEF Now
    <3>3. PICK t : Reads(t, Append(Rest, c), "START") /\ t[Len(Rest) + 1] = CsvNext(csv_state, c)
      BY <2>1, <3>2, ReadsGrow
    <3>4. Len(Append(Rest, c)) = Len(Rest) + 1
      BY <2>1, AppendIs
    <3>5. csv_state' = CsvNext(csv_state, c)
      BY <1>2 DEF NextState
    <3>6. Now(Append(Rest, c), CsvNext(csv_state, c))
      BY <3>3, <3>4 DEF Now
    <3> QED
      BY <2>1, <3>1, <3>5, <3>6
  <2>4. SpacedQuotes(Rest) => SpacedQuotes(Rest')
    BY <2>1, SpacedGrows
  <2>5. ASSUME ~SpacedQuotes(Rest')
        PROVE  /\ ~ended => /\ Unfilled(cfg, Rest')
                            /\ Cardinality(Cuts(cfg.format, Rest')) = chunk_records
               /\ ended => /\ Len(Rest') \in Cuts(cfg.format, Rest') /\ FilledAtEnd(cfg, Rest')
                           /\ Cardinality(Cuts(cfg.format, Rest')) = chunk_records + 1
    <3>1. PartOfStream(cfg.format, Rest, csv_state)
      BY <1>0, <2>4, <2>5 DEF RInv, Shape
    <3>2. Cuts(cfg.format, Append(Rest, c)) =
            Cuts(cfg.format, Rest) \cup (IF ended THEN {Len(Rest) + 1} ELSE {})
      BY <2>1, <2>2, <2>3, <3>1, CutsGrow
    <3>3. Unfilled(cfg, Rest) /\ Cardinality(Cuts(cfg.format, Rest)) = chunk_records + 0
      BY <1>0, <2>4, <2>5 DEF TInv, Counting, Filling
    <3>4. Cardinality(Cuts(cfg.format, Rest)) = chunk_records
      BY <3>3 DEF IInv, TypeOK
    <3>5. ended \in BOOLEAN
      BY DEF Boundary
    <3> HIDE DEF ended
    <3> QED
      BY <2>1, <3>2, <3>3, <3>4, <3>5, LimitsGrow
  <2>6. pc' = (IF ended THEN "record" ELSE "byte") /\ cfg' = cfg /\ chunk_records' = chunk_records
        /\ eof' = eof /\ chunk_records + 0 = chunk_records
    BY <1>2 DEF IInv, TypeOK
  <2>7. Counting'
    BY <2>3, <2>5, <2>6 DEF Counting
  <2>8. Filling'
    BY <1>0, <2>5, <2>6 DEF Filling, AtRecordEnd
  <2>9. Filled'
    BY <1>0, <1>2, FilledIsKept DEF TInv
  <2> QED
    BY <2>7, <2>8, <2>9 DEF TInv
<1> QED
  BY <1>1, <1>2 DEF Byte, Hazards

(* Steps that neither read nor count. *)
LEMMA SameIsCounted ==
  ASSUME IInv, TInv, pc # "done", AtRecordEnd <=> AtRecordEnd', (pc = "record") <=> (pc' = "record"),
         (pc \in {"byte", "part"} \/ (pc = "close" /\ eof)) <=>
           (pc' \in {"byte", "part"} \/ (pc' = "close" /\ eof')),
         (pc = "close" /\ ~eof) <=> (pc' = "close" /\ ~eof'),
         pc' # "done" /\ ~eof' => ~eof /\ UNCHANGED <<csv_state, chunk_records>>,
         Rest' = Rest, cfg' = cfg, chunk_index' = chunk_index,
         \A n \in Numbers : n # chunk_index => disk'[n] = disk[n]
  PROVE  TInv'
<1>1. Filled'
  BY FilledIsKept DEF TInv
<1>2. Counting'
  BY DEF TInv, Counting
<1>3. Filling'
  BY DEF TInv, Filling
<1> QED
  BY <1>1, <1>2, <1>3 DEF TInv

LEMMA EndOfBufferCounts == ASSUME IInv, TInv, EndOfBuffer PROVE TInv'
<1>1. pc = "byte" /\ pc' = "part"
      /\ UNCHANGED <<cfg, csv_state, chunk_index, chunk_records, eof, slice, disk>>
  BY DEF EndOfBuffer, counters
<1>2. Rest' = Rest
  BY <1>1 DEF Rest
<1> QED
  BY <1>1, <1>2, SameIsCounted DEF AtRecordEnd

LEMMA OpenCounts == ASSUME IInv, TInv, OpenChunk PROVE TInv'
<1>1. CASE \E h \in Hazards : Abort(h)
  BY <1>1, AbortCounts DEF OpenChunk
<1>2. CASE /\ disk[chunk_index] = Absent
           /\ disk' = [disk EXCEPT ![chunk_index] = Ours(<<>>)]
           /\ UNCHANGED <<cfg, pc, csv_state, chunk_index, chunk_records, eof, slice>>
  <2>1. /\ \A n \in Numbers : n # chunk_index => disk'[n] = disk[n]
        /\ disk'[chunk_index].data = <<>> /\ disk[chunk_index].data = <<>>
    BY <1>2, RestIs DEF IInv, TypeOK, Ours, Absent
  <2>2. Rest' = Rest
    BY <1>2, <2>1 DEF Rest
  <2>3. pc # "done"
    BY DEF OpenChunk
  <2> QED
    BY <1>2, <2>1, <2>2, <2>3, SameIsCounted DEF AtRecordEnd
<1> QED
  BY <1>1, <1>2 DEF OpenChunk, Hazards, counters

LEMMA WriteCounts == ASSUME IInv, RInv, TInv, WriteChunk PROVE TInv'
<1>0. fd /\ pc \in {"record", "part"} /\ pc # "done" /\ ~eof
  BY DEF WriteChunk, RInv, Stages
<1>1. CASE \E h \in Hazards : Abort(h)
  BY <1>0, <1>1, AbortCounts
<1>2. CASE /\ disk' = [disk EXCEPT ![chunk_index] = Ours(@.data \o slice)]
           /\ slice' = <<>> /\ chunk_bytes' = chunk_bytes + Len(slice)
           /\ IF pc = "record"
              THEN /\ chunk_records' = chunk_records + 1
                   /\ pc' = IF ShouldSplit(chunk_bytes', chunk_records') THEN "close" ELSE "byte"
              ELSE pc' = "byte" /\ UNCHANGED chunk_records
           /\ UNCHANGED <<cfg, csv_state, chunk_index, fd, eof>>
  <2>1. /\ \A n \in Numbers : n # chunk_index => disk'[n] = disk[n]
        /\ disk'[chunk_index].data = Rest
    BY <1>2, RestIs DEF IInv, TypeOK, Ours, Rest
  <2>2. Rest' = Rest
    <3>1. Rest' = Rest \o <<>>
      BY <1>2, <2>1 DEF Rest
    <3> QED
      BY <3>1, RestIs
  <2>3. CASE pc = "part"
    BY <1>0, <1>2, <2>1, <2>2, <2>3, SameIsCounted DEF AtRecordEnd
  <2>4. CASE pc = "record"
    <3>1. Len(Rest) = chunk_bytes'
      <4>1. Len(Rest) = Len(disk[chunk_index].data) + Len(slice)
        BY RestIs DEF Rest
      <4> QED
        BY <1>0, <1>2, <4>1 DEF RInv, FilesInOrder
    <3>2. chunk_records' = chunk_records + 1 /\ chunk_records' + 0 = chunk_records'
          /\ pc' = IF ShouldSplit(chunk_bytes', chunk_records') THEN "close" ELSE "byte"
      BY <1>2, <2>4 DEF IInv, TypeOK
    <3>3. cfg.format = "csv" => Now(Rest, csv_state)
      BY <1>0 DEF TInv, Counting
    <3>4. ~SpacedQuotes(Rest) =>
            /\ Cardinality(Cuts(cfg.format, Rest)) = chunk_records'
            /\ Len(Rest) \in Cuts(cfg.format, Rest) /\ FilledAtEnd(cfg, Rest)
      BY <1>0, <2>4, <3>2 DEF TInv, Counting, Filling, AtRecordEnd
    <3>5. Counting'
      BY <1>2, <2>2, <3>2, <3>3, <3>4 DEF Counting
    <3>6. ~SpacedQuotes(Rest) => (LimitReached(cfg, Rest, Len(Rest)) <=> ShouldSplit(chunk_bytes', chunk_records'))
      BY <3>1, <3>4, RestIs, LimitAtEnd DEF ShouldSplit
    <3>7. ASSUME ~SpacedQuotes(Rest), ~ShouldSplit(chunk_bytes', chunk_records') PROVE Unfilled(cfg, Rest)
      <4>1. ASSUME NEW k \in Cuts(cfg.format, Rest), LimitReached(cfg, Rest, k) PROVE FALSE
        <5>1. k >= Len(Rest) /\ k \in 1 .. Len(Rest)
          BY <3>4, <3>7, <4>1, RestIs, CutsAreFinite DEF FilledAtEnd
        <5>2. k = Len(Rest)
          BY <5>1, RestIs
        <5> QED
          BY <3>6, <3>7, <4>1, <5>2
      <4> QED
        BY <4>1 DEF Unfilled
    <3>8. Filling'
      <4>1. cfg' = cfg /\ eof' = eof
        BY <1>2
      <4>2. CASE ShouldSplit(chunk_bytes', chunk_records')
        <5>1. pc' = "close"
          BY <3>2, <4>2
        <5> QED
          BY <1>0, <2>2, <3>4, <3>6, <4>1, <4>2, <5>1 DEF Filling, AtRecordEnd
      <4>3. CASE ~ShouldSplit(chunk_bytes', chunk_records')
        <5>1. pc' = "byte"
          BY <3>2, <4>3
        <5> QED
          BY <2>2, <3>7, <4>1, <4>3, <5>1 DEF Filling, AtRecordEnd
      <4> QED
        BY <4>2, <4>3
    <3>9. Filled'
      BY <1>0, <1>2, <2>1, FilledIsKept DEF TInv
    <3> QED
      BY <3>5, <3>8, <3>9 DEF TInv
  <2> QED
    BY <1>0, <2>3, <2>4
<1> QED
  BY <1>1, <1>2 DEF WriteChunk, Hazards

LEMMA CloseCounts == ASSUME IInv, RInv, TInv, CloseChunk PROVE TInv'
<1>0. pc = "close" /\ pc # "done" /\ slice = <<>>
  BY DEF CloseChunk, RInv, Stages
<1>1. CASE \E h \in Hazards : Abort(h)
  BY <1>0, <1>1, AbortCounts
<1>2. CASE /\ chunk_index' = chunk_index + 1 /\ chunk_records' = 0
           /\ pc' = IF eof THEN "done" ELSE "byte"
           /\ UNCHANGED <<cfg, csv_state, eof, slice, disk>>
  <2>1. Rest = disk[chunk_index].data
    BY <1>0, RestIs DEF Rest
  <2>2. ~eof => Rest' = <<>>
    <3> SUFFICES ASSUME ~eof PROVE Rest' = <<>>
      OBVIOUS
    <3>1. chunk_index' \in Numbers /\ chunk_index' > chunk_index
      <4>1. chunk_index + chunk_bytes + Len(slice) <= Len(seen) + 1 /\ chunk_bytes > 0
            /\ Len(slice) \in Nat /\ Len(seen) <= MaxInput /\ Len(seen) \in Nat /\ chunk_bytes \in Nat
        BY <1>0 DEF IInv, TypeOK, Paced
      <4> QED
        BY <1>2, <4>1, RestIs, SnsliceAssumption, SMTT(30) DEF Numbers
    <3>2. disk[chunk_index'].data = <<>>
      BY <3>1 DEF RInv, FilesInOrder
    <3> QED
      BY <1>0, <1>2, <3>2 DEF Rest
  <2>3. Counting'
    <3> SUFFICES ASSUME ~eof PROVE Counting'
      BY <1>2 DEF Counting
    <3>1. csv_state = "START"
      BY <1>0 DEF RInv, Shape, AtRecordEnd
    <3>2. Now(Rest', csv_state')
      BY <1>2, <2>2, <3>1, NothingIsRead
    <3>3. Cardinality(Cuts(cfg.format, Rest')) = 0
      <4>1. Cuts(cfg.format, <<>>) = {}
        BY DEF Cuts
      <4> QED
        BY <2>2, <4>1, FS_EmptySet
    <3> QED
      BY <1>2, <3>2, <3>3 DEF Counting
  <2>4. Filling'
    <3> SUFFICES ASSUME ~eof PROVE Filling'
      BY <1>2 DEF Filling, AtRecordEnd
    <3>1. Cuts(cfg.format, <<>>) = {}
      BY DEF Cuts
    <3>2. Unfilled(cfg, Rest')
      BY <2>2, <3>1 DEF Unfilled
    <3> QED
      BY <1>2, <3>2 DEF Filling, AtRecordEnd
  <2>5. ~SpacedQuotes(Rest) =>
          \/ InTime(cfg, Rest)
          \/ FilledAtEnd(cfg, Rest) /\ eof
    <3>1. CASE eof
      BY <1>0, <3>1 DEF TInv, Filling, Unfilled, FilledAtEnd
    <3>2. CASE ~eof
      BY <1>0, <3>2 DEF TInv, Filling, AtRecordEnd, InTime
    <3> QED
      BY <3>1, <3>2
  <2>6. Filled'
    <3>1. ASSUME NEW n \in 1 .. chunk_index' - 1, ~SpacedQuotes(disk[n].data)
          PROVE  \/ InTime(cfg, disk[n].data)
                 \/ FilledAtEnd(cfg, disk[n].data) /\ eof /\ n = chunk_index' - 1
      <4>1. chunk_index' - 1 = chunk_index /\ n \in 1 .. chunk_index
        BY <1>2, RestIs
      <4>2. CASE n = chunk_index
        BY <2>1, <2>5, <3>1, <4>1, <4>2
      <4>3. CASE n # chunk_index
        <5>1. n \in 1 .. chunk_index - 1
          BY <4>1, <4>3, RestIs
        <5> QED
          BY <1>0, <3>1, <5>1 DEF TInv, Filled
      <4> QED
        BY <4>2, <4>3
    <3>2. eof => pc' = "done"
      BY <1>2
    <3> QED
      BY <1>2, <3>1, <3>2 DEF Filled
  <2> QED
    BY <2>3, <2>4, <2>6 DEF TInv
<1> QED
  BY <1>1, <1>2 DEF CloseChunk, Hazards

LEMMA EofCounts == ASSUME IInv, RInv, TInv, Eof PROVE TInv'
<1>0. /\ pc = "byte" /\ pc # "done" /\ slice' = slice /\ eof' = TRUE /\ ~eof
      /\ cfg' = cfg /\ csv_state' = csv_state
  BY DEF Eof, RInv, Stages
<1>1. CASE pc' = "done" /\ disk' \in Unlinked /\ chunk_index' = chunk_index
  BY <1>0, <1>1, UnlinkedIsKept, StoppedIsCounted
<1>2. CASE pc' \in {"close", "done"} /\ UNCHANGED <<chunk_index, disk>>
  <2>1. CASE pc' = "done"
    BY <1>0, <1>2, <2>1, StoppedIsCounted
  <2>2. CASE pc' = "close"
    <3>1. Rest' = Rest
      BY <1>0, <1>2 DEF Rest
    <3> QED
      BY <1>0, <1>2, <2>2, <3>1, SameIsCounted DEF AtRecordEnd
  <2> QED
    BY <1>2, <2>1, <2>2
<1> QED
  BY <1>1, <1>2 DEF Eof, counters

LEMMA InitCounts == Init => TInv
<1> SUFFICES ASSUME Init PROVE TInv
  OBVIOUS
<1>1. IInv /\ RInv
  BY InitOK, RInitOK
<1>2. Rest = <<>>
  <2>1. disk[chunk_index].data = <<>> /\ slice = <<>>
    BY <1>1, RestIs DEF Init, RInv, FilesInOrder
  <2> QED
    BY <2>1 DEF Rest
<1>3. Cuts(cfg.format, <<>>) = {} /\ Cardinality({}) = 0
  BY FS_EmptySet DEF Cuts
<1>4. Counting
  <2>1. chunk_records = 0 /\ pc = "byte" /\ csv_state = "START"
    BY DEF Init
  <2>2. Now(Rest, csv_state) /\ Cardinality(Cuts(cfg.format, Rest)) = 0
    BY <1>2, <1>3, <2>1, NothingIsRead
  <2> QED
    BY <2>1, <2>2 DEF Counting
<1>5. Filling
  BY <1>2, <1>3 DEF Filling, Unfilled, AtRecordEnd, Init
<1>6. Filled
  <2>1. 1 .. chunk_index - 1 = {}
    BY DEF Init
  <2> QED
    BY <2>1 DEF Filled
<1> QED
  BY <1>4, <1>5, <1>6 DEF TInv

LEMMA StepCounts == IInv /\ RInv /\ TInv /\ [Next]_vars => TInv'
<1> SUFFICES ASSUME IInv, RInv, TInv, [Next]_vars PROVE TInv'
  OBVIOUS
<1>1. CASE \E c \in Bytes : Byte(c)
  BY <1>1, ByteCounts
<1>2. CASE ReadError
  BY <1>2, AbortCounts DEF ReadError, Hazards
<1>3. CASE UNCHANGED vars
  <2>1. UNCHANGED <<cfg, pc, csv_state, chunk_index, chunk_records, eof, slice, disk>>
    BY <1>3 DEF vars, counters
  <2>2. Rest' = Rest
    BY <2>1 DEF Rest
  <2>3. Counting' /\ Filling'
    BY <2>1, <2>2 DEF TInv, Counting, Filling, AtRecordEnd
  <2>4. Filled'
    BY <2>1 DEF TInv, Filled
  <2> QED
    BY <2>3, <2>4 DEF TInv
<1> QED
  BY <1>1, <1>2, <1>3, EndOfBufferCounts, OpenCounts, WriteCounts, CloseCounts, EofCounts
     DEF Next, Terminated

LEMMA FilledIsTimely == IInv /\ Filled => SplitIsTimely
<1> SUFFICES ASSUME IInv, Filled, NEW n \in DOMAIN Published, ~SpacedQuotes(Published[n])
             PROVE  LET data == Published[n]
                        cuts == Cuts(cfg.format, data)
                        full(k) ==
                          \/ cfg.limit_bytes > 0 /\ k >= cfg.limit_bytes
                          \/ cfg.limit_records > 0 /\ Cardinality({j \in cuts : j <= k}) >= cfg.limit_records
                    IN  /\ \A k \in cuts : full(k) => k >= Len(data)
                        /\ full(Len(data)) \/ (eof /\ n = chunk_index - 1)
  BY DEF SplitIsTimely
<1>1. n \in 1 .. chunk_index - 1 /\ Published[n] = disk[n].data
  BY DEF Published
<1>2. \/ InTime(cfg, disk[n].data)
      \/ FilledAtEnd(cfg, disk[n].data) /\ eof /\ n = chunk_index - 1
  BY <1>1 DEF Filled
<1>3. FilledAtEnd(cfg, disk[n].data)
      /\ (LimitReached(cfg, disk[n].data, Len(disk[n].data)) \/ (eof /\ n = chunk_index - 1))
  BY <1>2 DEF InTime
<1> QED
  BY <1>1, <1>3 DEF FilledAtEnd, LimitReached

(* stream_slice() closes each chunk at the first end of a record, by the   *)
(* grammar, at which a limit is reached; only the end of the input closes  *)
(* one before.  Chunks with carriage returns between quotes are left out.  *)
THEOREM ChunksEndInTime == Spec => []SplitIsTimely
<1>1. Init => IInv /\ RInv /\ TInv
  BY InitOK, RInitOK, InitCounts
<1>2. (IInv /\ RInv /\ TInv) /\ [Next]_vars => (IInv /\ RInv /\ TInv)'
  BY StepOK, StepImplements, StepCounts
<1>3. IInv /\ RInv /\ TInv => SplitIsTimely
  BY FilledIsTimely DEF TInv
<1> QED
  BY <1>1, <1>2, <1>3, PTL DEF Spec
=============================================================================
