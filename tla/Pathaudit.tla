------------------------------ MODULE Pathaudit ------------------------------
(***************************************************************************)
(* pathaudit (src/src/pathaudit.c): audits the directories of PATH and the *)
(* executables in them (--path), the search for one command (--command),   *)
(* or the roots that are given (ROOT...).                                  *)
(*                                                                         *)
(* A text is a sequence of fields joined by colons, and <<>> is the empty  *)
(* one; a field is a number in the order of its bytes.  A realpath is the  *)
(* sequence of one number.  The file system is chosen as it is looked at,  *)
(* and does not change meanwhile.                                          *)
(***************************************************************************)
EXTENDS ProbeTable, SequencesExt

CONSTANTS
  FieldLists,  \* the values of PATH, or lists of operands; <<>> is none
  Length,      \* bytes of a field
  Absolute,    \* fields that begin with a slash
  Outcomes,    \* what stat() of a text may find
  Commands,    \* names of commands
  Paths,       \* realpaths of executables
  Trust,       \* what is wrong with each of them
  Modes,
  Faults,
  MaxCount, MaxLength, MaxBytes,   \* the limits of the roots
  PathMax      \* from which length on stat() answers ENAMETOOLONG

Codes == <<"EMPTY_ROOT", "RELATIVE_ROOT", "MISSING_ROOT", "NON_DIRECTORY_ROOT",
           "GROUP_WRITABLE", "WORLD_WRITABLE", "UNSAFE_OWNER">>
Permissions == {"GROUP_WRITABLE", "WORLD_WRITABLE"}
Rank(code) == CHOOSE k \in DOMAIN Codes : Codes[k] = code

(* shut: a directory that can be searched but not read.  owners: what      *)
(* is owned by strangers from the directory up to "/".                     *)
Kinds == {"ENOENT", "ENOTDIR", "error", "file", "dir", "shut"}
Outcome == [kind : Kinds, codes : SUBSET Permissions, owners : Seq(Seq(Nat))]

Empty == 0
FaultNames == {"memory", "readdir", "write"}

(* An executable is a regular file: its realpath is no directory's. *)
ASSUME PathauditAssumption ==
  /\ FieldLists \subseteq Seq(Nat)
  /\ Absolute \subseteq Nat /\ Outcomes \subseteq Outcome
  /\ Commands \subseteq Nat /\ Paths \subseteq Nat \ {0}
  /\ Trust \in [Paths -> SUBSET (Permissions \cup {"UNSAFE_OWNER"})]
  /\ \A o \in Outcomes : \A n \in DOMAIN o.owners : \A p \in Paths : o.owners[n] # <<p>>
  /\ Modes \subseteq {"path", "command", "roots"} /\ Faults \subseteq FaultNames
  /\ Length[Empty] = 0 /\ InitialCap \in Nat \ {0} /\ MaxCount \in Nat
  /\ \A c \in Commands : Hash(<<c>>) \in Nat /\ \A p \in Paths : Hash(<<c, p>>) \in Nat

VARIABLES
  mode, command, fields, pc,
  tied,        \* is the separator after a field a colon again?
  roots,       \* the components; at is the field their text pointer points at
  i, j,        \* loop indices
  fs, exe,     \* what was found so far of the file system
  left,        \* names of the directory not read yet
  findings,
  winners, windex, shadows, shindex,
  matches, seen_match,
  out, status, reason

invocation == <<mode, command, fields>>
loops == <<i, j>>
disk == <<fs, exe>>
tables == <<winners, windex, shadows, shindex>>
query == <<matches, seen_match>>
result == <<out, status, reason>>
vars == <<invocation, pc, tied, roots, loops, disk, left, findings, tables, query, result>>

Init ==
  /\ mode \in Modes /\ command \in Commands /\ fields \in FieldLists
  /\ mode # "command" => \A c \in Commands : command <= c
  /\ pc = "load" /\ tied = [k \in DOMAIN fields |-> FALSE] /\ roots = <<>>
  /\ i = 1 /\ j = 1 /\ fs = <<>> /\ exe = <<>> /\ left = {}
  /\ findings = <<>> /\ matches = <<>> /\ seen_match = FALSE
  /\ winners = <<>> /\ windex = NoTable /\ shadows = <<>> /\ shindex = NoTable
  /\ out = <<>> /\ status = 0 /\ reason = "none"

Fails(call) == call \in Faults

(* Nothing is printed: what was found so far is discarded. *)
Fail(why) ==
  /\ pc' = "done" /\ status' = 2 /\ reason' = why
  /\ UNCHANGED <<invocation, tied, roots, loops, left, findings, tables, query, out>>

OutOfMemory == Fails("memory") /\ Fail("OUT_OF_MEMORY")

-----------------------------------------------------------------------------
(* The file system. *)

TextLength(text) ==
  FoldLeft(LAMBDA sum, f : sum + Length[f], 0, text) + (IF text = <<>> THEN 0 ELSE Len(text) - 1)
TextOf(a, b) == IF a = b /\ fields[a] = Empty THEN <<>> ELSE SubSeq(fields, a, b)

Found(text) ==
  IF text \in DOMAIN fs THEN {fs[text]}
  ELSE {o \in Outcomes : /\ TextLength(text) >= PathMax => o.kind = "error"
                         /\ text = <<>> => o.kind \in {"dir", "shut"}}
Looked(text, o) == fs' = [x \in DOMAIN fs \cup {text} |-> IF x = text THEN o ELSE fs[x]]

(* try_command_match(): what it finds is a realpath, <<p>>, or NoMatch,    *)
(* which stands for all that says nothing: not there, no regular           *)
(* executable file, no image, a loop of several links, a component that    *)
(* cannot be inspected itself, a realpath that fails for another reason    *)
(* than memory, permission or a loop; or Uninspected, a candidate of which *)
(* the same cannot be said.  One that is too long for stat is Uninspected, *)
(* unless it is also beyond PATHAUDIT_MAX_ROOT_LENGTH: then it says        *)
(* nothing.  Which of the two depends on the length of the command's name, *)
(* of which the model only knows that there is one byte at least.          *)
NoMatch == <<>>
Uninspected == <<0>>
Overlong(text) == TextLength(text) + 2 >= PathMax

Candidate(text, o, c) ==
  IF <<text, c>> \in DOMAIN exe THEN {exe[<<text, c>>]}
  ELSE IF o.kind # "error" /\ Overlong(text) THEN {NoMatch, Uninspected}
  ELSE IF o.kind \in {"dir", "shut"} THEN {NoMatch, Uninspected} \cup {<<p>> : p \in Paths}
  ELSE {NoMatch}
Tried(text, c, e) ==
  exe' = [x \in DOMAIN exe \cup {<<text, c>>} |-> IF x = <<text, c>> THEN e ELSE exe[x]]

Unsafe_Mutant(e) == FALSE
Unsafe(e) == e = Uninspected
Match(e) == e \notin {NoMatch, Uninspected}

-----------------------------------------------------------------------------
(* path_components_load() and run_explicit_roots(), and                    *)
(* coalesce_inspection_path_fragments().                                   *)

(* qsort(): an item's place is the number of those that come before it. *)
Sorted(s, Comes(_, _)) ==
  LET place(k) == Cardinality({m \in DOMAIN s : Comes(s[m], s[k])
                                                \/ (~Comes(s[k], s[m]) /\ m <= k)})
  IN  [n \in DOMAIN s |-> s[CHOOSE k \in DOMAIN s : place(k) = n]]

Before(a, b) ==
  \E k \in DOMAIN b :
    /\ \A m \in 1 .. k - 1 : m \in DOMAIN a /\ a[m] = b[m]
    /\ k \in DOMAIN a => a[k] < b[k]

RootBefore(r, s) == Before(r.text, s.text) \/ (r.text = s.text /\ r.index < s.index)

Bytes(k) == FoldLeft(LAMBDA sum, f : sum + Length[f] + 1, 0, SubSeq(fields, 1, k))
TooMany_Mutant == Len(fields) > MaxCount + 1
TooMany == Len(fields) > MaxCount
TooLong(k) == Length[fields[k]] > MaxLength
Refusal ==
  LET bad == {k \in DOMAIN fields : TooLong(k) \/ Bytes(k) > MaxBytes}
      first == CHOOSE k \in bad : \A m \in bad : k <= m
  IN  CASE fields = <<>> -> IF mode = "roots" THEN "USAGE" ELSE "PATH_UNSET"
        [] fields # <<>> /\ TooMany -> "ROOT_COUNT_LIMIT"
        [] fields # <<>> /\ ~TooMany /\ bad # {} ->
             IF TooLong(first) THEN "ROOT_LENGTH_LIMIT" ELSE "ROOT_BYTES_LIMIT"
        [] OTHER -> "none"

Load ==
  /\ pc = "load" /\ UNCHANGED disk
  /\ \/ Refusal # "none" /\ Fail(Refusal)
     \/ Refusal \notin {"USAGE", "PATH_UNSET", "ROOT_COUNT_LIMIT"} /\ OutOfMemory
     \/ /\ Refusal = "none" /\ mode # "roots" /\ pc' = "split"
        /\ UNCHANGED <<invocation, tied, roots, loops, left, findings, tables, query, result>>
     \/ /\ Refusal = "none" /\ mode = "roots" /\ pc' = "classify"
        /\ roots' = Sorted([k \in DOMAIN fields |->
                              [text |-> TextOf(k, k), index |-> k, at |-> k]],
                           RootBefore)
        /\ UNCHANGED <<invocation, tied, loops, left, findings, tables, query, result>>

Component(text) == Append(roots, [text |-> text, index |-> Len(roots) + 1, at |-> i])

Split ==
  /\ pc = "split" /\ i \in DOMAIN fields
  /\ IF fields[i] = Empty
     THEN /\ roots' = Component(<<>>) /\ i' = i + 1 /\ UNCHANGED <<pc, j, fs>>
     ELSE \E o \in Found(TextOf(i, i)) :
            /\ Looked(TextOf(i, i), o)
            /\ \/ /\ o.kind # "ENOENT" /\ roots' = Component(TextOf(i, i))
                  /\ i' = i + 1 /\ UNCHANGED <<pc, j>>
               \/ o.kind = "ENOENT" /\ pc' = "join" /\ j' = i /\ UNCHANGED <<i, roots>>
  /\ UNCHANGED <<invocation, tied, exe, left, findings, tables, query, result>>

(* The separators that were restored in vain are removed again. *)
Untied_Mutant(last) == [k \in DOMAIN tied |-> tied[k] /\ k \notin i .. last - 1]
Untied(last) == [k \in DOMAIN tied |-> tied[k] /\ k \notin i .. last]

GiveUp(last) ==
  /\ tied' = Untied(last) /\ roots' = Component(TextOf(i, i))
  /\ i' = i + 1 /\ pc' = "split" /\ UNCHANGED j

Join ==
  /\ pc = "join"
  /\ IF j = Len(fields) \/ fields[j + 1] = Empty \/ TextLength(TextOf(i, j + 1)) > MaxLength
     THEN GiveUp(j - 1) /\ UNCHANGED fs
     ELSE \E o \in Found(TextOf(i, j + 1)) :
            /\ Looked(TextOf(i, j + 1), o)
            /\ \/ o.kind \in {"file", "dir", "shut"} /\ GiveUp(j)
               \/ /\ o.kind = "ENOENT" /\ tied' = [tied EXCEPT ![j] = TRUE] /\ j' = j + 1
                  /\ UNCHANGED <<pc, i, roots>>
               \/ /\ o.kind \in {"ENOTDIR", "error"} /\ tied' = [tied EXCEPT ![j] = TRUE]
                  /\ roots' = Component(TextOf(i, j + 1)) /\ i' = j + 2 /\ pc' = "split"
                  /\ UNCHANGED j
  /\ UNCHANGED <<invocation, exe, left, findings, tables, query, result>>

SplitEnds ==
  /\ pc = "split" /\ i \notin DOMAIN fields
  /\ i' = 1 /\ pc' = IF mode = "path" THEN "classify" ELSE "query"
  /\ UNCHANGED <<invocation, tied, roots, j, disk, left, findings, tables, query, result>>

-----------------------------------------------------------------------------
(* classify_root() and classify_command_component(). *)

Finding(root, index, codes) ==
  LET made[k \in 0 .. Len(Codes)] ==
        IF k = 0 THEN <<>>
        ELSE IF Codes[k] \in codes
             THEN Append(made[k - 1], [root |-> root, index |-> index, code |-> Codes[k]])
             ELSE made[k - 1]
  IN  made[Len(Codes)]

Relative(text) == text # <<>> /\ text[1] \notin Absolute

DirectoryCodes(text, o) ==
  (IF Relative(text) THEN {"RELATIVE_ROOT"} ELSE {})
  \cup CASE o.kind = "ENOENT" -> {"MISSING_ROOT"}
         [] o.kind \in {"ENOTDIR", "file"} -> {"NON_DIRECTORY_ROOT"}
         [] o.kind \in {"dir", "shut"} -> o.codes
         [] OTHER -> {}

(* findings_note_unsafe_owner(): one finding for each directory, under the *)
(* lowest index.                                                           *)
Noted(buffer, owner) ==
  {k \in DOMAIN buffer : buffer[k].code = "UNSAFE_OWNER" /\ buffer[k].root = owner}

NoteOwner(buffer, owner, index) ==
  IF Noted(buffer, owner) = {}
  THEN buffer \o Finding(owner, index, {"UNSAFE_OWNER"})
  ELSE LET k == CHOOSE n \in Noted(buffer, owner) : \A m \in Noted(buffer, owner) : n <= m
       IN  [buffer EXCEPT ![k].index = IF index < @ THEN index ELSE @]

NoteOwners(buffer, o, index) ==
  LET noted[n \in 0 .. Len(o.owners)] ==
        IF n = 0 THEN buffer ELSE NoteOwner(noted[n - 1], o.owners[n], index)
  IN  IF o.kind \in {"dir", "shut"} THEN noted[Len(o.owners)] ELSE buffer

Classify ==
  /\ pc = "classify" /\ i \in DOMAIN roots /\ UNCHANGED exe
  /\ LET root == roots[i]
     IN  IF root.text = <<>>
         THEN /\ findings' = findings \o Finding(<<>>, root.index, {"EMPTY_ROOT"})
              /\ i' = i + 1
              /\ UNCHANGED <<invocation, pc, tied, roots, j, fs, left, tables, query, result>>
         ELSE \E o \in Found(root.text) :
                /\ Looked(root.text, o)
                /\ IF o.kind = "error"
                   THEN Fail("INSPECTION_ERROR")
                   ELSE /\ LET direct == findings
                                 \o Finding(root.text, root.index, DirectoryCodes(root.text, o))
                           IN  findings' = IF mode = "path"
                                           THEN NoteOwners(direct, o, root.index) ELSE direct
                        /\ i' = i + 1
                        /\ UNCHANGED <<invocation, pc, tied, roots, j, left, tables, query,
                                       result>>

ClassifyEnds ==
  /\ pc = "classify" /\ i \notin DOMAIN roots
  /\ IF mode = "path" THEN pc' = "scan" /\ i' = 1 ELSE pc' = "sort" /\ UNCHANGED i
  /\ UNCHANGED <<invocation, tied, roots, j, disk, left, findings, tables, query, result>>

NoMemory ==
  /\ pc \in {"classify", "query", "scan", "entries"} /\ OutOfMemory /\ UNCHANGED disk

TrustFindings(e, index) == Finding(e, index, Trust[e[1]])

(* A component of a search is blamed for what the search depends on: the   *)
(* permissions of one that holds a match or comes before every match.      *)
Applicable_Mutant(e) == Match(e)
Applicable(e) == Match(e) \/ ~seen_match

QueryCodes(text, o, e) ==
  IF text = <<>> THEN {"EMPTY_ROOT"}
  ELSE DirectoryCodes(text, o)
         \ ((IF Relative(text) THEN {} ELSE {"MISSING_ROOT", "NON_DIRECTORY_ROOT"})
            \cup (IF Applicable(e) THEN {} ELSE Permissions))

(* The loop of run_command_mode(). *)
Query ==
  /\ pc = "query" /\ i \in DOMAIN roots
  /\ LET root == roots[i]
     IN  \E o \in Found(root.text) : \E e \in Candidate(root.text, o, command) :
           /\ Looked(root.text, o) /\ Tried(root.text, command, e)
           /\ IF Unsafe(e) \/ o.kind = "error"
              THEN Fail("INSPECTION_ERROR")
              ELSE /\ LET direct == findings
                            \o Finding(root.text, root.index, QueryCodes(root.text, o, e))
                          owned == IF Applicable(e)
                                   THEN NoteOwners(direct, o, root.index) ELSE direct
                      IN  findings' = IF Match(e)
                                      THEN owned \o TrustFindings(e, root.index) ELSE owned
                   /\ matches' = IF Match(e) THEN Append(matches, e) ELSE matches
                   /\ seen_match' = (seen_match \/ Match(e))
                   /\ i' = i + 1
                   /\ UNCHANGED <<invocation, pc, tied, roots, j, left, tables, result>>

QueryEnds ==
  /\ pc = "query" /\ i \notin DOMAIN roots /\ pc' = "sort"
  /\ UNCHANGED <<invocation, tied, roots, loops, disk, left, findings, tables, query, result>>

-----------------------------------------------------------------------------
(* scan_root_executables() and record_executable_hit(). *)

ScanOpen ==
  /\ pc = "scan" /\ i \in DOMAIN roots
  /\ IF roots[i].text # <<>> /\ fs[roots[i].text].kind = "dir"
     THEN pc' = "entries" /\ left' = Commands /\ UNCHANGED i
     ELSE i' = i + 1 /\ UNCHANGED <<pc, left>>
  /\ UNCHANGED <<invocation, tied, roots, j, disk, findings, tables, query, result>>

WinnerKeys(ws) == [n \in DOMAIN ws |-> <<ws[n].command>>]
ShadowKeys(ss) == [n \in DOMAIN ss |-> <<ss[n].command, ss[n].shadow[1]>>]

WinnerOf(c) == Lookup(windex, <<c>>, {n \in DOMAIN winners : winners[n].command = c})

Recorded_Mutant(c, w, e) == shadows # <<>> /\ shadows[Len(shadows)].shadow = e
Recorded(c, w, e) ==
  LET same == {n \in DOMAIN shadows : /\ shadows[n].command = c
                                      /\ shadows[n].winner = w /\ shadows[n].shadow = e}
  IN  Lookup(shindex, <<c, e[1]>>, same) # Vacant

NewWinner(c, e) ==
  /\ winners' = Append(winners, [command |-> c, path |-> e])
  /\ windex' = InsertTail(windex, WinnerKeys(winners'))
  /\ UNCHANGED <<shadows, shindex>>

NewShadow(c, w, e, index) ==
  /\ shadows' = Append(shadows, [command |-> c, winner |-> w, shadow |-> e, index |-> index])
  /\ shindex' = InsertTail(shindex, ShadowKeys(shadows'))
  /\ UNCHANGED <<winners, windex>>

RecordHit(c, e, index) ==
  LET w == WinnerOf(c)
  IN  \/ w = Vacant /\ NewWinner(c, e)
      \/ /\ w # Vacant
         /\ \/ /\ winners[w].path = e \/ Recorded(c, winners[w].path, e)
               /\ UNCHANGED tables
            \/ /\ winners[w].path # e /\ ~Recorded(c, winners[w].path, e)
               /\ NewShadow(c, winners[w].path, e, index)

(* Names come in any order.  An index that cannot grow any more is refused *)
(* like memory.                                                            *)
ScanEntry(c) ==
  /\ pc = "entries" /\ c \in left /\ UNCHANGED fs
  /\ LET root == roots[i]
     IN  \E e \in Candidate(root.text, fs[root.text], c) :
           /\ Tried(root.text, c, e)
           /\ \/ Unsafe(e) /\ Fail("INSPECTION_ERROR")
              \/ /\ ~Unsafe(e) /\ left' = left \ {c}
                 /\ IF Match(e)
                    THEN /\ findings' = findings \o TrustFindings(e, root.index)
                         /\ RecordHit(c, e, root.index)
                    ELSE UNCHANGED <<findings, tables>>
                 /\ IF Refused \in {windex', shindex'}
                    THEN pc' = "done" /\ status' = 2 /\ reason' = "OUT_OF_MEMORY"
                    ELSE UNCHANGED <<pc, status, reason>>
                 /\ UNCHANGED <<invocation, tied, roots, loops, query, out>>

ScanEnds ==
  /\ pc = "entries"
  /\ \/ /\ left = {} /\ pc' = "scan" /\ i' = i + 1
        /\ UNCHANGED <<invocation, tied, roots, j, disk, left, findings, tables, query, result>>
     \/ Fails("readdir") /\ Fail("INSPECTION_ERROR") /\ UNCHANGED disk

AllScanned ==
  /\ pc = "scan" /\ i \notin DOMAIN roots /\ pc' = "sort"
  /\ UNCHANGED <<invocation, tied, roots, loops, disk, left, findings, tables, query, result>>

-----------------------------------------------------------------------------
(* The end of the three modes. *)

FindingBefore(f, g) ==
  \/ Before(f.root, g.root)
  \/ f.root = g.root /\ f.index < g.index
  \/ f.root = g.root /\ f.index = g.index /\ Rank(f.code) < Rank(g.code)

ShadowBefore(s, t) == s.command < t.command \/ (s.command = t.command /\ s.index < t.index)

(* The index over the shadows does not survive their sorting. *)
Sort ==
  /\ pc = "sort" /\ pc' = "emit"
  /\ findings' = Sorted(findings, FindingBefore)
  /\ shadows' = Sorted(shadows, ShadowBefore)
  /\ shindex' = (IF Len(shadows) > 1 THEN NoTable ELSE shindex)
  /\ UNCHANGED <<invocation, tied, roots, loops, disk, left, winners, windex, query, result>>

Lines ==
  [k \in DOMAIN matches |-> <<"MATCH", matches[k]>>]
  \o [k \in DOMAIN findings |-> <<findings[k].code, findings[k].root>>]
  \o [k \in DOMAIN shadows |->
        <<"SHADOWED", shadows[k].command, shadows[k].winner, shadows[k].shadow>>]

Emit ==
  /\ pc = "emit" /\ pc' = "done"
  /\ \/ /\ out' = Lines /\ UNCHANGED reason
        /\ status' = IF findings = <<>> /\ shadows = <<>> THEN 0 ELSE 1
     \/ /\ Fails("write") /\ status' = 2 /\ reason' = "STDOUT_WRITE"
        /\ \E n \in {0, Len(Lines) \div 2, Len(Lines)} : out' = SubSeq(Lines, 1, n)
  /\ UNCHANGED <<invocation, tied, roots, loops, disk, left, findings, tables, query>>

Terminated == pc = "done" /\ UNCHANGED vars

Next ==
  \/ Load \/ Split \/ Join \/ SplitEnds
  \/ Classify \/ ClassifyEnds \/ NoMemory \/ Query \/ QueryEnds
  \/ ScanOpen \/ (\E c \in Commands : ScanEntry(c)) \/ ScanEnds \/ AllScanned
  \/ Sort \/ Emit \/ Terminated

Spec == Init /\ [][Next]_vars

-----------------------------------------------------------------------------
(* Properties. *)

Completed == pc = "done" /\ status # 2

(* The audit's variables have their types. *)
TypeOK ==
  /\ roots \in Seq([text : Seq(Nat), index : 1 .. MaxCount, at : Nat])
  /\ i \in Nat /\ j \in Nat /\ left \subseteq Commands
  /\ findings \in Seq([root : Seq(Nat), index : 1 .. MaxCount, code : ToSet(Codes)])
  /\ winners \in Seq([command : Commands, path : Seq(Paths)])
  /\ shadows \in Seq([command : Commands, winner : Seq(Paths), shadow : Seq(Paths),
                      index : 1 .. MaxCount])
  /\ matches \in Seq(Seq(Paths)) /\ seen_match = (matches # <<>>)
  /\ status \in {0, 1, 2} /\ (status = 2) = (reason # "none")

(* What the pointers of the components point at: the bytes up to the next  *)
(* separator that is a NUL.                                                *)
CString(k) ==
  LET ends == {m \in k .. Len(fields) : m = Len(fields) \/ ~tied[m]}
  IN  TextOf(k, CHOOSE m \in ends : \A n \in ends : m <= n)

(* The last field of a component. *)
LastField(root) == root.at + (IF root.text = <<>> THEN 0 ELSE Len(root.text) - 1)

(* The components are the fields of PATH in order, none lost and none      *)
(* twice, each a C string of its own.  Fields are joined only if the whole *)
(* can be said to fail, and each of its beginnings is merely missing.      *)
SplitCoversPath ==
  mode # "roots" /\ roots # <<>> =>
    /\ roots[1].at = 1
    /\ pc \notin {"split", "join", "done"} => LastField(roots[Len(roots)]) = Len(fields)
    /\ \A r \in DOMAIN roots :
         /\ roots[r].index = r /\ CString(roots[r].at) = roots[r].text
         /\ r # 1 => roots[r].at = LastField(roots[r - 1]) + 1
         /\ \A n \in 1 .. Len(roots[r].text) - 1 :
              fs[SubSeq(roots[r].text, 1, n)].kind = "ENOENT"
         /\ Len(roots[r].text) > 1 => fs[roots[r].text].kind \in {"ENOTDIR", "error"}

(* A probe of either index ends and finds an item exactly if there is one, *)
(* also after the table grew and with keys that collide.                   *)
IndexIsFaithful ==
  /\ windex.cap > 0 => Faithful(windex, WinnerKeys(winners))
  /\ shindex.cap > 0 => Faithful(shindex, ShadowKeys(shadows))
  /\ pc \in {"scan", "entries"} =>
       (winners # <<>> => windex.cap > 0) /\ (shadows # <<>> => shindex.cap > 0)

Scanned(r) == roots[r].text # <<>> /\ fs[roots[r].text].kind = "dir"
Hits(c) == {r \in DOMAIN roots : Scanned(r) /\ Match(exe[<<roots[r].text, c>>])}
Hit(r, c) == exe[<<roots[r].text, c>>]
First(S) == CHOOSE r \in S : \A s \in S : r <= s

Shows(c, e) == \E r \in Hits(c) : Hit(r, c) = e /\ e # Hit(First(Hits(c)), c)
Expected == {x \in Commands \X {<<p>> : p \in Paths} : Shows(x[1], x[2])}
FirstShown(c, e) == First({r \in Hits(c) : Hit(r, c) = e})
Printed == {k \in DOMAIN out : out[k][1] = "SHADOWED"}

(* A completed --path run prints, for each command, each realpath that     *)
(* comes after a different first one, once, ordered by the command and     *)
(* then by the first component that shows it.                              *)
ShadowsAreExact ==
  Completed /\ mode = "path" =>
    /\ Cardinality(Printed) = Cardinality(Expected)
    /\ \A k \in Printed :
         /\ <<out[k][2], out[k][4]>> \in Expected
         /\ out[k][3] = Hit(First(Hits(out[k][2])), out[k][2])
         /\ \A m \in Printed :
              m < k => \/ out[m][2] < out[k][2]
                       \/ /\ out[m][2] = out[k][2]
                          /\ FirstShown(out[m][2], out[m][4]) < FirstShown(out[k][2], out[k][4])

(* What should be said of component r, by the mode. *)
Holds(r) == Match(exe[<<roots[r].text, command>>])
Relevant(r) ==
  \/ mode = "path" /\ roots[r].text # <<>>
  \/ mode = "command" /\ (Holds(r) \/ \A s \in 1 .. r - 1 : ~Holds(s))

Due(r) ==
  LET text == roots[r].text
      all == IF text = <<>> THEN {"EMPTY_ROOT"} ELSE DirectoryCodes(text, fs[text])
  IN  IF mode # "command" THEN all
      ELSE {c \in all : /\ c \in Permissions => Relevant(r)
                        /\ c \in {"MISSING_ROOT", "NON_DIRECTORY_ROOT"} => Relative(text)}

Owners(r) == IF fs[roots[r].text].kind \in {"dir", "shut"} THEN ToSet(fs[roots[r].text].owners)
             ELSE {}
Executables(r) ==
  IF mode = "path" THEN {c \in Commands : r \in Hits(c)}
  ELSE {c \in {command} : mode = "command" /\ Holds(r)}

Times(root, index, code) ==
  LET at == {r \in DOMAIN roots : roots[r].index = index}
      blamed == {r \in DOMAIN roots : Relevant(r) /\ root \in Owners(r)}
  IN  Cardinality({r \in at : roots[r].text = root /\ code \in Due(r)})
      + Cardinality({x \in at \X Commands : /\ x[2] \in Executables(x[1])
                                             /\ Hit(x[1], x[2]) = root
                                             /\ code \in Trust[root[1]]})
      + (IF code = "UNSAFE_OWNER" /\ blamed # {} /\ First(blamed) \in at THEN 1 ELSE 0)

(* The lines that report a finding. *)
Said == {k \in DOMAIN out : out[k][1] \in ToSet(Codes)}

(* A completed run prints each hazard of each component and executable     *)
(* that applies, as often as it applies, a stranger's directory once; and  *)
(* in the order of text, position and rank, whatever order they were found *)
(* in.                                                                     *)
FindingsAreExact ==
  Completed =>
    /\ \A root \in {r.text : r \in ToSet(roots)} \cup {<<p>> : p \in Paths}
                   \cup UNION {Owners(r) : r \in {s \in DOMAIN roots : Relevant(s)}} :
         \A index \in DOMAIN roots : \A code \in ToSet(Codes) :
           Cardinality({k \in DOMAIN findings :
                          findings[k] = [root |-> root, index |-> index, code |-> code]})
             = Times(root, index, code)
    /\ \A k \in 2 .. Len(findings) : ~FindingBefore(findings[k], findings[k - 1])
    /\ Cardinality(Said) = Len(findings)
    /\ \A k \in Said : LET n == Cardinality({m \in Said : m <= k})
                      IN  out[k] = <<findings[n].code, findings[n].root>>

(* docs/pathaudit-contract.md: each field of PATH is a component and is    *)
(* classified.                                                             *)
FieldsAreInspected ==
  Completed /\ mode # "roots" =>
    \A k \in DOMAIN fields : \E r \in DOMAIN roots : roots[r].text = TextOf(k, k)

(* A component that could not be looked at, or a candidate that the code   *)
(* counts as one of those, leaves nothing printed: such a run does not     *)
(* complete.  What NoMatch stands for is passed over.                      *)
RejectClosed ==
  /\ status = 2 /\ reason # "STDOUT_WRITE" => out = <<>>
  /\ Completed =>
       /\ \A r \in DOMAIN roots : roots[r].text \in DOMAIN fs => fs[roots[r].text].kind # "error"
       /\ \A k \in DOMAIN exe : exe[k] # Uninspected
=============================================================================
