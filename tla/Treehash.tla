------------------------------ MODULE Treehash ------------------------------
(***************************************************************************)
(* treehash: one run, from the operand to the printed root.                *)
(*                                                                         *)
(* walk_dir() is recursive; its activations are the frames of stack, the   *)
(* root's first.  The walk keeps two more stacks beside the frames, which  *)
(* must stay in step with them: the identities of the directories on the   *)
(* way (to detect cycles) and the rules read from their .gitignore files.  *)
(* Every regular file that no rule excludes is hashed as it is read        *)
(* (Sha256Stream); at the end the files are sorted and reduced to a root   *)
(* (MerkleRoot), and root and list are printed.                            *)
(*                                                                         *)
(* The file system is a graph of inodes: a directory that is mounted below *)
(* itself makes a cycle.  Any system call may fail while faults are left.  *)
(***************************************************************************)
EXTENDS Sha256Stream, IgnoreRules, MerkleRoot

CONSTANTS
  Trees,          \* a sequence of file systems, see TreesAssumption
  Arguments,      \* the command lines: sequences of words, a word is a sequence
  NameLen,        \* the bytes of each name
  Order,          \* the place in bytewise order of each name, alone and with a slash behind it
  MaxDepth,       \* TREEHASH_MAX_DEPTH, 256 in the code
  PathMax,        \* PATH_MAX, 4096 in the code
  ReadSizes,      \* the bytes that one read(2) may return
  MaxFaults       \* failing system calls in one run

Root == "root"    \* the inode of the directory that the operand names
Kinds == {"dir", "file", "link", "other"}

Names == DOMAIN NameLen

Nothing == "nothing"        \* where a path leads that leads nowhere

IsTree(t) ==
  /\ Root \in DOMAIN t.kind /\ Nothing \notin DOMAIN t.kind
  /\ t.kind[Root] = "dir"
  /\ \A i \in DOMAIN t.kind :
       /\ t.kind[i] \in Kinds
       /\ \A n \in DOMAIN t.kids[i] : n \in Names /\ t.kids[i][n] \in DOMAIN t.kind
       /\ t.size[i] \in Nat
       /\ t.lines[i] \in Seq([blank : BOOLEAN, bang : BOOLEAN, slash : BOOLEAN,
                              root : BOOLEAN, pat : Seq(STRING)])

ASSUME TreesAssumption == \A k \in DOMAIN Trees : IsTree(Trees[k])
ASSUME BoundsAssumption ==
  /\ MaxDepth \in Nat \ {0} /\ PathMax \in Nat \ {0, 1} /\ MaxFaults \in Nat
  /\ ReadSizes \subseteq Nat \ {0}
  /\ NameLen \in [Names -> Nat]
  /\ Order \in [Names \X BOOLEAN -> Nat]
  /\ \A x, y \in Names \X BOOLEAN : Order[x] = Order[y] => x = y
  /\ \A a \in Arguments : a \in Seq(Seq(STRING))

VARIABLES
  tree,           \* the number of the file system
  argv,           \* the command line
  walked,         \* norm_dir
  pc,
  cand,           \* the directory or file in hand: inode, path, length of the path on disk
  stack,          \* the activations of walk_dir: also the names readdir has yet to give
  ancestors,      \* the inodes of the directories on the way
  rules,          \* the rules, the root's first
  line,           \* the line of .gitignore to be read
  entries,        \* the files hashed
  open,           \* open directory streams and descriptors
  ret,            \* what walk_dir() returned
  stale,          \* errno is not zero
  cut,            \* a .gitignore was not read, or not to its end, and no one said so
  faults,         \* system calls that may still fail
  level,          \* a level of the Merkle tree
  printed,        \* lines on standard output
  status          \* the exit status, -1 before

mainVars == <<tree, argv, walked, level, printed, status>>
walkVars == <<stack, ancestors, rules, open>>
vars == <<mainVars, walkVars, pc, cand, line, entries, ret, stale, cut, faults, shaVars>>

fs == Trees[tree]
Top == stack[Len(stack)]
\* The inode of the .gitignore of the directory in hand is a regular file.
HasGitignore(k, dir) ==
  ".gitignore" \in DOMAIN Trees[k].kids[dir] /\ Trees[k].kind[Trees[k].kids[dir][".gitignore"]] = "file"
GitignoreLines(k, dir) == Trees[k].lines[Trees[k].kids[dir][".gitignore"]]

Nobody == [ino |-> Root, rel |-> << >>, len |-> 0]

Init ==
  /\ tree \in DOMAIN Trees
  /\ argv \in Arguments
  /\ walked = << >>
  /\ pc = "args"
  /\ cand = Nobody
  /\ stack = << >> /\ ancestors = << >> /\ rules = << >> /\ open = 0
  /\ line = 1
  /\ entries = << >>
  /\ ret = 0
  /\ stale = FALSE
  /\ cut = FALSE
  /\ faults = MaxFaults
  /\ level = << >>
  /\ printed = 0
  /\ status = -1
  /\ ShaInit

Fault == faults > 0 /\ faults' = faults - 1

Exit(code) == pc' = "done" /\ status' = code
-----------------------------------------------------------------------------
(* The command line and the operand *)

Help == <<"-", "-help">>
Version == <<"-", "-version">>

Informs == argv \in {<<Help>>, <<Version>>}

\* An option that is unknown or not alone, or more than one operand.
ArgumentsRefused ==
  /\ ~Informs
  /\ Len(argv) > 1 \/ \E i \in DOMAIN argv : argv[i] # << >> /\ argv[i][1] = "-"

\* raw_operand
operand == IF argv = << >> THEN <<".">> ELSE argv[1]

Inform ==
  /\ pc = "args" /\ Informs
  /\ Exit(0)
  /\ printed' = 1
  /\ UNCHANGED <<tree, argv, walked, level, walkVars, cand, line, entries, ret, stale, cut, faults, shaVars>>

\* The first places of the parts of a path between slashes, and the parts.
PartStarts(path) == {i \in 1 .. Len(path) : path[i] # "/" /\ (i = 1 \/ path[i - 1] = "/")}
PartAt(path, i) ==
  LET ends == {j \in i .. Len(path) : j = Len(path) \/ path[j + 1] = "/"}
  IN SubSeq(path, i, Min(ends))

\* has_dotdot_segment()
HasDotdotSegment(path) == \E i \in PartStarts(path) : PartAt(path, i) = <<".", ".">>

OperandRefused ==
  \/ ArgumentsRefused
  \/ operand = << >> \/ HasDotdotSegment(operand) \/ Len(operand) >= PathMax

RefuseOperand ==
  /\ pc = "args" /\ ~Informs /\ OperandRefused
  /\ Exit(2)
  /\ UNCHANGED <<tree, argv, walked, level, printed, walkVars, cand, line, entries, ret, stale,
                 cut, faults, shaVars>>

StartTrim ==
  /\ pc = "args" /\ ~Informs /\ ~OperandRefused
  /\ walked' = operand
  /\ pc' = "trim"
  /\ UNCHANGED <<tree, argv, level, printed, status, walkVars, cand, line, entries, ret, stale, cut,
                 faults, shaVars>>

\* The loop that cuts "/" and "/." from the end of norm_dir.
EndsInSlash == Len(walked) > 1 /\ walked[Len(walked)] = "/"
EndsInDot_Mutant == Len(walked) > 1 /\ walked[Len(walked)] = "."
EndsInDot == Len(walked) > 1 /\ walked[Len(walked) - 1] = "/" /\ walked[Len(walked)] = "."

Trim ==
  /\ pc = "trim"
  /\ \/ EndsInSlash /\ walked' = SubSeq(walked, 1, Len(walked) - 1)
     \/ EndsInDot /\ walked' = SubSeq(walked, 1, Len(walked) - 2)
  /\ UNCHANGED <<tree, argv, level, printed, status, walkVars, pc, cand, line, entries, ret, stale,
                 cut, faults, shaVars>>

Trimmed ==
  /\ pc = "trim" /\ ~EndsInSlash /\ ~EndsInDot
  /\ walked' = IF walked = << >> THEN <<".">> ELSE walked

\* The operand cannot be inspected or is no directory, or calloc() fails.
RootFails ==
  /\ Trimmed
  /\ Fault
  /\ Exit(2)
  /\ UNCHANGED <<tree, argv, level, printed, walkVars, cand, line, entries, ret, stale, cut, shaVars>>

StartWalk ==
  /\ Trimmed
  /\ cand' = [ino |-> Root, rel |-> << >>, len |-> Len(walked')]
  /\ pc' = "enter"
  /\ UNCHANGED <<tree, argv, level, printed, status, walkVars, line, entries, ret, stale, cut,
                 faults, shaVars>>
-----------------------------------------------------------------------------
(* walk_dir(): into a directory, and out of it *)

Depth == Len(stack) - 1          \* of the directory in hand
TooDeep_Mutant == Len(stack) > MaxDepth     \* one level too many
TooDeep == Len(stack) >= MaxDepth
Cyclic == \E i \in 1 .. Len(ancestors) : ancestors[i] = cand.ino

Enter ==
  /\ pc = "enter" /\ ~TooDeep /\ ~Cyclic
  /\ ancestors' = Append(ancestors, cand.ino)
  /\ stack' = Append(stack, [ino |-> cand.ino, rel |-> cand.rel, len |-> cand.len,
                             left |-> DOMAIN fs.kids[cand.ino]])
  /\ open' = open + 1
  /\ pc' = "ignore"
  /\ UNCHANGED <<mainVars, rules, cand, line, entries, ret, stale, cut, faults, shaVars>>

\* Too deep, a cycle, or lstat() or opendir() fails: the caller is told, and
\* nothing of this activation is left.
EnterFails ==
  /\ pc = "enter"
  /\ \/ (TooDeep \/ Cyclic) /\ UNCHANGED faults
     \/ Fault
  /\ ret' = 2
  /\ pc' = "return"
  /\ UNCHANGED <<mainVars, walkVars, cand, line, entries, stale, cut, shaVars>>

\* One rule is popped at most.
PopRules_Mutant(depth) ==
  rules' = IF rules # << >> /\ rules[Len(rules)].depth = depth THEN SubSeq(rules, 1, Len(rules) - 1) ELSE rules

\* pop_rules(): the rules at the end that have the given depth.
PopRules(depth) ==
  \E k \in 0 .. Len(rules) :
    /\ \A i \in k + 1 .. Len(rules) : rules[i].depth = depth
    /\ k > 0 => rules[k].depth # depth
    /\ rules' = SubSeq(rules, 1, k)

\* The directory stream is closed, the activation ends.
LeaveFrame(streams) ==
  /\ stack' = SubSeq(stack, 1, Len(stack) - 1)
  /\ ancestors' = SubSeq(ancestors, 1, Len(ancestors) - 1)
  /\ open' = open - streams
  /\ pc' = "return"

\* The exits of walk_dir() from its loop.
Leave(code) == LeaveFrame(1) /\ PopRules(Depth) /\ ret' = code

\* The caller goes on with its next name, or fails in turn.
Return ==
  /\ pc = "return" /\ stack # << >>
  /\ \/ /\ ret = 0
        /\ pc' = "read"
        /\ stale' = FALSE
        /\ UNCHANGED <<walkVars, ret>>
     \/ /\ ret # 0
        /\ Leave(ret)
        /\ UNCHANGED stale
  /\ UNCHANGED <<mainVars, cand, line, entries, cut, faults, shaVars>>

-----------------------------------------------------------------------------
(* walk_dir() and load_gitignore(): the rules of a directory *)

IgnoreLen == 11       \* "/.gitignore"
IgnoreTooLong == Top.len + IgnoreLen >= PathMax

\* The exits of walk_dir() before its loop, where no rule is popped.
AbandonIgnore(code, streams) ==
  /\ LeaveFrame(streams)
  /\ ret' = code
  /\ UNCHANGED rules

\* The path is too long, or fopen() fails.
IgnoreFails ==
  /\ pc = "ignore"
  /\ \/ IgnoreTooLong /\ UNCHANGED faults
     \/ HasGitignore(tree, Top.ino) /\ Fault
  /\ AbandonIgnore(2, 1)
  /\ UNCHANGED <<mainVars, cand, line, entries, stale, cut, shaVars>>

OpenIgnore ==
  /\ pc = "ignore" /\ ~IgnoreTooLong /\ HasGitignore(tree, Top.ino)
  /\ open' = open + 1
  /\ line' = 1
  /\ pc' = "lines"
  /\ UNCHANGED <<mainVars, stack, ancestors, rules, cand, entries, ret, stale, cut, faults, shaVars>>

\* There is no .gitignore, or lstat() fails, or fopen() does not find it any
\* more: the directory has no rules.
NoIgnore ==
  /\ pc = "ignore" /\ ~IgnoreTooLong
  /\ \/ ~HasGitignore(tree, Top.ino) /\ UNCHANGED <<cut, faults>>
     \/ HasGitignore(tree, Top.ino) /\ Fault /\ cut' = TRUE
  /\ pc' = "read"
  /\ stale' = FALSE
  /\ UNCHANGED <<mainVars, walkVars, cand, line, entries, ret, shaVars>>

ReadLine ==
  LET lines == GitignoreLines(tree, Top.ino)
  IN /\ pc = "lines" /\ line <= Len(lines)
     /\ rules' = IF MakesNoRule(lines[line]) THEN rules
                 ELSE Append(rules, RuleOf(lines[line], Top.rel, Depth))
     /\ line' = line + 1
     /\ UNCHANGED <<mainVars, stack, ancestors, open, pc, cand, entries, ret, stale, cut, faults, shaVars>>

\* getline() returns -1 at the end of the file, and when reading fails.
LinesEnd ==
  /\ pc = "lines"
  /\ \/ line > Len(GitignoreLines(tree, Top.ino)) /\ UNCHANGED <<cut, faults>>
     \/ Fault /\ cut' = TRUE
  /\ open' = open - 1
  /\ pc' = "read"
  /\ stale' = FALSE
  /\ UNCHANGED <<mainVars, stack, ancestors, rules, cand, line, entries, ret, shaVars>>

\* No memory for a rule: those read before it stay.
LineFails ==
  /\ pc = "lines" /\ line <= Len(GitignoreLines(tree, Top.ino))
  /\ LET text == GitignoreLines(tree, Top.ino)[line]
     IN ~text.blank /\ (text.pat # << >> \/ text.slash)
  /\ Fault
  /\ AbandonIgnore(-1, 2)
  /\ UNCHANGED <<mainVars, cand, line, entries, stale, cut, shaVars>>
-----------------------------------------------------------------------------
(* walk_dir(): the names of a directory.  "." and ".." are passed over like *)
(* ".git" and are left out.                                                 *)

ChildOf(n) == [ino |-> fs.kids[Top.ino][n], rel |-> Append(Top.rel, n), len |-> Top.len + 1 + NameLen[n]]

Skipped(n) ==
  LET child == ChildOf(n)
      kind == fs.kind[child.ino]
  IN \/ n = ".git"
     \/ child.len < PathMax /\ kind = "link"
     \/ child.len < PathMax /\ kind = "dir" /\ IsPathIgnored(rules, child.rel, TRUE)
     \/ child.len < PathMax /\ kind = "file" /\ IsPathIgnored(rules, child.rel, FALSE)

ReadEntry(n) == pc = "read" /\ n \in Top.left

\* The frame without the name; it stays what it was otherwise.
Took(n) == stack' = [stack EXCEPT ![Len(stack)].left = @ \ {n}]

SkipEntry(n) ==
  /\ ReadEntry(n) /\ Skipped(n)
  /\ Took(n)
  /\ UNCHANGED <<mainVars, ancestors, rules, open, pc, cand, line, entries, ret, stale, cut, faults, shaVars>>

\* A directory is walked next, a file hashed; anything else is passed over,
\* and unlike above errno is reset.
TakeEntry(n) ==
  LET kind == fs.kind[ChildOf(n).ino]
  IN /\ ReadEntry(n) /\ ~Skipped(n) /\ ChildOf(n).len < PathMax
     /\ Took(n)
     /\ cand' = IF kind = "other" THEN cand ELSE ChildOf(n)
     /\ pc' = CASE kind = "dir" -> "enter" [] kind = "file" -> "open" [] kind = "other" -> "read"
     /\ stale' = IF kind = "other" THEN FALSE ELSE stale
     /\ UNCHANGED <<mainVars, ancestors, rules, open, line, entries, ret, cut, faults, shaVars>>

\* The path of the entry is too long, or lstat() fails.
EntryFails(n) ==
  /\ ReadEntry(n) /\ n # ".git"
  /\ \/ ChildOf(n).len >= PathMax /\ UNCHANGED faults
     \/ Fault
  /\ Leave(2)
  /\ UNCHANGED <<mainVars, cand, line, entries, stale, cut, shaVars>>

\* readdir() returns NULL: errno tells the end from an error.
NamesEnd ==
  /\ pc = "read"
  /\ \/ Top.left = {} /\ UNCHANGED faults
     \/ Fault
  /\ Leave(IF stale \/ faults' < faults THEN 2 ELSE 0)
  /\ UNCHANGED <<mainVars, cand, line, entries, stale, cut, shaVars>>
-----------------------------------------------------------------------------
(* hash_file_sha256() and add_file_entry() *)

OpenFile ==
  /\ pc = "open"
  /\ open' = open + 1
  /\ ShaReset
  /\ pc' = "hash"
  /\ UNCHANGED <<mainVars, stack, ancestors, rules, cand, line, entries, ret, stale, cut, faults>>

\* A signal interrupts open() or read(), which is called again.
Interrupted ==
  /\ pc \in {"open", "hash"}
  /\ stale' = TRUE
  /\ UNCHANGED <<mainVars, walkVars, pc, cand, line, entries, ret, cut, faults, shaVars>>

\* read() returns some bytes, as many as it likes up to what is left.
ReadBytes(n) ==
  /\ pc = "hash"
  /\ count + n <= fs.size[cand.ino]
  /\ Update(n)
  /\ UNCHANGED <<mainVars, walkVars, pc, cand, line, entries, ret, stale, cut, faults>>

EndOfFile ==
  /\ pc = "hash" /\ count = fs.size[cand.ino]
  /\ Final
  /\ open' = open - 1
  /\ pc' = "add"
  /\ UNCHANGED <<mainVars, stack, ancestors, rules, cand, line, entries, ret, stale, cut, faults>>

\* open(), read() or close() fails, or there is no memory for the entry.
FileFails ==
  /\ pc \in {"open", "hash", "add"}
  /\ Fault
  /\ LeaveFrame(IF pc = "hash" THEN 2 ELSE 1)
  /\ PopRules(Depth)
  /\ ret' = 2
  /\ ShaReset
  /\ UNCHANGED <<mainVars, cand, line, entries, stale, cut>>

\* errno is not reset.
AddEntry_Mutant ==
  /\ pc = "add"
  /\ entries' = Append(entries, [path |-> cand.rel, file |-> cand.ino])
  /\ pc' = "read"
  /\ ShaReset
  /\ UNCHANGED <<mainVars, walkVars, cand, line, ret, stale, cut, faults>>

\* The hash goes out of scope with the entry made.
AddEntry ==
  /\ pc = "add"
  /\ entries' = Append(entries, [path |-> cand.rel, file |-> cand.ino])
  /\ stale' = FALSE
  /\ pc' = "read"
  /\ ShaReset
  /\ UNCHANGED <<mainVars, walkVars, cand, line, ret, cut, faults>>
-----------------------------------------------------------------------------
(* main(): what is done with the files *)

\* compare_file_entries(): strcmp() of the paths, in which each name but the
\* last has a slash behind it.
Rank(path, i) == Order[<<path[i], i < Len(path)>>]
PathBefore(p, q) ==
  \E i \in DOMAIN p \cap DOMAIN q :
    Rank(p, i) < Rank(q, i) /\ \A j \in 1 .. i - 1 : p[j] = q[j]

\* qsort(): an entry's place is the number of those that come before it.
Sorted(es) ==
  LET place(k) == Cardinality({m \in DOMAIN es : \/ PathBefore(es[m].path, es[k].path)
                                                 \/ es[m].path = es[k].path /\ m <= k})
  IN [n \in 1 .. Len(es) |-> es[CHOOSE k \in DOMAIN es : place(k) = n]]

WalkFailed ==
  /\ pc = "return" /\ stack = << >> /\ ret # 0
  /\ Exit(2)
  /\ UNCHANGED <<tree, argv, walked, level, printed, walkVars, cand, line, entries, ret, stale,
                 cut, faults, shaVars>>

Sort ==
  /\ pc = "return" /\ stack = << >> /\ ret = 0
  /\ entries' = Sorted(entries)
  /\ pc' = "leaves"
  /\ UNCHANGED <<mainVars, walkVars, cand, line, ret, stale, cut, faults, shaVars>>

Leaves == [i \in 1 .. Len(entries) |-> Leaf(entries[i])]

HashLeaves ==
  /\ pc = "leaves"
  /\ level' = IF entries = << >> THEN <<EmptyRoot>> ELSE Leaves
  /\ pc' = "merkle"
  /\ UNCHANGED <<tree, argv, walked, printed, status, walkVars, cand, line, entries, ret, stale,
                 cut, faults, shaVars>>

PairLevel ==
  /\ pc = "merkle" /\ Len(level) > 1
  /\ level' = Paired(level)
  /\ UNCHANGED <<tree, argv, walked, printed, status, walkVars, pc, cand, line, entries, ret,
                 stale, cut, faults, shaVars>>

\* No memory for the leaves or for a level.
MerkleFails ==
  /\ \/ pc = "leaves" /\ entries # << >>
     \/ pc = "merkle" /\ Len(level) > 1
  /\ Fault
  /\ Exit(2)
  /\ UNCHANGED <<tree, argv, walked, level, printed, walkVars, cand, line, entries, ret, stale,
                 cut, shaVars>>

Lines == Len(entries) + 1

PrintAll ==
  /\ pc = "merkle" /\ Len(level) = 1
  /\ printed' = Lines
  /\ Exit(0)
  /\ UNCHANGED <<tree, argv, walked, level, walkVars, cand, line, entries, ret, stale, cut,
                 faults, shaVars>>

\* Standard output fails while a line is printed or when it is flushed.
PrintFails ==
  /\ pc = "merkle" /\ Len(level) = 1
  /\ Fault
  /\ printed' \in 0 .. Lines
  /\ Exit(2)
  /\ UNCHANGED <<tree, argv, walked, level, walkVars, cand, line, entries, ret, stale, cut, shaVars>>

Terminated == pc = "done" /\ UNCHANGED vars

NextEntry ==
  /\ pc = "read"
  /\ \E n \in Top.left : SkipEntry(n) \/ TakeEntry(n) \/ EntryFails(n)

Next ==
  \/ Inform \/ RefuseOperand \/ StartTrim \/ Trim \/ RootFails \/ StartWalk
  \/ Enter \/ EnterFails \/ Return
  \/ IgnoreFails \/ OpenIgnore \/ NoIgnore \/ ReadLine \/ LinesEnd \/ LineFails
  \/ NextEntry \/ NamesEnd
  \/ OpenFile \/ Interrupted \/ EndOfFile \/ FileFails \/ AddEntry
  \/ \E n \in ReadSizes : ReadBytes(n)
  \/ WalkFailed \/ Sort \/ HashLeaves \/ PairLevel \/ MerkleFails \/ PrintAll \/ PrintFails
  \/ Terminated

Spec == Init /\ [][Next]_vars
-----------------------------------------------------------------------------
(* What the walk should find, said without the walk *)

\* The inode that a path leads to in the k-th file system.
InodeIn(k, path) ==
  LET at[n \in 0 .. Len(path)] ==
        IF n = 0 THEN Root
        ELSE LET dir == at[n - 1]
             IN IF dir # Nothing /\ path[n] \in DOMAIN Trees[k].kids[dir] THEN Trees[k].kids[dir][path[n]]
                ELSE Nothing
  IN at[Len(path)]

\* The paths of up to MaxDepth names that lead somewhere.
PathsIn ==
  [k \in DOMAIN Trees |->
     {path \in UNION {[1 .. n -> Names] : n \in 1 .. MaxDepth} : InodeIn(k, path) # Nothing}]

KindAt(k, path) == Trees[k].kind[InodeIn(k, path)]

Prefix(path, n) == SubSeq(path, 1, n)

LinesAt(k, path, n) == GitignoreLines(k, InodeIn(k, Prefix(path, n)))

\* The rules that concern a path: a rule of the n-th directory on the way is
\* <<n, its place in the file>>.
HasRulesAt(k, path, n) == HasGitignore(k, InodeIn(k, Prefix(path, n)))
RulePlaces(k, path) ==
  UNION {{n} \X DOMAIN LinesAt(k, path, n) : n \in {m \in 0 .. Len(path) - 1 : HasRulesAt(k, path, m)}}
RulesFor(k, path) == {r \in RulePlaces(k, path) : ~MakesNoRule(LinesAt(k, path, r[1])[r[2]])}

RuleAt(k, path, r) == RuleOf(LinesAt(k, path, r[1])[r[2]], Prefix(path, r[1]), r[1])

Later(r, s) == r[1] > s[1] \/ (r[1] = s[1] /\ r[2] > s[2])

Matching(k, path) ==
  {r \in RulesFor(k, path) : MatchRule(RuleAt(k, path, r), path, KindAt(k, path) = "dir")}

\* A rule excludes the path and no rule of a deeper directory, or further
\* down in the same file, takes it back.
Excluded(k, path) ==
  \E r \in Matching(k, path) :
    ~RuleAt(k, path, r).negated /\ \A s \in Matching(k, path) : ~Later(s, r)

\* The path is below directories that are walked, and no part is ".git".
Reached(k, path) ==
  \A n \in 1 .. Len(path) :
    /\ path[n] # ".git"
    /\ n < Len(path) => KindAt(k, Prefix(path, n)) = "dir" /\ ~Excluded(k, Prefix(path, n))

Listed(k, path) == Reached(k, path) /\ KindAt(k, path) = "file" /\ ~Excluded(k, path)

WalkedDir(k, path) == Reached(k, path) /\ KindAt(k, path) = "dir" /\ ~Excluded(k, path)

\* The length of a path below an operand of the given length.
LenOnDisk(base, path) ==
  LET len[n \in 0 .. Len(path)] == IF n = 0 THEN base ELSE len[n - 1] + 1 + NameLen[path[n]]
  IN len[Len(path)]

\* A directory that must not be walked: too deep, a cycle, or too long.
Unwalkable(k, base, path) ==
  /\ WalkedDir(k, path)
  /\ \/ Len(path) >= MaxDepth
     \/ \E n \in 0 .. Len(path) - 1 : InodeIn(k, Prefix(path, n)) = InodeIn(k, path)
     \/ LenOnDisk(base, path) + IgnoreLen >= PathMax

Unnameable(k, base, path) == Reached(k, path) /\ LenOnDisk(base, path) >= PathMax

\* The tree cannot be walked as a whole.
BeyondLimits ==
  \/ Len(walked) + IgnoreLen >= PathMax
  \/ \E path \in PathsIn[tree] :
       Unwalkable(tree, Len(walked), path) \/ Unnameable(tree, Len(walked), path)
-----------------------------------------------------------------------------
(* Properties *)

\* The types, and the bounds of ancestors[TREEHASH_MAX_DEPTH] and of the path buffers.
TypeOK ==
  /\ pc \in {"args", "trim", "enter", "ignore", "lines", "read", "open", "hash", "add", "return",
             "leaves", "merkle", "done"}
  /\ cand \in [ino : DOMAIN fs.kind, rel : Seq(Names), len : 0 .. PathMax - 1]
  /\ \A i \in DOMAIN stack : stack[i].ino \in DOMAIN fs.kind /\ stack[i].left \subseteq Names
  /\ Len(ancestors) <= MaxDepth
  /\ open \in Nat /\ line \in Nat
  /\ ret \in {0, 2, -1} /\ status \in {-1, 0, 2}
  /\ faults \in 0 .. MaxFaults
  /\ count \in Nat /\ DOMAIN buffer = Slots
  /\ {stale, cut} \subseteq BOOLEAN

\* The three stacks of walk_dir() stay in step on every path through it, its
\* exits included: the ancestors are the directories of the activations, no
\* directory is among its own ancestors, a stream is open for each and one
\* more descriptor while a file is read; unless the run is failing, each rule
\* belongs to an activation, the rules of outer ones first.  When the walk
\* is over nothing is left open.
StacksInStep ==
  /\ Len(ancestors) = Len(stack)
  /\ \A i \in DOMAIN stack :
       /\ stack[i].ino = ancestors[i]
       /\ \A j \in DOMAIN stack : stack[i].ino = stack[j].ino => i = j
  /\ open = Len(stack) + (IF pc \in {"lines", "hash"} THEN 1 ELSE 0)
  /\ ret = 0 =>
       \A i \in DOMAIN rules :
         /\ rules[i].depth \in 0 .. Depth
         /\ rules[i].dir = stack[rules[i].depth + 1].rel
         /\ \A j \in 1 .. i : rules[j].depth <= rules[i].depth
  /\ status # -1 => open = 0

\* What is printed depends on the tree alone, not on the order in which
\* readdir() gives names: on success the list has each regular file that no
\* rule excludes, below no excluded directory, in order, and no other.
ManifestIsExact ==
  status = 0 /\ ~Informs /\ ~cut =>
    /\ printed = Lines
    /\ {entries[i].path : i \in DOMAIN entries} = {path \in PathsIn[tree] : Listed(tree, path)}
    /\ \A i \in DOMAIN entries : entries[i].file = InodeIn(tree, entries[i].path)
    /\ \A i, j \in DOMAIN entries : i < j => PathBefore(entries[i].path, entries[j].path)

\* The status is honest both ways: with 0 the whole tree could be walked, and
\* without a failing call, a refused operand or a directory beyond the limits
\* it is 0: no errno left over from an interrupted call makes it 2.
StatusIsHonest ==
  pc = "done" /\ ~cut =>
    /\ status = 0 => Informs \/ (~OperandRefused /\ ~BeyondLimits)
    /\ status = 2 => ~Informs /\ (OperandRefused \/ faults < MaxFaults \/ BeyondLimits)

\* The reduction level by level, with the promotion of a lone node, gives the
\* tree that the split at powers of two defines: its leaves are the lines of
\* the list in order, so no other list has the same root.
RootCommits == pc = "merkle" /\ Len(level) = 1 => level[1] = Balanced(Leaves)

\* However read() cuts the content of a file, the blocks that are hashed are
\* those of the padded content.
DigestIsOfContent == pc = "add" => blocks = Padded(fs.size[cand.ino])

\* The directory that a path names: where it starts, and the names on the way.
PlaceOf(path) ==
  [absolute |-> path[1] = "/",
   names |-> {<<Cardinality({j \in PartStarts(path) : j < i /\ PartAt(path, j) # <<".">>}), PartAt(path, i)>> :
                i \in {k \in PartStarts(path) : PartAt(path, k) # <<".">>}}]

\* "/." and the like.
DotOfRoot(path) == PlaceOf(path) = PlaceOf(<<"/">>) /\ PartStarts(path) # {}

\* The directory walked is the one that the operand names
\* (src/docs/treehash-first-slice-contract.md:54, "Traversal begins at
\* `WORKSPACE_DIR`"), however main() trims it.  It is not for "/.": main() trims it to
\* the empty string, which stands for the current directory.
OperandKeepsPlace ==
  pc \notin {"args", "trim"} /\ walked # << >> /\ ~DotOfRoot(operand)
    => PlaceOf(walked) = PlaceOf(operand)
=============================================================================
