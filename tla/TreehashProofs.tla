-------------------------- MODULE TreehashProofs ----------------------------
(***************************************************************************)
(* What holds of every run of treehash, for every file system, command     *)
(* line and bound: the three stacks of walk_dir() stay in step, the list   *)
(* is the one that the tree defines, the status is honest, the digest of a *)
(* file is that of its content, and the root is that of its leaves.        *)
(***************************************************************************)
EXTENDS Treehash, Sha256StreamProofs, FiniteSetTheorems, NaturalsInduction, WellFoundedInduction

IsSequence(s) == \E S : s \in Seq(S)

Inodes == DOMAIN fs.kind
Candidate == [ino : Inodes, rel : Seq(Names), len : 0 .. PathMax - 1]
Frame == [ino : Inodes, rel : Seq(Names), len : 0 .. PathMax - 1, left : SUBSET Names]
Line == [blank : BOOLEAN, bang : BOOLEAN, slash : BOOLEAN, root : BOOLEAN, pat : Seq(STRING)]
Rule == [depth : Nat, dir : Seq(Names), negated : BOOLEAN, dirOnly : BOOLEAN,
         anchored : BOOLEAN, pat : Seq(STRING)]

Inside == {"ignore", "lines", "read", "open", "hash", "add"}
Outside == {"args", "trim", "leaves", "merkle", "done"}

Typed ==
  /\ tree \in DOMAIN Trees /\ argv \in Arguments
  /\ pc \in Inside \cup Outside \cup {"enter", "return"}
  /\ pc = "trim" => IsSequence(walked) /\ Len(walked) < PathMax
  /\ cand \in Candidate
  /\ stack \in Seq(Frame)
  /\ \A i \in 1 .. Len(stack) : stack[i].left \subseteq DOMAIN fs.kids[stack[i].ino]
  /\ ancestors \in Seq(Inodes)
  /\ rules \in Seq(Rule)
  /\ line \in Nat \ {0}
  /\ ret \in {0, 2, -1}
  /\ status \in {-1, 0, 2}
  /\ faults \in 0 .. MaxFaults
  /\ stale \in BOOLEAN /\ cut \in BOOLEAN

\* Where in the program there is an activation of walk_dir(), and where a
\* failure is on its way to main().
Control ==
  /\ pc \in Inside => stack # << >> /\ ret = 0
  /\ pc \in Outside => stack = << >>
  /\ pc \in {"args", "trim", "enter"} => ret = 0
  /\ pc = "lines" => HasGitignore(tree, Top.ino)
  /\ status # -1 => pc = "done"

\* The activations, the ancestors and the open streams.
FramesInStep ==
  /\ Len(ancestors) = Len(stack)
  /\ Len(stack) <= MaxDepth
  /\ \A i \in 1 .. Len(stack) : stack[i].ino = ancestors[i]
  /\ \A i, j \in 1 .. Len(stack) : stack[i].ino = stack[j].ino => i = j
  /\ open = Len(stack) + (IF pc \in {"lines", "hash"} THEN 1 ELSE 0)

\* The rules, sorted by depth, against the activations.
RulesInStep ==
  ret = 0 =>
    \A i \in 1 .. Len(rules) :
      /\ rules[i].depth \in 0 .. Len(stack) - 1
      /\ rules[i].dir = stack[rules[i].depth + 1].rel
      /\ \A j \in 1 .. i : rules[j].depth <= rules[i].depth

Hashed ==
  /\ pc # "add" => Received
  /\ pc = "add" => count \in Nat /\ DOMAIN buffer = Slots /\ blocks = Padded(fs.size[cand.ino])

IInv == Typed /\ Control /\ FramesInStep /\ RulesInStep /\ Hashed

-----------------------------------------------------------------------------
(* Sequences *)

LEMMA Shorter ==
  ASSUME NEW S, NEW s \in Seq(S), NEW k \in 0 .. Len(s), NEW t, t = SubSeq(s, 1, k)
  PROVE  t \in Seq(S) /\ Len(t) = k /\ \A i \in 1 .. k : t[i] = s[i]
  OBVIOUS

LEMMA Longer ==
  ASSUME NEW S, NEW s \in Seq(S), NEW e \in S, NEW t, t = Append(s, e)
  PROVE  /\ t \in Seq(S) /\ Len(t) = Len(s) + 1 /\ t[Len(s) + 1] = e
         /\ \A i \in 1 .. Len(s) : t[i] = s[i]
  OBVIOUS

LEMMA ElementOf == ASSUME NEW S, NEW s \in Seq(S), NEW i \in 1 .. Len(s) PROVE s[i] \in S
  OBVIOUS

LEMMA EmptySequence == ASSUME NEW S, NEW s \in Seq(S) PROVE s = << >> <=> Len(s) = 0
  OBVIOUS

-----------------------------------------------------------------------------
(* The file system *)

LEMMA SameTree ==
  ASSUME tree' = tree
  PROVE  fs' = fs /\ Inodes' = Inodes /\ Candidate' = Candidate /\ Frame' = Frame
  BY DEF fs, Inodes, Candidate, Frame

LEMMA TreeIsTree ==
  ASSUME Typed
  PROVE  /\ Root \in Inodes
         /\ \A i \in Inodes :
              /\ fs.size[i] \in Nat
              /\ \A n \in DOMAIN fs.kids[i] : n \in Names /\ fs.kids[i][n] \in Inodes
              /\ fs.lines[i] \in Seq([blank : BOOLEAN, bang : BOOLEAN, slash : BOOLEAN,
                                      root : BOOLEAN, pat : Seq(STRING)])
  BY TreesAssumption DEF Typed, IsTree, fs, Inodes

\* The directory in hand.
LEMMA TopIsFrame ==
  ASSUME Typed, stack # << >>
  PROVE  /\ Top \in Frame /\ Len(stack) \in Nat \ {0} /\ Top = stack[Len(stack)]
         /\ Top.left \subseteq DOMAIN fs.kids[Top.ino]
  <1>1. Len(stack) \in 1 .. Len(stack)
    BY DEF Typed
  <1> QED BY <1>1 DEF Typed, Top

\* A name that readdir() gives leads to an inode.
LEMMA ChildIsCandidate ==
  ASSUME Typed, stack # << >>, NEW n \in Top.left
  PROVE  /\ ChildOf(n).ino \in Inodes /\ ChildOf(n).rel \in Seq(Names) /\ ChildOf(n).len \in Nat
         /\ ChildOf(n).len < PathMax => ChildOf(n) \in Candidate
  <1>1. n \in DOMAIN fs.kids[Top.ino] /\ Top.ino \in Inodes /\ Top.rel \in Seq(Names) /\ Top.len \in Nat
    BY TopIsFrame DEF Frame
  <1>2. n \in Names /\ fs.kids[Top.ino][n] \in Inodes
    BY <1>1, TreeIsTree
  <1>3. NameLen[n] \in Nat /\ PathMax \in Nat
    BY <1>2, BoundsAssumption
  <1>4. Append(Top.rel, n) \in Seq(Names)
    BY <1>1, <1>2
  <1> QED BY <1>1, <1>2, <1>3, <1>4 DEF ChildOf, Candidate

\* What a .gitignore file may hold.
LEMMA LinesAreTyped ==
  ASSUME Typed, stack # << >>, HasGitignore(tree, Top.ino)
  PROVE  GitignoreLines(tree, Top.ino) \in Seq([blank : BOOLEAN, bang : BOOLEAN, slash : BOOLEAN,
                                          root : BOOLEAN, pat : Seq(STRING)])
  <1>1. Top.ino \in Inodes /\ ".gitignore" \in DOMAIN fs.kids[Top.ino]
    BY TopIsFrame DEF Frame, HasGitignore, fs
  <1>2. fs.kids[Top.ino][".gitignore"] \in Inodes
    BY <1>1, TreeIsTree
  <1> QED BY <1>2, TreeIsTree DEF GitignoreLines, fs
-----------------------------------------------------------------------------
(* The parts of the invariant hold at the start *)

LEMMA InitHolds == Init => IInv
  <1> SUFFICES ASSUME Init PROVE IInv
    OBVIOUS
  <1>1. tree \in DOMAIN Trees /\ IsTree(Trees[tree])
    BY TreesAssumption DEF Init
  <1>2. Nobody \in Candidate
    BY <1>1, BoundsAssumption DEF Nobody, Candidate, Inodes, fs, IsTree
  <1>3. Typed
    <2>1. << >> \in Seq(Frame) /\ << >> \in Seq(Inodes) /\ << >> \in Seq(Rule) /\ Len(<< >>) = 0
      OBVIOUS
    <2>2. pc = "args" /\ pc \in Outside /\ pc # "trim" /\ argv \in Arguments /\ cand \in Candidate
      BY <1>2 DEF Init, Outside
    <2>3. stack \in Seq(Frame) /\ Len(stack) = 0 /\ ancestors \in Seq(Inodes) /\ rules \in Seq(Rule)
      BY <2>1 DEF Init
    <2>4. /\ line \in Nat \ {0} /\ ret \in {0, 2, -1} /\ status \in {-1, 0, 2}
          /\ faults \in 0 .. MaxFaults
      BY BoundsAssumption DEF Init
    <2>5. stale \in BOOLEAN /\ cut \in BOOLEAN
      BY DEF Init
    <2> QED BY <1>1, <2>2, <2>3, <2>4, <2>5 DEF Typed
  <1>4. Control /\ FramesInStep /\ RulesInStep
    BY BoundsAssumption DEF Init, Control, FramesInStep, RulesInStep, Inside, Outside
  <1>5. Hashed
    BY InitReceives DEF Init, Hashed
  <1> QED BY <1>3, <1>4, <1>5 DEF IInv

-----------------------------------------------------------------------------
(* Popping *)

\* pop_rules() leaves the first rules, none of which has the given depth at its end.
LEMMA PoppedRules ==
  ASSUME Typed, NEW d, PopRules(d)
  PROVE  \E k \in 0 .. Len(rules) :
           /\ rules' \in Seq(Rule) /\ Len(rules') = k
           /\ \A i \in 1 .. k : rules'[i] = rules[i]
           /\ k > 0 => rules[k].depth # d
  <1>1. PICK k \in 0 .. Len(rules) : (k > 0 => rules[k].depth # d) /\ rules' = SubSeq(rules, 1, k)
    BY DEF PopRules
  <1>2. rules \in Seq(Rule)
    BY DEF Typed
  <1>3. rules' \in Seq(Rule) /\ Len(rules') = k /\ \A i \in 1 .. k : rules'[i] = rules[i]
    BY <1>1, <1>2, Shorter
  <1> QED BY <1>1, <1>3

LEMMA KindsOfInodes == ASSUME Typed PROVE \A i \in Inodes : fs.kind[i] \in Kinds
  BY TreesAssumption DEF Typed, IsTree, fs, Inodes

\* What giving a name does to the activations.
LEMMA FrameTook ==
  ASSUME Typed, stack # << >>, NEW n, Took(n)
  PROVE  /\ stack' \in Seq(Frame) /\ Len(stack') = Len(stack)
         /\ \A i \in 1 .. Len(stack) :
              /\ stack'[i].ino = stack[i].ino /\ stack'[i].rel = stack[i].rel
              /\ stack'[i].left \subseteq stack[i].left
         /\ \A i \in 1 .. Len(stack') : stack'[i].left \subseteq DOMAIN fs.kids[stack'[i].ino]
  <1> DEFINE last == Len(stack)
             f == [stack[last] EXCEPT !.left = @ \ {n}]
  <1>1. stack \in Seq(Frame) /\ last \in Nat \ {0} /\ stack[last] \in Frame
    BY TopIsFrame DEF Typed
  <1>2. f \in Frame /\ f.ino = stack[last].ino /\ f.rel = stack[last].rel /\ f.left \subseteq stack[last].left
    BY <1>1 DEF Frame
  <1>3. stack' = [stack EXCEPT ![last] = f]
    BY DEF Took
  <1> HIDE DEF f
  <1>4. /\ stack' \in Seq(Frame) /\ Len(stack') = Len(stack)
        /\ \A i \in 1 .. Len(stack) : stack'[i] = IF i = last THEN f ELSE stack[i]
    BY <1>1, <1>2, <1>3
  <1>5. \A i \in 1 .. Len(stack) :
              /\ stack'[i].ino = stack[i].ino /\ stack'[i].rel = stack[i].rel
              /\ stack'[i].left \subseteq stack[i].left
    BY <1>2, <1>4
  <1> QED BY <1>4, <1>5 DEF Typed

\* What the end of an activation does to the stacks.
LEMMA FrameLeft ==
  ASSUME Typed, FramesInStep, tree' = tree, stack # << >>, NEW streams, LeaveFrame(streams)
  PROVE  /\ stack' \in Seq(Frame) /\ Len(stack') = Len(stack) - 1
         /\ ancestors' \in Seq(Inodes) /\ Len(ancestors') = Len(stack) - 1
         /\ \A i \in 1 .. Len(stack) - 1 : stack'[i] = stack[i] /\ ancestors'[i] = ancestors[i]
         /\ \A i \in 1 .. Len(stack') : stack'[i].left \subseteq DOMAIN fs.kids[stack'[i].ino]
         /\ open' = open - streams /\ pc' = "return"
  <1>1. stack \in Seq(Frame) /\ ancestors \in Seq(Inodes) /\ Len(ancestors) = Len(stack)
    BY DEF Typed, FramesInStep
  <1>2. Len(stack) \in Nat /\ Len(stack) - 1 \in 0 .. Len(stack)
    BY <1>1, EmptySequence
  <1>3. /\ stack' = SubSeq(stack, 1, Len(stack) - 1)
        /\ ancestors' = SubSeq(ancestors, 1, Len(stack) - 1)
        /\ open' = open - streams /\ pc' = "return"
    BY <1>1 DEF LeaveFrame
  <1>4. stack' \in Seq(Frame) /\ Len(stack') = Len(stack) - 1 /\ \A i \in 1 .. Len(stack) - 1 : stack'[i] = stack[i]
    BY <1>1, <1>2, <1>3, Shorter
  <1>5. /\ ancestors' \in Seq(Inodes) /\ Len(ancestors') = Len(stack) - 1
        /\ \A i \in 1 .. Len(stack) - 1 : ancestors'[i] = ancestors[i]
    BY <1>1, <1>2, <1>3, Shorter
  <1>6. \A i \in 1 .. Len(stack') : stack'[i].left \subseteq DOMAIN fs.kids[stack'[i].ino]
    BY <1>2, <1>4 DEF Typed
  <1> QED BY <1>3, <1>4, <1>5, <1>6

\* What becomes of the program counter with a name that is taken.
LEMMA EntryKinds ==
  ASSUME Typed, Control, pc = "read", NEW n \in Top.left, TakeEntry(n)
  PROVE  pc' \in {"enter", "open", "read"}
  <1>1. ChildOf(n).ino \in Inodes
    BY ChildIsCandidate DEF Control, Inside
  <1>2. fs.kind[ChildOf(n).ino] \in Kinds
    BY <1>1, KindsOfInodes
  <1>3. fs.kind[ChildOf(n).ino] # "link"
    BY DEF TakeEntry, Skipped
  <1> QED BY <1>2, <1>3 DEF TakeEntry, Kinds

\* The end of an activation keeps the others in step.
LEMMA FramesLeave ==
  ASSUME Typed, FramesInStep, tree' = tree, stack # << >>,
         LeaveFrame(IF pc \in {"lines", "hash"} THEN 2 ELSE 1)
  PROVE  FramesInStep'
  <1>1. /\ Len(stack') = Len(stack) - 1 /\ Len(ancestors') = Len(stack) - 1
        /\ \A i \in 1 .. Len(stack) - 1 : stack'[i] = stack[i] /\ ancestors'[i] = ancestors[i]
        /\ open' = open - (IF pc \in {"lines", "hash"} THEN 2 ELSE 1) /\ pc' = "return"
    BY FrameLeft
  <1>2. Len(stack) \in Nat \ {0}
    BY TopIsFrame
  <1> QED BY <1>1, <1>2, BoundsAssumption, SMTT(30) DEF FramesInStep

-----------------------------------------------------------------------------
(* Types *)

LEMMA TypedStep ==
  ASSUME Typed, Control, FramesInStep, [Next]_vars
  PROVE  Typed'
  <1>1. MaxFaults \in Nat /\ PathMax \in Nat \ {0, 1} /\ MaxDepth \in Nat \ {0}
    BY BoundsAssumption
  <1>2. CASE Inform
    <2>1. tree' = tree /\ UNCHANGED <<argv, stack, ancestors, rules, cand>>
      BY <1>2 DEF Inform, Exit, mainVars, walkVars
    <2>2. pc' \in Inside \cup Outside \cup {"enter", "return"} /\ pc' # "trim"
      BY <1>2 DEF Inform, Exit, mainVars, walkVars, Inside, Outside
    <2>3. /\ line' \in Nat \ {0} /\ ret' \in {0, 2, -1} /\ status' \in {-1, 0, 2}
          /\ faults' \in 0 .. MaxFaults
      BY <1>2, <1>1 DEF Typed, Inform, Exit, mainVars, walkVars
    <2>4. stale' \in BOOLEAN /\ cut' \in BOOLEAN
      BY <1>2 DEF Typed, Inform, Exit, mainVars, walkVars
    <2> QED BY <2>1, <2>2, <2>3, <2>4, SameTree DEF Typed
  <1>3. CASE RefuseOperand
    <2>1. tree' = tree /\ UNCHANGED <<argv, stack, ancestors, rules, cand>>
      BY <1>3 DEF RefuseOperand, Exit, mainVars, walkVars
    <2>2. pc' \in Inside \cup Outside \cup {"enter", "return"} /\ pc' # "trim"
      BY <1>3 DEF RefuseOperand, Exit, mainVars, walkVars, Inside, Outside
    <2>3. /\ line' \in Nat \ {0} /\ ret' \in {0, 2, -1} /\ status' \in {-1, 0, 2}
          /\ faults' \in 0 .. MaxFaults
      BY <1>3, <1>1 DEF Typed, RefuseOperand, Exit, mainVars, walkVars
    <2>4. stale' \in BOOLEAN /\ cut' \in BOOLEAN
      BY <1>3 DEF Typed, RefuseOperand, Exit, mainVars, walkVars
    <2> QED BY <2>1, <2>2, <2>3, <2>4, SameTree DEF Typed
  <1>4. CASE RootFails
    <2>1. tree' = tree /\ UNCHANGED <<argv, stack, ancestors, rules, cand>>
      BY <1>4 DEF RootFails, Fault, Exit, Trimmed, mainVars, walkVars
    <2>2. pc' \in Inside \cup Outside \cup {"enter", "return"} /\ pc' # "trim"
      BY <1>4 DEF RootFails, Fault, Exit, Trimmed, mainVars, walkVars, Inside, Outside
    <2>3. /\ line' \in Nat \ {0} /\ ret' \in {0, 2, -1} /\ status' \in {-1, 0, 2}
          /\ faults' \in 0 .. MaxFaults
      BY <1>4, <1>1 DEF Typed, RootFails, Fault, Exit, Trimmed, mainVars, walkVars
    <2>4. stale' \in BOOLEAN /\ cut' \in BOOLEAN
      BY <1>4 DEF Typed, RootFails, Fault, Exit, Trimmed, mainVars, walkVars
    <2> QED BY <2>1, <2>2, <2>3, <2>4, SameTree DEF Typed
  <1>5. CASE EnterFails
    <2>1. tree' = tree /\ UNCHANGED <<argv, stack, ancestors, rules, cand>>
      BY <1>5 DEF EnterFails, Fault, mainVars, walkVars
    <2>2. pc' \in Inside \cup Outside \cup {"enter", "return"} /\ pc' # "trim"
      BY <1>5 DEF EnterFails, Fault, mainVars, walkVars, Inside, Outside
    <2>3. /\ line' \in Nat \ {0} /\ ret' \in {0, 2, -1} /\ status' \in {-1, 0, 2}
          /\ faults' \in 0 .. MaxFaults
      BY <1>5, <1>1 DEF Typed, EnterFails, Fault, mainVars, walkVars
    <2>4. stale' \in BOOLEAN /\ cut' \in BOOLEAN
      BY <1>5 DEF Typed, EnterFails, Fault, mainVars, walkVars
    <2> QED BY <2>1, <2>2, <2>3, <2>4, SameTree DEF Typed
  <1>6. CASE NoIgnore
    <2>1. tree' = tree /\ UNCHANGED <<argv, stack, ancestors, rules, cand>>
      BY <1>6 DEF NoIgnore, Fault, mainVars, walkVars
    <2>2. pc' \in Inside \cup Outside \cup {"enter", "return"} /\ pc' # "trim"
      BY <1>6 DEF NoIgnore, Fault, mainVars, walkVars, Inside, Outside
    <2>3. /\ line' \in Nat \ {0} /\ ret' \in {0, 2, -1} /\ status' \in {-1, 0, 2}
          /\ faults' \in 0 .. MaxFaults
      BY <1>6, <1>1 DEF Typed, NoIgnore, Fault, mainVars, walkVars
    <2>4. stale' \in BOOLEAN /\ cut' \in BOOLEAN
      BY <1>6 DEF Typed, NoIgnore, Fault, mainVars, walkVars
    <2> QED BY <2>1, <2>2, <2>3, <2>4, SameTree DEF Typed
  <1>7. CASE Interrupted
    <2>1. tree' = tree /\ UNCHANGED <<argv, stack, ancestors, rules, cand>>
      BY <1>7 DEF Interrupted, mainVars, walkVars
    <2>2. pc' \in Inside \cup Outside \cup {"enter", "return"} /\ pc' # "trim"
      BY <1>7 DEF Interrupted, mainVars, walkVars, Inside, Outside
    <2>3. /\ line' \in Nat \ {0} /\ ret' \in {0, 2, -1} /\ status' \in {-1, 0, 2}
          /\ faults' \in 0 .. MaxFaults
      BY <1>7, <1>1 DEF Typed, Interrupted, mainVars, walkVars
    <2>4. stale' \in BOOLEAN /\ cut' \in BOOLEAN
      BY <1>7 DEF Typed, Interrupted, mainVars, walkVars
    <2> QED BY <2>1, <2>2, <2>3, <2>4, SameTree DEF Typed
  <1>8. CASE WalkFailed
    <2>1. tree' = tree /\ UNCHANGED <<argv, stack, ancestors, rules, cand>>
      BY <1>8 DEF WalkFailed, Exit, mainVars, walkVars
    <2>2. pc' \in Inside \cup Outside \cup {"enter", "return"} /\ pc' # "trim"
      BY <1>8 DEF WalkFailed, Exit, mainVars, walkVars, Inside, Outside
    <2>3. /\ line' \in Nat \ {0} /\ ret' \in {0, 2, -1} /\ status' \in {-1, 0, 2}
          /\ faults' \in 0 .. MaxFaults
      BY <1>8, <1>1 DEF Typed, WalkFailed, Exit, mainVars, walkVars
    <2>4. stale' \in BOOLEAN /\ cut' \in BOOLEAN
      BY <1>8 DEF Typed, WalkFailed, Exit, mainVars, walkVars
    <2> QED BY <2>1, <2>2, <2>3, <2>4, SameTree DEF Typed
  <1>9. CASE Sort
    <2>1. tree' = tree /\ UNCHANGED <<argv, stack, ancestors, rules, cand>>
      BY <1>9 DEF Sort, mainVars, walkVars
    <2>2. pc' \in Inside \cup Outside \cup {"enter", "return"} /\ pc' # "trim"
      BY <1>9 DEF Sort, mainVars, walkVars, Inside, Outside
    <2>3. /\ line' \in Nat \ {0} /\ ret' \in {0, 2, -1} /\ status' \in {-1, 0, 2}
          /\ faults' \in 0 .. MaxFaults
      BY <1>9, <1>1 DEF Typed, Sort, mainVars, walkVars
    <2>4. stale' \in BOOLEAN /\ cut' \in BOOLEAN
      BY <1>9 DEF Typed, Sort, mainVars, walkVars
    <2> QED BY <2>1, <2>2, <2>3, <2>4, SameTree DEF Typed
  <1>10. CASE HashLeaves
    <2>1. tree' = tree /\ UNCHANGED <<argv, stack, ancestors, rules, cand>>
      BY <1>10 DEF HashLeaves, mainVars, walkVars
    <2>2. pc' \in Inside \cup Outside \cup {"enter", "return"} /\ pc' # "trim"
      BY <1>10 DEF HashLeaves, mainVars, walkVars, Inside, Outside
    <2>3. /\ line' \in Nat \ {0} /\ ret' \in {0, 2, -1} /\ status' \in {-1, 0, 2}
          /\ faults' \in 0 .. MaxFaults
      BY <1>10, <1>1 DEF Typed, HashLeaves, mainVars, walkVars
    <2>4. stale' \in BOOLEAN /\ cut' \in BOOLEAN
      BY <1>10 DEF Typed, HashLeaves, mainVars, walkVars
    <2> QED BY <2>1, <2>2, <2>3, <2>4, SameTree DEF Typed
  <1>11. CASE PairLevel
    <2>1. tree' = tree /\ UNCHANGED <<argv, stack, ancestors, rules, cand>>
      BY <1>11 DEF PairLevel, mainVars, walkVars
    <2>2. pc' \in Inside \cup Outside \cup {"enter", "return"} /\ pc' # "trim"
      BY <1>11 DEF PairLevel, mainVars, walkVars, Inside, Outside
    <2>3. /\ line' \in Nat \ {0} /\ ret' \in {0, 2, -1} /\ status' \in {-1, 0, 2}
          /\ faults' \in 0 .. MaxFaults
      BY <1>11, <1>1 DEF Typed, PairLevel, mainVars, walkVars
    <2>4. stale' \in BOOLEAN /\ cut' \in BOOLEAN
      BY <1>11 DEF Typed, PairLevel, mainVars, walkVars
    <2> QED BY <2>1, <2>2, <2>3, <2>4, SameTree DEF Typed
  <1>12. CASE MerkleFails
    <2>1. tree' = tree /\ UNCHANGED <<argv, stack, ancestors, rules, cand>>
      BY <1>12 DEF MerkleFails, Fault, Exit, mainVars, walkVars
    <2>2. pc' \in Inside \cup Outside \cup {"enter", "return"} /\ pc' # "trim"
      BY <1>12 DEF MerkleFails, Fault, Exit, mainVars, walkVars, Inside, Outside
    <2>3. /\ line' \in Nat \ {0} /\ ret' \in {0, 2, -1} /\ status' \in {-1, 0, 2}
          /\ faults' \in 0 .. MaxFaults
      BY <1>12, <1>1 DEF Typed, MerkleFails, Fault, Exit, mainVars, walkVars
    <2>4. stale' \in BOOLEAN /\ cut' \in BOOLEAN
      BY <1>12 DEF Typed, MerkleFails, Fault, Exit, mainVars, walkVars
    <2> QED BY <2>1, <2>2, <2>3, <2>4, SameTree DEF Typed
  <1>13. CASE PrintAll
    <2>1. tree' = tree /\ UNCHANGED <<argv, stack, ancestors, rules, cand>>
      BY <1>13 DEF PrintAll, Exit, mainVars, walkVars
    <2>2. pc' \in Inside \cup Outside \cup {"enter", "return"} /\ pc' # "trim"
      BY <1>13 DEF PrintAll, Exit, mainVars, walkVars, Inside, Outside
    <2>3. /\ line' \in Nat \ {0} /\ ret' \in {0, 2, -1} /\ status' \in {-1, 0, 2}
          /\ faults' \in 0 .. MaxFaults
      BY <1>13, <1>1 DEF Typed, PrintAll, Exit, mainVars, walkVars
    <2>4. stale' \in BOOLEAN /\ cut' \in BOOLEAN
      BY <1>13 DEF Typed, PrintAll, Exit, mainVars, walkVars
    <2> QED BY <2>1, <2>2, <2>3, <2>4, SameTree DEF Typed
  <1>14. CASE PrintFails
    <2>1. tree' = tree /\ UNCHANGED <<argv, stack, ancestors, rules, cand>>
      BY <1>14 DEF PrintFails, Fault, Exit, mainVars, walkVars
    <2>2. pc' \in Inside \cup Outside \cup {"enter", "return"} /\ pc' # "trim"
      BY <1>14 DEF PrintFails, Fault, Exit, mainVars, walkVars, Inside, Outside
    <2>3. /\ line' \in Nat \ {0} /\ ret' \in {0, 2, -1} /\ status' \in {-1, 0, 2}
          /\ faults' \in 0 .. MaxFaults
      BY <1>14, <1>1 DEF Typed, PrintFails, Fault, Exit, mainVars, walkVars
    <2>4. stale' \in BOOLEAN /\ cut' \in BOOLEAN
      BY <1>14 DEF Typed, PrintFails, Fault, Exit, mainVars, walkVars
    <2> QED BY <2>1, <2>2, <2>3, <2>4, SameTree DEF Typed
  <1>15. CASE OpenIgnore
    <2>1. tree' = tree /\ UNCHANGED <<argv, stack, ancestors, rules, cand>>
      BY <1>15 DEF OpenIgnore, mainVars, walkVars
    <2>2. pc' \in Inside \cup Outside \cup {"enter", "return"} /\ pc' # "trim"
      BY <1>15 DEF OpenIgnore, mainVars, walkVars, Inside, Outside
    <2>3. /\ line' \in Nat \ {0} /\ ret' \in {0, 2, -1} /\ status' \in {-1, 0, 2}
          /\ faults' \in 0 .. MaxFaults
      BY <1>15, <1>1 DEF Typed, OpenIgnore, mainVars, walkVars
    <2>4. stale' \in BOOLEAN /\ cut' \in BOOLEAN
      BY <1>15 DEF Typed, OpenIgnore, mainVars, walkVars
    <2> QED BY <2>1, <2>2, <2>3, <2>4, SameTree DEF Typed
  <1>16. CASE LinesEnd
    <2>1. tree' = tree /\ UNCHANGED <<argv, stack, ancestors, rules, cand>>
      BY <1>16 DEF LinesEnd, Fault, mainVars, walkVars
    <2>2. pc' \in Inside \cup Outside \cup {"enter", "return"} /\ pc' # "trim"
      BY <1>16 DEF LinesEnd, Fault, mainVars, walkVars, Inside, Outside
    <2>3. /\ line' \in Nat \ {0} /\ ret' \in {0, 2, -1} /\ status' \in {-1, 0, 2}
          /\ faults' \in 0 .. MaxFaults
      BY <1>16, <1>1 DEF Typed, LinesEnd, Fault, mainVars, walkVars
    <2>4. stale' \in BOOLEAN /\ cut' \in BOOLEAN
      BY <1>16 DEF Typed, LinesEnd, Fault, mainVars, walkVars
    <2> QED BY <2>1, <2>2, <2>3, <2>4, SameTree DEF Typed
  <1>17. CASE OpenFile
    <2>1. tree' = tree /\ UNCHANGED <<argv, stack, ancestors, rules, cand>>
      BY <1>17 DEF OpenFile, mainVars, walkVars
    <2>2. pc' \in Inside \cup Outside \cup {"enter", "return"} /\ pc' # "trim"
      BY <1>17 DEF OpenFile, mainVars, walkVars, Inside, Outside
    <2>3. /\ line' \in Nat \ {0} /\ ret' \in {0, 2, -1} /\ status' \in {-1, 0, 2}
          /\ faults' \in 0 .. MaxFaults
      BY <1>17, <1>1 DEF Typed, OpenFile, mainVars, walkVars
    <2>4. stale' \in BOOLEAN /\ cut' \in BOOLEAN
      BY <1>17 DEF Typed, OpenFile, mainVars, walkVars
    <2> QED BY <2>1, <2>2, <2>3, <2>4, SameTree DEF Typed
  <1>18. CASE EndOfFile
    <2>1. tree' = tree /\ UNCHANGED <<argv, stack, ancestors, rules, cand>>
      BY <1>18 DEF EndOfFile, mainVars, walkVars
    <2>2. pc' \in Inside \cup Outside \cup {"enter", "return"} /\ pc' # "trim"
      BY <1>18 DEF EndOfFile, mainVars, walkVars, Inside, Outside
    <2>3. /\ line' \in Nat \ {0} /\ ret' \in {0, 2, -1} /\ status' \in {-1, 0, 2}
          /\ faults' \in 0 .. MaxFaults
      BY <1>18, <1>1 DEF Typed, EndOfFile, mainVars, walkVars
    <2>4. stale' \in BOOLEAN /\ cut' \in BOOLEAN
      BY <1>18 DEF Typed, EndOfFile, mainVars, walkVars
    <2> QED BY <2>1, <2>2, <2>3, <2>4, SameTree DEF Typed
  <1>19. CASE AddEntry
    <2>1. tree' = tree /\ UNCHANGED <<argv, stack, ancestors, rules, cand>>
      BY <1>19 DEF AddEntry, mainVars, walkVars
    <2>2. pc' \in Inside \cup Outside \cup {"enter", "return"} /\ pc' # "trim"
      BY <1>19 DEF AddEntry, mainVars, walkVars, Inside, Outside
    <2>3. /\ line' \in Nat \ {0} /\ ret' \in {0, 2, -1} /\ status' \in {-1, 0, 2}
          /\ faults' \in 0 .. MaxFaults
      BY <1>19, <1>1 DEF Typed, AddEntry, mainVars, walkVars
    <2>4. stale' \in BOOLEAN /\ cut' \in BOOLEAN
      BY <1>19 DEF Typed, AddEntry, mainVars, walkVars
    <2> QED BY <2>1, <2>2, <2>3, <2>4, SameTree DEF Typed
  <1>20. CASE StartTrim
    <2>1. tree' = tree /\ UNCHANGED <<argv, stack, ancestors, rules, cand>>
      BY <1>20 DEF StartTrim, walkVars
    <2>2. pc' \in Outside /\ walked' = operand
      BY <1>20 DEF StartTrim, Outside
    <2>3. IsSequence(operand) /\ Len(operand) < PathMax
      <3>1. argv \in Seq(Seq(STRING)) /\ Len(operand) < PathMax
        BY <1>20, BoundsAssumption DEF StartTrim, OperandRefused, Typed
      <3>2. CASE argv = << >>
        <4>1. operand = <<".">>
          BY <3>2 DEF operand
        <4>2. <<".">> \in Seq({"."})
          OBVIOUS
        <4> QED BY <3>1, <4>1, <4>2 DEF IsSequence
      <3>3. CASE argv # << >>
        <4>1. 1 \in 1 .. Len(argv)
          BY <3>1, <3>3, EmptySequence
        <4>2. argv[1] \in Seq(STRING)
          BY <3>1, <4>1, ElementOf
        <4> QED BY <3>1, <3>3, <4>2 DEF operand, IsSequence
      <3> QED BY <3>2, <3>3
    <2>4. /\ line' \in Nat \ {0} /\ ret' \in {0, 2, -1} /\ status' \in {-1, 0, 2}
          /\ faults' \in 0 .. MaxFaults
      BY <1>20, <1>1 DEF Typed, StartTrim, walkVars
    <2>5. stale' \in BOOLEAN /\ cut' \in BOOLEAN
      BY <1>20 DEF Typed, StartTrim, walkVars
    <2> QED BY <2>1, <2>2, <2>3, <2>4, <2>5, SameTree DEF Typed
  <1>21. CASE Trim
    <2>1. tree' = tree /\ UNCHANGED <<argv, stack, ancestors, rules, cand, pc>> /\ pc = "trim"
      BY <1>21 DEF Trim, walkVars
    <2>2. PICK S : walked \in Seq(S) /\ Len(walked) < PathMax
      BY <2>1 DEF Typed, IsSequence
    <2>3. walked' \in Seq(S) /\ Len(walked') < PathMax
      <3>1. CASE EndsInSlash /\ walked' = SubSeq(walked, 1, Len(walked) - 1)
        <4>1. Len(walked) - 1 \in 0 .. Len(walked)
          BY <3>1, <2>2 DEF EndsInSlash
        <4> DEFINE k == Len(walked) - 1
        <4>2. walked' = SubSeq(walked, 1, k) /\ walked \in Seq(S) /\ k \in 0 .. Len(walked)
          BY <3>1, <2>2, <4>1
        <4> HIDE DEF k
        <4>3. walked' \in Seq(S) /\ Len(walked') = k
          BY <4>2, Shorter
        <4> USE DEF k
        <4> QED BY <2>2, <4>1, <4>3, <1>1
      <3>2. CASE EndsInDot /\ walked' = SubSeq(walked, 1, Len(walked) - 2)
        <4>1. Len(walked) - 2 \in 0 .. Len(walked)
          BY <3>2, <2>2 DEF EndsInDot
        <4> DEFINE k == Len(walked) - 2
        <4>2. walked' = SubSeq(walked, 1, k) /\ walked \in Seq(S) /\ k \in 0 .. Len(walked)
          BY <3>2, <2>2, <4>1
        <4> HIDE DEF k
        <4>3. walked' \in Seq(S) /\ Len(walked') = k
          BY <4>2, Shorter
        <4> USE DEF k
        <4> QED BY <2>2, <4>1, <4>3, <1>1
      <3> QED BY <1>21, <3>1, <3>2 DEF Trim
    <2>4. /\ line' \in Nat \ {0} /\ ret' \in {0, 2, -1} /\ status' \in {-1, 0, 2}
          /\ faults' \in 0 .. MaxFaults
      BY <1>21, <1>1 DEF Typed, Trim
    <2>5. stale' \in BOOLEAN /\ cut' \in BOOLEAN
      BY <1>21 DEF Typed, Trim
    <2> QED BY <2>1, <2>3, <2>4, <2>5, SameTree DEF Typed, IsSequence
  <1>22. CASE StartWalk
    <2>1. tree' = tree /\ UNCHANGED <<argv, stack, ancestors, rules>> /\ pc' = "enter" /\ pc = "trim"
      BY <1>22 DEF StartWalk, Trimmed, walkVars
    <2>2. PICK S : walked \in Seq(S) /\ Len(walked) < PathMax
      BY <2>1 DEF Typed, IsSequence
    <2>3. Len(walked') \in 0 .. PathMax - 1
      <3>1. walked' = walked \/ walked' = <<".">>
        BY <1>22 DEF StartWalk, Trimmed
      <3>2. Len(<<".">>) = 1 /\ Len(walked) \in Nat
        BY <2>2
      <3>3. CASE walked' = walked
        BY <3>3, <3>2, <2>2, <1>1
      <3>4. CASE walked' = <<".">>
        BY <3>4, <3>2, <1>1
      <3> QED BY <3>1, <3>3, <3>4
    <2>6. cand' \in Candidate
      <3>1. cand' = [ino |-> Root, rel |-> << >>, len |-> Len(walked')]
        BY <1>22 DEF StartWalk
      <3>2. Root \in Inodes /\ << >> \in Seq(Names)
        BY TreeIsTree
      <3> QED BY <3>1, <3>2, <2>3 DEF Candidate
    <2>4. /\ line' \in Nat \ {0} /\ ret' \in {0, 2, -1} /\ status' \in {-1, 0, 2}
          /\ faults' \in 0 .. MaxFaults
      BY <1>22, <1>1 DEF Typed, StartWalk
    <2>5. stale' \in BOOLEAN /\ cut' \in BOOLEAN
      BY <1>22 DEF Typed, StartWalk
    <2> QED BY <2>1, <2>4, <2>5, <2>6, SameTree DEF Typed
  <1>23. CASE Enter
    <2>1. tree' = tree /\ UNCHANGED <<argv, rules, cand>> /\ pc' \in Inside /\ pc' # "trim"
      BY <1>23 DEF Enter, mainVars, Inside
    <2> DEFINE f == [ino |-> cand.ino, rel |-> cand.rel, len |-> cand.len, left |-> DOMAIN fs.kids[cand.ino]]
    <2>2. f \in Frame /\ cand.ino \in Inodes
      <3>1. cand.ino \in Inodes /\ cand.rel \in Seq(Names) /\ cand.len \in 0 .. PathMax - 1
        BY DEF Typed, Candidate
      <3>2. DOMAIN fs.kids[cand.ino] \subseteq Names
        BY <3>1, TreeIsTree
      <3> QED BY <3>1, <3>2 DEF Frame
    <2>3. /\ stack' \in Seq(Frame) /\ Len(stack') = Len(stack) + 1 /\ stack'[Len(stack) + 1] = f
          /\ \A i \in 1 .. Len(stack) : stack'[i] = stack[i]
      <3>1. stack' = Append(stack, f) /\ stack \in Seq(Frame)
        BY <1>23 DEF Enter, Typed
      <3> HIDE DEF f
      <3> QED BY <3>1, <2>2, Longer
    <2>6. ancestors' \in Seq(Inodes)
      BY <1>23, <2>2, Longer DEF Enter, Typed
    <2>7. \A i \in 1 .. Len(stack') : stack'[i].left \subseteq DOMAIN fs.kids[stack'[i].ino]
      <3>1. ASSUME NEW i \in 1 .. Len(stack') PROVE stack'[i].left \subseteq DOMAIN fs.kids[stack'[i].ino]
        <4>1. CASE i = Len(stack) + 1
          BY <4>1, <2>3
        <4>2. CASE i # Len(stack) + 1
          <5>1. Len(stack) \in Nat /\ i \in 1 .. Len(stack)
            BY <4>2, <2>3 DEF Typed
          <5> QED BY <5>1, <2>3 DEF Typed
        <4> QED BY <4>1, <4>2
      <3> QED BY <3>1
    <2>4. /\ line' \in Nat \ {0} /\ ret' \in {0, 2, -1} /\ status' \in {-1, 0, 2}
          /\ faults' \in 0 .. MaxFaults
      BY <1>23, <1>1 DEF Typed, Enter, mainVars
    <2>5. stale' \in BOOLEAN /\ cut' \in BOOLEAN
      BY <1>23 DEF Typed, Enter, mainVars
    <2> HIDE DEF f
    <2> QED BY <2>1, <2>3, <2>4, <2>5, <2>6, <2>7, SameTree DEF Typed
  <1>24. CASE Return
    <2>1. CASE ret = 0 /\ pc' = "read" /\ stale' = FALSE /\ UNCHANGED <<walkVars, ret>>
      BY <1>24, <2>1, SameTree DEF Return, Typed, mainVars, walkVars, Inside
    <2>2. CASE ret # 0 /\ Leave(ret) /\ UNCHANGED stale
      <3>1. tree' = tree /\ UNCHANGED <<argv, cand>> /\ stack # << >>
        BY <1>24 DEF Return, mainVars
      <3>2. LeaveFrame(1)
        BY <2>2 DEF Leave
      <3>3. rules' \in Seq(Rule)
        BY <2>2, PoppedRules DEF Leave
      <3>4. /\ line' \in Nat \ {0} /\ ret' \in {0, 2, -1} /\ status' \in {-1, 0, 2}
            /\ faults' \in 0 .. MaxFaults
        BY <1>24, <2>2 DEF Return, Leave, Typed, mainVars
      <3>5. stale' \in BOOLEAN /\ cut' \in BOOLEAN
        BY <1>24, <2>2 DEF Return, Typed
      <3> QED BY <3>1, <3>2, <3>3, <3>4, <3>5, FrameLeft, SameTree DEF Typed
    <2> QED BY <1>24, <2>1, <2>2 DEF Return
  <1>25. CASE IgnoreFails
    <2>1. tree' = tree /\ UNCHANGED <<argv, cand>> /\ stack # << >>
      BY <1>25 DEF IgnoreFails, AbandonIgnore, Fault, mainVars, Control, Inside
    <2>2. LeaveFrame(1)
      BY <1>25 DEF IgnoreFails, AbandonIgnore, Fault, mainVars
    <2>3. rules' \in Seq(Rule)
      BY <1>25 DEF Typed, IgnoreFails, AbandonIgnore, Fault, mainVars
    <2>4. /\ line' \in Nat \ {0} /\ ret' \in {0, 2, -1} /\ status' \in {-1, 0, 2}
          /\ faults' \in 0 .. MaxFaults
      BY <1>25, <1>1 DEF Typed, IgnoreFails, AbandonIgnore, Fault, mainVars
    <2>5. stale' \in BOOLEAN /\ cut' \in BOOLEAN
      BY <1>25 DEF Typed, IgnoreFails, AbandonIgnore, Fault, mainVars
    <2> QED BY <2>1, <2>2, <2>3, <2>4, <2>5, FrameLeft, SameTree DEF Typed
  <1>26. CASE LineFails
    <2>1. tree' = tree /\ UNCHANGED <<argv, cand>> /\ stack # << >>
      BY <1>26 DEF LineFails, AbandonIgnore, Fault, mainVars, Control, Inside
    <2>2. LeaveFrame(2)
      BY <1>26 DEF LineFails, AbandonIgnore, Fault, mainVars
    <2>3. rules' \in Seq(Rule)
      BY <1>26 DEF Typed, LineFails, AbandonIgnore, Fault, mainVars
    <2>4. /\ line' \in Nat \ {0} /\ ret' \in {0, 2, -1} /\ status' \in {-1, 0, 2}
          /\ faults' \in 0 .. MaxFaults
      BY <1>26, <1>1 DEF Typed, LineFails, AbandonIgnore, Fault, mainVars
    <2>5. stale' \in BOOLEAN /\ cut' \in BOOLEAN
      BY <1>26 DEF Typed, LineFails, AbandonIgnore, Fault, mainVars
    <2> QED BY <2>1, <2>2, <2>3, <2>4, <2>5, FrameLeft, SameTree DEF Typed
  <1>27. CASE NamesEnd
    <2>1. tree' = tree /\ UNCHANGED <<argv, cand>> /\ stack # << >>
      BY <1>27 DEF NamesEnd, Leave, Fault, mainVars, Control, Inside
    <2>2. LeaveFrame(1)
      BY <1>27 DEF NamesEnd, Leave, Fault, mainVars
    <2>3. rules' \in Seq(Rule)
      BY <1>27, PoppedRules DEF NamesEnd, Leave, Fault, mainVars
    <2>4. /\ line' \in Nat \ {0} /\ ret' \in {0, 2, -1} /\ status' \in {-1, 0, 2}
          /\ faults' \in 0 .. MaxFaults
      BY <1>27, <1>1 DEF Typed, NamesEnd, Leave, Fault, mainVars
    <2>5. stale' \in BOOLEAN /\ cut' \in BOOLEAN
      BY <1>27 DEF Typed, NamesEnd, Leave, Fault, mainVars
    <2> QED BY <2>1, <2>2, <2>3, <2>4, <2>5, FrameLeft, SameTree DEF Typed
  <1>28. CASE FileFails
    <2>1. tree' = tree /\ UNCHANGED <<argv, cand>> /\ stack # << >>
      BY <1>28 DEF FileFails, Fault, mainVars, Control, Inside
    <2>2. LeaveFrame((IF pc = "hash" THEN 2 ELSE 1))
      BY <1>28 DEF FileFails, Fault, mainVars
    <2>3. rules' \in Seq(Rule)
      BY <1>28, PoppedRules DEF FileFails, Fault, mainVars
    <2>4. /\ line' \in Nat \ {0} /\ ret' \in {0, 2, -1} /\ status' \in {-1, 0, 2}
          /\ faults' \in 0 .. MaxFaults
      BY <1>28, <1>1 DEF Typed, FileFails, Fault, mainVars
    <2>5. stale' \in BOOLEAN /\ cut' \in BOOLEAN
      BY <1>28 DEF Typed, FileFails, Fault, mainVars
    <2> QED BY <2>1, <2>2, <2>3, <2>4, <2>5, FrameLeft, SameTree DEF Typed
  <1>29. CASE ReadLine
    <2>1. tree' = tree /\ UNCHANGED <<argv, stack, ancestors, cand, pc>> /\ pc = "lines"
      BY <1>29 DEF ReadLine, mainVars
    <2>2. stack # << >> /\ HasGitignore(tree, Top.ino)
      BY <2>1 DEF Control, Inside
    <2> DEFINE text == GitignoreLines(tree, Top.ino)[line]
               r == RuleOf(text, Top.rel, Depth)
    <2>3. text \in [blank : BOOLEAN, bang : BOOLEAN, slash : BOOLEAN, root : BOOLEAN, pat : Seq(STRING)]
      <3>1. line \in 1 .. Len(GitignoreLines(tree, Top.ino))
        <4>1. Len(GitignoreLines(tree, Top.ino)) \in Nat
          BY <2>2, LinesAreTyped
        <4> QED BY <1>29, <4>1 DEF ReadLine, Typed
      <3>2. GitignoreLines(tree, Top.ino) \in Seq(Line)
        BY <2>2, LinesAreTyped DEF Line
      <3> QED BY <3>1, <3>2, ElementOf DEF Line
    <2>6. r \in Rule
      <3>1. Depth \in Nat /\ Top.rel \in Seq(Names)
        BY <2>2, TopIsFrame DEF Depth, Frame
      <3>2. text.bang \in BOOLEAN /\ text.slash \in BOOLEAN /\ text.pat \in Seq(STRING)
        BY <2>3
      <3> HIDE DEF text
      <3>3. (text.root \/ Len(text.pat) > 1) \in BOOLEAN
        OBVIOUS
      <3> QED BY <3>1, <3>2, <3>3 DEF RuleOf, Rule
    <2>7. rules' \in Seq(Rule)
      <3>1. rules' = rules \/ rules' = Append(rules, r)
        BY <1>29 DEF ReadLine
      <3> HIDE DEF r
      <3> QED BY <3>1, <2>6, Longer DEF Typed
    <2>4. /\ line' \in Nat \ {0} /\ ret' \in {0, 2, -1} /\ status' \in {-1, 0, 2}
          /\ faults' \in 0 .. MaxFaults
      BY <1>29, <1>1 DEF Typed, ReadLine, mainVars
    <2>5. stale' \in BOOLEAN /\ cut' \in BOOLEAN
      BY <1>29 DEF Typed, ReadLine, mainVars
    <2> QED BY <2>1, <2>4, <2>5, <2>7, SameTree DEF Typed
  <1>30. ASSUME pc = "read", NEW n \in Top.left, SkipEntry(n) PROVE Typed'
    <2>1. tree' = tree /\ UNCHANGED <<argv, ancestors, rules, cand, pc>> /\ pc # "trim"
      BY <1>30 DEF SkipEntry, mainVars
    <2>2. stack # << >> /\ Took(n)
      BY <1>30 DEF SkipEntry, Control, Inside
    <2>3. /\ stack' \in Seq(Frame) /\ Len(stack') = Len(stack)
          /\ \A i \in 1 .. Len(stack') : stack'[i].left \subseteq DOMAIN fs.kids[stack'[i].ino]
      BY <2>2, FrameTook
    <2>4. /\ line' \in Nat \ {0} /\ ret' \in {0, 2, -1} /\ status' \in {-1, 0, 2}
          /\ faults' \in 0 .. MaxFaults
      BY <1>30, <1>1 DEF Typed, SkipEntry, mainVars
    <2>5. stale' \in BOOLEAN /\ cut' \in BOOLEAN
      BY <1>30 DEF Typed, SkipEntry, mainVars
    <2> QED BY <2>1, <2>3, <2>4, <2>5, SameTree DEF Typed, IsSequence
  <1>31. ASSUME pc = "read", NEW n \in Top.left, TakeEntry(n) PROVE Typed'
    <2>1. tree' = tree /\ UNCHANGED <<argv, ancestors, rules>>
      BY <1>31 DEF TakeEntry, mainVars
    <2>2. stack # << >> /\ Took(n)
      BY <1>31 DEF TakeEntry, Control, Inside
    <2>3. /\ stack' \in Seq(Frame) /\ Len(stack') = Len(stack)
          /\ \A i \in 1 .. Len(stack') : stack'[i].left \subseteq DOMAIN fs.kids[stack'[i].ino]
      BY <2>2, FrameTook
    <2>6. cand' \in Candidate
      <3>1. ChildOf(n) \in Candidate
        BY <1>31, <2>2, ChildIsCandidate DEF TakeEntry
      <3> QED BY <1>31, <3>1 DEF TakeEntry, Typed
    <2>7. pc' \in Inside \cup {"enter"} /\ pc' # "trim"
      BY <1>31, EntryKinds DEF Inside
    <2>4. /\ line' \in Nat \ {0} /\ ret' \in {0, 2, -1} /\ status' \in {-1, 0, 2}
          /\ faults' \in 0 .. MaxFaults
      BY <1>31, <1>1 DEF Typed, TakeEntry, mainVars
    <2>5. stale' \in BOOLEAN /\ cut' \in BOOLEAN
      BY <1>31 DEF Typed, TakeEntry, mainVars
    <2> QED BY <2>1, <2>3, <2>4, <2>5, <2>6, <2>7, SameTree DEF Typed
  <1>32. ASSUME pc = "read", NEW n \in Top.left, EntryFails(n) PROVE Typed'
    <2>1. tree' = tree /\ UNCHANGED <<argv, cand>> /\ stack # << >>
      BY <1>32 DEF EntryFails, Leave, Fault, mainVars, Control, Inside
    <2>2. LeaveFrame(1)
      BY <1>32 DEF EntryFails, Leave, Fault, mainVars
    <2>3. rules' \in Seq(Rule)
      BY <1>32, PoppedRules DEF EntryFails, Leave, Fault, mainVars
    <2>4. /\ line' \in Nat \ {0} /\ ret' \in {0, 2, -1} /\ status' \in {-1, 0, 2}
          /\ faults' \in 0 .. MaxFaults
      BY <1>32, <1>1 DEF Typed, EntryFails, Leave, Fault, mainVars
    <2>5. stale' \in BOOLEAN /\ cut' \in BOOLEAN
      BY <1>32 DEF Typed, EntryFails, Leave, Fault, mainVars
    <2> QED BY <2>1, <2>2, <2>3, <2>4, <2>5, FrameLeft, SameTree DEF Typed
  <1>33. ASSUME NEW k \in ReadSizes, ReadBytes(k) PROVE Typed'
    BY <1>33, SameTree DEF ReadBytes, Typed, mainVars, walkVars
  <1>34. CASE UNCHANGED vars
    BY <1>34, SameTree DEF Typed, vars, mainVars, walkVars
  <1> QED
    BY <1>2, <1>3, <1>4, <1>5, <1>6, <1>7, <1>8, <1>9, <1>10, <1>11, <1>12, <1>13, <1>14, <1>15, <1>16, <1>17, <1>18, <1>19, <1>20, <1>21, <1>22, <1>23, <1>24, <1>25, <1>26, <1>27, <1>28, <1>29, <1>30, <1>31, <1>32, <1>33, <1>34 DEF Next, NextEntry, Terminated

-----------------------------------------------------------------------------
(* Control *)

LEMMA ControlStep ==
  ASSUME Typed, Control, FramesInStep, [Next]_vars
  PROVE  Control'
  <1>1. CASE Inform
    BY <1>1 DEF Inform, Exit, Control, Inside, Outside, mainVars, walkVars
  <1>2. CASE RefuseOperand
    BY <1>2 DEF RefuseOperand, Exit, Control, Inside, Outside, mainVars, walkVars
  <1>3. CASE StartTrim
    BY <1>3 DEF StartTrim, Control, Inside, Outside, mainVars, walkVars
  <1>4. CASE Trim
    BY <1>4 DEF Trim, Control, Inside, Outside, mainVars, walkVars
  <1>5. CASE RootFails
    BY <1>5 DEF RootFails, Exit, Trimmed, Control, Inside, Outside, mainVars, walkVars
  <1>6. CASE StartWalk
    BY <1>6 DEF StartWalk, Trimmed, Control, Inside, Outside, mainVars, walkVars
  <1>7. CASE WalkFailed
    BY <1>7 DEF WalkFailed, Exit, Control, Inside, Outside, mainVars, walkVars
  <1>8. CASE Sort
    BY <1>8 DEF Sort, Control, Inside, Outside, mainVars, walkVars
  <1>9. CASE HashLeaves
    BY <1>9 DEF HashLeaves, Control, Inside, Outside, mainVars, walkVars
  <1>10. CASE PairLevel
    BY <1>10 DEF PairLevel, Control, Inside, Outside, mainVars, walkVars
  <1>11. CASE MerkleFails
    BY <1>11 DEF MerkleFails, Exit, Control, Inside, Outside, mainVars, walkVars
  <1>12. CASE PrintAll
    BY <1>12 DEF PrintAll, Exit, Control, Inside, Outside, mainVars, walkVars
  <1>13. CASE PrintFails
    BY <1>13 DEF PrintFails, Exit, Control, Inside, Outside, mainVars, walkVars
  <1>14. CASE EnterFails
    BY <1>14 DEF EnterFails, Control, Inside, Outside, mainVars, walkVars
  <1>15. CASE NoIgnore
    BY <1>15 DEF NoIgnore, Control, Inside, Outside, mainVars, walkVars
  <1>16. CASE Interrupted
    BY <1>16 DEF Interrupted, Control, Inside, Outside, mainVars, walkVars
  <1>17. CASE LinesEnd
    BY <1>17 DEF LinesEnd, Control, Inside, Outside, mainVars, walkVars
  <1>18. CASE OpenFile
    BY <1>18 DEF OpenFile, Control, Inside, Outside, mainVars, walkVars
  <1>19. CASE EndOfFile
    BY <1>19 DEF EndOfFile, Control, Inside, Outside, mainVars, walkVars
  <1>20. CASE AddEntry
    BY <1>20 DEF AddEntry, Control, Inside, Outside, mainVars, walkVars
  <1>21. CASE OpenIgnore
    <2>1. tree' = tree /\ stack' = stack
      BY <1>21 DEF OpenIgnore, mainVars
    <2>2. HasGitignore(tree, Top.ino) /\ HasGitignore(tree, Top.ino)' = HasGitignore(tree, Top.ino)
      BY <1>21, <2>1 DEF OpenIgnore, Control, HasGitignore, Top, fs
    <2> QED BY <1>21, <2>1, <2>2 DEF OpenIgnore, Control, Inside, Outside, mainVars
  <1>22. CASE ReadLine
    <2>1. tree' = tree /\ stack' = stack
      BY <1>22 DEF ReadLine, mainVars
    <2>2. HasGitignore(tree, Top.ino) /\ HasGitignore(tree, Top.ino)' = HasGitignore(tree, Top.ino)
      BY <1>22, <2>1 DEF ReadLine, Control, HasGitignore, Top, fs
    <2> QED BY <1>22, <2>1, <2>2 DEF ReadLine, Control, Inside, Outside, mainVars
  <1>23. CASE Enter
    <2>1. stack' # << >>
      <3>1. stack \in Seq(Frame) /\ Len(stack) \in Nat
        BY DEF Typed
      <3>2. Len(stack') = Len(stack) + 1
        BY <1>23, <3>1 DEF Enter
      <3>3. Len(<< >>) = 0
        OBVIOUS
      <3> QED BY <3>1, <3>2, <3>3
    <2> QED BY <1>23, <2>1 DEF Enter, Control, Inside, Outside, mainVars
  <1>24. CASE IgnoreFails
    <2>1. pc' = "return" /\ status' = status /\ pc # "done"
      BY <1>24 DEF IgnoreFails, AbandonIgnore, LeaveFrame, mainVars
    <2> QED BY <2>1 DEF Control, Inside, Outside
  <1>25. CASE LineFails
    <2>1. pc' = "return" /\ status' = status /\ pc # "done"
      BY <1>25 DEF LineFails, AbandonIgnore, LeaveFrame, mainVars
    <2> QED BY <2>1 DEF Control, Inside, Outside
  <1>26. CASE NamesEnd
    <2>1. pc' = "return" /\ status' = status /\ pc # "done"
      BY <1>26 DEF NamesEnd, Leave, LeaveFrame, mainVars
    <2> QED BY <2>1 DEF Control, Inside, Outside
  <1>27. CASE FileFails
    <2>1. pc' = "return" /\ status' = status /\ pc # "done"
      BY <1>27 DEF FileFails, LeaveFrame, mainVars
    <2> QED BY <2>1 DEF Control, Inside, Outside
  <1>28. CASE Return
    <2>1. CASE ret = 0 /\ pc' = "read" /\ stale' = FALSE /\ UNCHANGED <<walkVars, ret>>
      BY <1>28, <2>1 DEF Return, Control, Inside, Outside, mainVars, walkVars
    <2>2. CASE ret # 0 /\ Leave(ret) /\ UNCHANGED stale
      <3>1. pc' = "return" /\ status' = status /\ pc # "done"
        BY <1>28, <2>2 DEF Return, Leave, LeaveFrame, mainVars
      <3> QED BY <3>1 DEF Control, Inside, Outside
    <2> QED BY <1>28, <2>1, <2>2 DEF Return
  <1>29. ASSUME pc = "read", NEW n \in Top.left, SkipEntry(n) PROVE Control'
    <2>1. stack # << >> /\ Took(n) /\ ret = 0 /\ status = -1
      BY <1>29 DEF SkipEntry, Control, Inside
    <2>2. stack' # << >>
      BY <2>1, FrameTook, EmptySequence DEF Typed
    <2>3. pc' \in {"enter", "open", "read"} /\ ret' = ret /\ status' = status
      BY <1>29, EntryKinds DEF SkipEntry, mainVars
    <2> QED BY <2>1, <2>2, <2>3 DEF Control, Inside, Outside
  <1>30. ASSUME pc = "read", NEW n \in Top.left, TakeEntry(n) PROVE Control'
    <2>1. stack # << >> /\ Took(n) /\ ret = 0 /\ status = -1
      BY <1>30 DEF TakeEntry, Control, Inside
    <2>2. stack' # << >>
      BY <2>1, FrameTook, EmptySequence DEF Typed
    <2>3. pc' \in {"enter", "open", "read"} /\ ret' = ret /\ status' = status
      BY <1>30, EntryKinds DEF TakeEntry, mainVars
    <2> QED BY <2>1, <2>2, <2>3 DEF Control, Inside, Outside
  <1>31. ASSUME pc = "read", NEW n \in Top.left, EntryFails(n) PROVE Control'
    <2>1. pc' = "return" /\ status' = status /\ pc # "done"
      BY <1>31 DEF EntryFails, Leave, LeaveFrame, mainVars
    <2> QED BY <2>1 DEF Control, Inside, Outside
  <1>32. ASSUME NEW k \in ReadSizes, ReadBytes(k) PROVE Control'
    BY <1>32 DEF ReadBytes, Control, Inside, Outside, mainVars, walkVars
  <1>33. CASE UNCHANGED vars
    <2>1. HasGitignore(tree, Top.ino)' = HasGitignore(tree, Top.ino)
      BY <1>33 DEF HasGitignore, Top, fs, vars, mainVars, walkVars
    <2> QED BY <1>33, <2>1 DEF Control, vars, mainVars, walkVars
  <1> QED
    BY <1>1, <1>2, <1>3, <1>4, <1>5, <1>6, <1>7, <1>8, <1>9, <1>10, <1>11, <1>12, <1>13, <1>14, <1>15, <1>16, <1>17, <1>18, <1>19, <1>20, <1>21, <1>22, <1>23, <1>24, <1>25, <1>26, <1>27, <1>28, <1>29, <1>30, <1>31, <1>32, <1>33 DEF Next, NextEntry, Terminated

-----------------------------------------------------------------------------
(* The activations *)

LEMMA FramesStep ==
  ASSUME Typed, Control, FramesInStep, [Next]_vars
  PROVE  FramesInStep'
  <1> DEFINE depth == Len(stack)
  <1>1. CASE Inform
    <2>1. UNCHANGED <<stack, ancestors, open>> /\ (pc' \in {"lines", "hash"} <=> pc \in {"lines", "hash"})
      BY <1>1 DEF Inform, Exit, walkVars
    <2> QED BY <2>1 DEF FramesInStep
  <1>2. CASE RefuseOperand
    <2>1. UNCHANGED <<stack, ancestors, open>> /\ (pc' \in {"lines", "hash"} <=> pc \in {"lines", "hash"})
      BY <1>2 DEF RefuseOperand, Exit, walkVars
    <2> QED BY <2>1 DEF FramesInStep
  <1>3. CASE StartTrim
    <2>1. UNCHANGED <<stack, ancestors, open>> /\ (pc' \in {"lines", "hash"} <=> pc \in {"lines", "hash"})
      BY <1>3 DEF StartTrim, walkVars
    <2> QED BY <2>1 DEF FramesInStep
  <1>4. CASE Trim
    <2>1. UNCHANGED <<stack, ancestors, open>> /\ (pc' \in {"lines", "hash"} <=> pc \in {"lines", "hash"})
      BY <1>4 DEF Trim, walkVars
    <2> QED BY <2>1 DEF FramesInStep
  <1>5. CASE RootFails
    <2>1. UNCHANGED <<stack, ancestors, open>> /\ (pc' \in {"lines", "hash"} <=> pc \in {"lines", "hash"})
      BY <1>5 DEF RootFails, Exit, Trimmed, walkVars
    <2> QED BY <2>1 DEF FramesInStep
  <1>6. CASE StartWalk
    <2>1. UNCHANGED <<stack, ancestors, open>> /\ (pc' \in {"lines", "hash"} <=> pc \in {"lines", "hash"})
      BY <1>6 DEF StartWalk, Trimmed, walkVars
    <2> QED BY <2>1 DEF FramesInStep
  <1>7. CASE WalkFailed
    <2>1. UNCHANGED <<stack, ancestors, open>> /\ (pc' \in {"lines", "hash"} <=> pc \in {"lines", "hash"})
      BY <1>7 DEF WalkFailed, Exit, walkVars
    <2> QED BY <2>1 DEF FramesInStep
  <1>8. CASE Sort
    <2>1. UNCHANGED <<stack, ancestors, open>> /\ (pc' \in {"lines", "hash"} <=> pc \in {"lines", "hash"})
      BY <1>8 DEF Sort, walkVars
    <2> QED BY <2>1 DEF FramesInStep
  <1>9. CASE HashLeaves
    <2>1. UNCHANGED <<stack, ancestors, open>> /\ (pc' \in {"lines", "hash"} <=> pc \in {"lines", "hash"})
      BY <1>9 DEF HashLeaves, walkVars
    <2> QED BY <2>1 DEF FramesInStep
  <1>10. CASE PairLevel
    <2>1. UNCHANGED <<stack, ancestors, open>> /\ (pc' \in {"lines", "hash"} <=> pc \in {"lines", "hash"})
      BY <1>10 DEF PairLevel, walkVars
    <2> QED BY <2>1 DEF FramesInStep
  <1>11. CASE MerkleFails
    <2>1. UNCHANGED <<stack, ancestors, open>> /\ (pc' \in {"lines", "hash"} <=> pc \in {"lines", "hash"})
      BY <1>11 DEF MerkleFails, Exit, walkVars
    <2> QED BY <2>1 DEF FramesInStep
  <1>12. CASE PrintAll
    <2>1. UNCHANGED <<stack, ancestors, open>> /\ (pc' \in {"lines", "hash"} <=> pc \in {"lines", "hash"})
      BY <1>12 DEF PrintAll, Exit, walkVars
    <2> QED BY <2>1 DEF FramesInStep
  <1>13. CASE PrintFails
    <2>1. UNCHANGED <<stack, ancestors, open>> /\ (pc' \in {"lines", "hash"} <=> pc \in {"lines", "hash"})
      BY <1>13 DEF PrintFails, Exit, walkVars
    <2> QED BY <2>1 DEF FramesInStep
  <1>14. CASE EnterFails
    <2>1. UNCHANGED <<stack, ancestors, open>> /\ (pc' \in {"lines", "hash"} <=> pc \in {"lines", "hash"})
      BY <1>14 DEF EnterFails, walkVars
    <2> QED BY <2>1 DEF FramesInStep
  <1>15. CASE NoIgnore
    <2>1. UNCHANGED <<stack, ancestors, open>> /\ (pc' \in {"lines", "hash"} <=> pc \in {"lines", "hash"})
      BY <1>15 DEF NoIgnore, walkVars
    <2> QED BY <2>1 DEF FramesInStep
  <1>16. CASE Interrupted
    <2>1. UNCHANGED <<stack, ancestors, open>> /\ (pc' \in {"lines", "hash"} <=> pc \in {"lines", "hash"})
      BY <1>16 DEF Interrupted, walkVars
    <2> QED BY <2>1 DEF FramesInStep
  <1>17. CASE AddEntry
    <2>1. UNCHANGED <<stack, ancestors, open>> /\ (pc' \in {"lines", "hash"} <=> pc \in {"lines", "hash"})
      BY <1>17 DEF AddEntry, walkVars
    <2> QED BY <2>1 DEF FramesInStep
  <1>18. CASE ReadLine
    <2>1. UNCHANGED <<stack, ancestors, open>> /\ (pc' \in {"lines", "hash"} <=> pc \in {"lines", "hash"})
      BY <1>18 DEF ReadLine, walkVars
    <2> QED BY <2>1 DEF FramesInStep
  <1>19. CASE OpenIgnore
    <2>1. /\ UNCHANGED <<stack, ancestors>> /\ open' = open + 1
          /\ pc \notin {"lines", "hash"} /\ pc' \in {"lines", "hash"}
      BY <1>19 DEF OpenIgnore
    <2>2. Len(stack) \in Nat
      BY DEF Typed
    <2> QED BY <2>1, <2>2 DEF FramesInStep
  <1>20. CASE OpenFile
    <2>1. /\ UNCHANGED <<stack, ancestors>> /\ open' = open + 1
          /\ pc \notin {"lines", "hash"} /\ pc' \in {"lines", "hash"}
      BY <1>20 DEF OpenFile
    <2>2. Len(stack) \in Nat
      BY DEF Typed
    <2> QED BY <2>1, <2>2 DEF FramesInStep
  <1>21. CASE LinesEnd
    <2>1. /\ UNCHANGED <<stack, ancestors>> /\ open' = open - 1
          /\ pc \in {"lines", "hash"} /\ pc' \notin {"lines", "hash"}
      BY <1>21 DEF LinesEnd
    <2>2. Len(stack) \in Nat
      BY DEF Typed
    <2> QED BY <2>1, <2>2 DEF FramesInStep
  <1>22. CASE EndOfFile
    <2>1. /\ UNCHANGED <<stack, ancestors>> /\ open' = open - 1
          /\ pc \in {"lines", "hash"} /\ pc' \notin {"lines", "hash"}
      BY <1>22 DEF EndOfFile
    <2>2. Len(stack) \in Nat
      BY DEF Typed
    <2> QED BY <2>1, <2>2 DEF FramesInStep
  <1>23. CASE Enter
    <2>1. /\ stack \in Seq(Frame) /\ ancestors \in Seq(Inodes) /\ Len(ancestors) = Len(stack)
          /\ Len(stack) \in Nat /\ cand.ino \in Inodes
      BY DEF Typed, FramesInStep, Candidate
    <2>2. Len(stack) < MaxDepth /\ \A i \in 1 .. Len(ancestors) : ancestors[i] # cand.ino
      BY <1>23, <2>1, BoundsAssumption DEF Enter, TooDeep, Cyclic
    <2>3. /\ Len(stack') = Len(stack) + 1 /\ stack'[Len(stack) + 1].ino = cand.ino
          /\ \A i \in 1 .. Len(stack) : stack'[i] = stack[i]
      BY <1>23, <2>1 DEF Enter
    <2>4. /\ Len(ancestors') = Len(stack) + 1 /\ ancestors'[Len(stack) + 1] = cand.ino
          /\ \A i \in 1 .. Len(stack) : ancestors'[i] = ancestors[i]
      BY <1>23, <2>1 DEF Enter
    <2>5. open' = open + 1 /\ pc' = "ignore" /\ pc = "enter"
      BY <1>23 DEF Enter
    <2>6. \A i \in 1 .. Len(stack') : stack'[i].ino = ancestors'[i]
      BY <2>1, <2>3, <2>4 DEF FramesInStep
    <2>7. ASSUME NEW i \in 1 .. Len(stack'), NEW j \in 1 .. Len(stack'), stack'[i].ino = stack'[j].ino
          PROVE  i = j
      <3>1. CASE i \in 1 .. Len(stack) /\ j \in 1 .. Len(stack)
        BY <2>3, <2>7, <3>1 DEF FramesInStep
      <3>2. CASE i \in 1 .. Len(stack) /\ j = Len(stack) + 1
        BY <2>1, <2>2, <2>3, <2>7, <3>2 DEF FramesInStep
      <3>3. CASE i = Len(stack) + 1 /\ j \in 1 .. Len(stack)
        BY <2>1, <2>2, <2>3, <2>7, <3>3 DEF FramesInStep
      <3> QED BY <3>1, <3>2, <3>3, <2>1, <2>3
    <2> QED BY <2>1, <2>2, <2>3, <2>4, <2>5, <2>6, <2>7, BoundsAssumption DEF FramesInStep
  <1>24. CASE IgnoreFails
    <2>1. tree' = tree /\ stack # << >>
      BY <1>24 DEF IgnoreFails, Control, Inside, mainVars
    <2>2. pc \notin {"lines", "hash"}
      BY <1>24 DEF IgnoreFails
    <2>3. LeaveFrame(1)
      BY <1>24 DEF IgnoreFails, AbandonIgnore
    <2> QED BY <2>1, <2>2, <2>3, FramesLeave
  <1>25. CASE LineFails
    <2>1. tree' = tree /\ stack # << >>
      BY <1>25 DEF LineFails, Control, Inside, mainVars
    <2>2. pc \in {"lines", "hash"}
      BY <1>25 DEF LineFails
    <2>3. LeaveFrame(2)
      BY <1>25 DEF LineFails, AbandonIgnore
    <2> QED BY <2>1, <2>2, <2>3, FramesLeave
  <1>26. CASE NamesEnd
    <2>1. tree' = tree /\ stack # << >>
      BY <1>26 DEF NamesEnd, Control, Inside, mainVars
    <2>2. pc \notin {"lines", "hash"}
      BY <1>26 DEF NamesEnd
    <2>3. LeaveFrame(1)
      BY <1>26 DEF NamesEnd, Leave
    <2> QED BY <2>1, <2>2, <2>3, FramesLeave
  <1>27. CASE FileFails
    <2>1. tree' = tree /\ stack # << >>
      BY <1>27 DEF FileFails, Control, Inside, mainVars
    <2>2. pc = "hash" <=> pc \in {"lines", "hash"}
      BY <1>27 DEF FileFails
    <2>3. LeaveFrame((IF pc = "hash" THEN 2 ELSE 1))
      BY <1>27 DEF FileFails
    <2> QED BY <2>1, <2>2, <2>3, FramesLeave
  <1>28. CASE Return
    <2>1. CASE ret = 0 /\ pc' = "read" /\ stale' = FALSE /\ UNCHANGED <<walkVars, ret>>
      BY <1>28, <2>1 DEF Return, FramesInStep, walkVars
    <2>2. CASE ret # 0 /\ Leave(ret) /\ UNCHANGED stale
      <3>1. tree' = tree /\ stack # << >>
        BY <1>28 DEF Return, mainVars
      <3>2. pc \notin {"lines", "hash"}
        BY <1>28 DEF Return
      <3>3. LeaveFrame(1)
        BY <1>28, <2>2 DEF Leave
      <3> QED BY <3>1, <3>2, <3>3, FramesLeave
    <2> QED BY <1>28, <2>1, <2>2 DEF Return
  <1>29. ASSUME pc = "read", NEW n \in Top.left, SkipEntry(n) PROVE FramesInStep'
    <2>1. stack # << >> /\ Took(n) /\ UNCHANGED <<ancestors, open>>
      BY <1>29 DEF SkipEntry, Control, Inside
    <2>2. pc' \notin {"lines", "hash"} /\ pc \notin {"lines", "hash"}
      BY <1>29, EntryKinds DEF SkipEntry
    <2>3. Len(stack') = Len(stack) /\ \A i \in 1 .. Len(stack) : stack'[i].ino = stack[i].ino
      BY <2>1, FrameTook
    <2> QED BY <2>1, <2>2, <2>3 DEF FramesInStep
  <1>30. ASSUME pc = "read", NEW n \in Top.left, TakeEntry(n) PROVE FramesInStep'
    <2>1. stack # << >> /\ Took(n) /\ UNCHANGED <<ancestors, open>>
      BY <1>30 DEF TakeEntry, Control, Inside
    <2>2. pc' \notin {"lines", "hash"} /\ pc \notin {"lines", "hash"}
      BY <1>30, EntryKinds DEF TakeEntry
    <2>3. Len(stack') = Len(stack) /\ \A i \in 1 .. Len(stack) : stack'[i].ino = stack[i].ino
      BY <2>1, FrameTook
    <2> QED BY <2>1, <2>2, <2>3 DEF FramesInStep
  <1>31. ASSUME pc = "read", NEW n \in Top.left, EntryFails(n) PROVE FramesInStep'
    <2>1. tree' = tree /\ stack # << >>
      BY <1>31 DEF EntryFails, Control, Inside, mainVars
    <2>2. pc \notin {"lines", "hash"}
      BY <1>31
    <2>3. LeaveFrame(1)
      BY <1>31 DEF EntryFails, Leave
    <2> QED BY <2>1, <2>2, <2>3, FramesLeave
  <1>32. ASSUME NEW k \in ReadSizes, ReadBytes(k) PROVE FramesInStep'
    <2>1. UNCHANGED <<stack, ancestors, open>> /\ (pc' \in {"lines", "hash"} <=> pc \in {"lines", "hash"})
      BY <1>32 DEF ReadBytes, walkVars
    <2> QED BY <2>1 DEF FramesInStep
  <1>33. CASE UNCHANGED vars
    BY <1>33 DEF FramesInStep, vars, mainVars, walkVars
  <1> QED
    BY <1>1, <1>2, <1>3, <1>4, <1>5, <1>6, <1>7, <1>8, <1>9, <1>10, <1>11, <1>12, <1>13, <1>14, <1>15, <1>16, <1>17, <1>18, <1>19, <1>20, <1>21, <1>22, <1>23, <1>24, <1>25, <1>26, <1>27, <1>28, <1>29, <1>30, <1>31, <1>32, <1>33 DEF Next, NextEntry, Terminated

-----------------------------------------------------------------------------
(* The rules *)

\* Rules that stay belong to the same activations as long as the directories
\* of these stay.
LEMMA RulesStay ==
  ASSUME Typed, RulesInStep, UNCHANGED rules, ret' = 0 => ret = 0, Len(stack') \in Nat, Len(stack') >= Len(stack),
         \A i \in 1 .. Len(stack) : stack'[i].rel = stack[i].rel
  PROVE  RulesInStep'
  <1>1. Len(stack) \in Nat
    BY DEF Typed
  <1> SUFFICES ASSUME ret' = 0 PROVE RulesInStep'
    BY DEF RulesInStep
  <1>2. ASSUME NEW i \in 1 .. Len(rules)
        PROVE  /\ rules[i].depth \in 0 .. Len(stack') - 1
               /\ rules[i].dir = stack'[rules[i].depth + 1].rel
               /\ \A j \in 1 .. i : rules[j].depth <= rules[i].depth
    <2>1. /\ rules[i].depth \in 0 .. Len(stack) - 1
          /\ rules[i].dir = stack[rules[i].depth + 1].rel
          /\ \A j \in 1 .. i : rules[j].depth <= rules[i].depth
      BY DEF RulesInStep
    <2>2. rules[i].depth + 1 \in 1 .. Len(stack)
      BY <1>1, <2>1
    <2> QED BY <1>1, <2>1, <2>2
  <1> QED BY <1>2 DEF RulesInStep

\* The end of a directory: its rules go, and those of the others stay.
LEMMA RulesLeave ==
  ASSUME Typed, FramesInStep, RulesInStep, ret = 0, tree' = tree, stack # << >>,
         NEW streams, LeaveFrame(streams), PopRules(Depth)
  PROVE  RulesInStep'
  <1>1. /\ Len(stack') = Len(stack) - 1
        /\ \A i \in 1 .. Len(stack) - 1 : stack'[i] = stack[i]
    BY FrameLeft
  <1>2. Len(stack) \in Nat \ {0}
    BY TopIsFrame
  <1>3. PICK k \in 0 .. Len(rules) :
          /\ Len(rules') = k
          /\ \A i \in 1 .. k : rules'[i] = rules[i]
          /\ k > 0 => rules[k].depth # Depth
    BY PoppedRules
  <1>4. ASSUME NEW i \in 1 .. k
        PROVE  /\ rules'[i].depth \in 0 .. Len(stack') - 1
               /\ rules'[i].dir = stack'[rules'[i].depth + 1].rel
               /\ \A j \in 1 .. i : rules'[j].depth <= rules'[i].depth
    <2>1. Len(rules) \in Nat /\ k \in 1 .. Len(rules) /\ i \in 1 .. Len(rules) /\ i \in 1 .. k
      BY <1>3 DEF Typed
    <2>2. /\ rules[i].depth \in 0 .. Len(stack) - 1
          /\ rules[i].dir = stack[rules[i].depth + 1].rel
          /\ \A j \in 1 .. i : rules[j].depth <= rules[i].depth
      BY <2>1 DEF RulesInStep
    <2>3. rules[k].depth \in 0 .. Len(stack) - 1 /\ rules[i].depth <= rules[k].depth
      BY <2>1 DEF RulesInStep
    <2>4. rules[k].depth # Len(stack) - 1
      BY <1>3, <2>1 DEF Depth
    <2>5. rules[i].depth \in 0 .. Len(stack) - 2
      BY <1>2, <2>2, <2>3, <2>4, SMTT(30)
    <2>6. rules[i].depth + 1 \in 1 .. Len(stack) - 1
      BY <1>2, <2>5
    <2>7. rules'[i] = rules[i] /\ \A j \in 1 .. i : rules'[j] = rules[j]
      BY <1>3, <2>1
    <2>8. rules'[i].depth \in 0 .. Len(stack') - 1
      BY <1>1, <1>2, <2>5, <2>7
    <2>9. rules'[i].dir = stack'[rules'[i].depth + 1].rel
      BY <1>1, <2>2, <2>6, <2>7
    <2>10. \A j \in 1 .. i : rules'[j].depth <= rules'[i].depth
      BY <2>2, <2>7
    <2> QED BY <2>8, <2>9, <2>10
  <1> QED BY <1>3, <1>4 DEF RulesInStep

LEMMA RulesStep ==
  ASSUME Typed, Control, FramesInStep, RulesInStep, [Next]_vars
  PROVE  RulesInStep'
  <1>1. CASE Inform
    <2>1. UNCHANGED <<stack, rules>> /\ (ret' = 0 => ret = 0)
      BY <1>1 DEF Inform, Exit, walkVars
    <2> QED BY <2>1 DEF RulesInStep
  <1>2. CASE RefuseOperand
    <2>1. UNCHANGED <<stack, rules>> /\ (ret' = 0 => ret = 0)
      BY <1>2 DEF RefuseOperand, Exit, walkVars
    <2> QED BY <2>1 DEF RulesInStep
  <1>3. CASE StartTrim
    <2>1. UNCHANGED <<stack, rules>> /\ (ret' = 0 => ret = 0)
      BY <1>3 DEF StartTrim, walkVars
    <2> QED BY <2>1 DEF RulesInStep
  <1>4. CASE Trim
    <2>1. UNCHANGED <<stack, rules>> /\ (ret' = 0 => ret = 0)
      BY <1>4 DEF Trim, walkVars
    <2> QED BY <2>1 DEF RulesInStep
  <1>5. CASE RootFails
    <2>1. UNCHANGED <<stack, rules>> /\ (ret' = 0 => ret = 0)
      BY <1>5 DEF RootFails, Exit, Trimmed, walkVars
    <2> QED BY <2>1 DEF RulesInStep
  <1>6. CASE StartWalk
    <2>1. UNCHANGED <<stack, rules>> /\ (ret' = 0 => ret = 0)
      BY <1>6 DEF StartWalk, Trimmed, walkVars
    <2> QED BY <2>1 DEF RulesInStep
  <1>7. CASE WalkFailed
    <2>1. UNCHANGED <<stack, rules>> /\ (ret' = 0 => ret = 0)
      BY <1>7 DEF WalkFailed, Exit, walkVars
    <2> QED BY <2>1 DEF RulesInStep
  <1>8. CASE Sort
    <2>1. UNCHANGED <<stack, rules>> /\ (ret' = 0 => ret = 0)
      BY <1>8 DEF Sort, walkVars
    <2> QED BY <2>1 DEF RulesInStep
  <1>9. CASE HashLeaves
    <2>1. UNCHANGED <<stack, rules>> /\ (ret' = 0 => ret = 0)
      BY <1>9 DEF HashLeaves, walkVars
    <2> QED BY <2>1 DEF RulesInStep
  <1>10. CASE PairLevel
    <2>1. UNCHANGED <<stack, rules>> /\ (ret' = 0 => ret = 0)
      BY <1>10 DEF PairLevel, walkVars
    <2> QED BY <2>1 DEF RulesInStep
  <1>11. CASE MerkleFails
    <2>1. UNCHANGED <<stack, rules>> /\ (ret' = 0 => ret = 0)
      BY <1>11 DEF MerkleFails, Exit, walkVars
    <2> QED BY <2>1 DEF RulesInStep
  <1>12. CASE PrintAll
    <2>1. UNCHANGED <<stack, rules>> /\ (ret' = 0 => ret = 0)
      BY <1>12 DEF PrintAll, Exit, walkVars
    <2> QED BY <2>1 DEF RulesInStep
  <1>13. CASE PrintFails
    <2>1. UNCHANGED <<stack, rules>> /\ (ret' = 0 => ret = 0)
      BY <1>13 DEF PrintFails, Exit, walkVars
    <2> QED BY <2>1 DEF RulesInStep
  <1>14. CASE EnterFails
    <2>1. UNCHANGED <<stack, rules>> /\ (ret' = 0 => ret = 0)
      BY <1>14 DEF EnterFails, walkVars
    <2> QED BY <2>1 DEF RulesInStep
  <1>15. CASE NoIgnore
    <2>1. UNCHANGED <<stack, rules>> /\ (ret' = 0 => ret = 0)
      BY <1>15 DEF NoIgnore, walkVars
    <2> QED BY <2>1 DEF RulesInStep
  <1>16. CASE Interrupted
    <2>1. UNCHANGED <<stack, rules>> /\ (ret' = 0 => ret = 0)
      BY <1>16 DEF Interrupted, walkVars
    <2> QED BY <2>1 DEF RulesInStep
  <1>17. CASE AddEntry
    <2>1. UNCHANGED <<stack, rules>> /\ (ret' = 0 => ret = 0)
      BY <1>17 DEF AddEntry, walkVars
    <2> QED BY <2>1 DEF RulesInStep
  <1>18. CASE OpenIgnore
    <2>1. UNCHANGED <<stack, rules>> /\ (ret' = 0 => ret = 0)
      BY <1>18 DEF OpenIgnore, walkVars
    <2> QED BY <2>1 DEF RulesInStep
  <1>19. CASE OpenFile
    <2>1. UNCHANGED <<stack, rules>> /\ (ret' = 0 => ret = 0)
      BY <1>19 DEF OpenFile, walkVars
    <2> QED BY <2>1 DEF RulesInStep
  <1>20. CASE LinesEnd
    <2>1. UNCHANGED <<stack, rules>> /\ (ret' = 0 => ret = 0)
      BY <1>20 DEF LinesEnd, walkVars
    <2> QED BY <2>1 DEF RulesInStep
  <1>21. CASE EndOfFile
    <2>1. UNCHANGED <<stack, rules>> /\ (ret' = 0 => ret = 0)
      BY <1>21 DEF EndOfFile, walkVars
    <2> QED BY <2>1 DEF RulesInStep
  <1>22. CASE Enter
    <2>1. UNCHANGED <<rules, ret>>
      BY <1>22 DEF Enter
    <2>2. stack \in Seq(Frame) /\ Len(stack) \in Nat
      BY DEF Typed
    <2>3. Len(stack') = Len(stack) + 1 /\ \A i \in 1 .. Len(stack) : stack'[i] = stack[i]
      BY <1>22, <2>2 DEF Enter
    <2> QED BY <2>1, <2>2, <2>3, RulesStay
  <1>23. CASE IgnoreFails
    <2>1. ret' # 0
      BY <1>23 DEF IgnoreFails, AbandonIgnore
    <2> QED BY <2>1 DEF RulesInStep
  <1>24. CASE LineFails
    <2>1. ret' # 0
      BY <1>24 DEF LineFails, AbandonIgnore
    <2> QED BY <2>1 DEF RulesInStep
  <1>25. CASE FileFails
    <2>1. ret' # 0
      BY <1>25 DEF FileFails
    <2> QED BY <2>1 DEF RulesInStep
  <1>26. CASE NamesEnd
    <2>1. tree' = tree /\ stack # << >> /\ ret = 0
      BY <1>26 DEF NamesEnd, Control, Inside, mainVars
    <2>2. LeaveFrame(1) /\ PopRules(Depth)
      BY <1>26 DEF NamesEnd, Leave
    <2> QED BY <2>1, <2>2, RulesLeave
  <1>27. CASE Return
    <2>1. CASE ret = 0 /\ pc' = "read" /\ stale' = FALSE /\ UNCHANGED <<walkVars, ret>>
      BY <1>27, <2>1 DEF Return, RulesInStep, walkVars
    <2>2. CASE ret # 0 /\ Leave(ret) /\ UNCHANGED stale
      BY <2>2 DEF RulesInStep, Leave
    <2> QED BY <1>27, <2>1, <2>2 DEF Return
  <1>28. CASE ReadLine
    <2>1. UNCHANGED <<stack, ret>> /\ pc = "lines"
      BY <1>28 DEF ReadLine
    <2>2. stack # << >> /\ ret = 0
      BY <2>1 DEF Control, Inside
    <2>3. Len(stack) \in Nat \ {0} /\ Top = stack[Len(stack)]
      BY <2>2, TopIsFrame
    <2> DEFINE r == RuleOf(GitignoreLines(tree, Top.ino)[line], Top.rel, Depth)
    <2>4. rules' = rules \/ rules' = Append(rules, r)
      BY <1>28 DEF ReadLine
    <2>5. CASE rules' = rules
      BY <2>1, <2>5 DEF RulesInStep
    <2>6. CASE rules' = Append(rules, r)
      <3>1. r.depth = Len(stack) - 1 /\ r.dir = stack[Len(stack)].rel
        BY <2>3 DEF RuleOf, Depth
      <3> HIDE DEF r
      <3>2. rules \in Seq(Rule) /\ Len(rules) \in Nat
        BY DEF Typed
      <3>3. /\ Len(rules') = Len(rules) + 1 /\ rules'[Len(rules) + 1] = r
            /\ \A i \in 1 .. Len(rules) : rules'[i] = rules[i]
        BY <2>6, <3>2
      <3>4. ASSUME NEW i \in 1 .. Len(rules')
            PROVE  /\ rules'[i].depth \in 0 .. Len(stack) - 1
                   /\ rules'[i].dir = stack[rules'[i].depth + 1].rel
                   /\ \A j \in 1 .. i : rules'[j].depth <= rules'[i].depth
        <4>1. \A j \in 1 .. Len(rules) :
                /\ rules[j].depth \in 0 .. Len(stack) - 1
                /\ rules[j].dir = stack[rules[j].depth + 1].rel
                /\ \A m \in 1 .. j : rules[m].depth <= rules[j].depth
          BY <2>2 DEF RulesInStep
        <4>2. CASE i \in 1 .. Len(rules)
          <5>1. rules'[i] = rules[i] /\ \A j \in 1 .. i : rules'[j] = rules[j]
            BY <3>2, <3>3, <4>2
          <5> QED BY <4>1, <4>2, <5>1
        <4>3. CASE i = Len(rules) + 1
          <5>1. rules'[i].depth = Len(stack) - 1 /\ rules'[i].dir = stack[Len(stack)].rel
            BY <3>1, <3>3, <4>3
          <5>2. rules'[i].depth \in 0 .. Len(stack) - 1 /\ rules'[i].depth + 1 = Len(stack)
            BY <2>3, <5>1
          <5>3. ASSUME NEW j \in 1 .. i PROVE rules'[j].depth <= rules'[i].depth
            <6>1. CASE j = i
              BY <5>2, <2>3, <6>1
            <6>2. CASE j \in 1 .. Len(rules)
              <7>1. rules'[j] = rules[j] /\ rules[j].depth \in 0 .. Len(stack) - 1
                BY <3>3, <4>1, <6>2
              <7> QED BY <2>3, <5>1, <7>1
            <6> QED BY <6>1, <6>2, <4>3, <3>2
          <5> QED BY <5>1, <5>2, <5>3
        <4> QED BY <4>2, <4>3, <3>2, <3>3
      <3> QED BY <2>1, <3>4 DEF RulesInStep
    <2> QED BY <2>4, <2>5, <2>6
  <1>29. ASSUME pc = "read", NEW n \in Top.left, SkipEntry(n) PROVE RulesInStep'
    <2>1. stack # << >> /\ Took(n) /\ UNCHANGED <<rules, ret>>
      BY <1>29 DEF SkipEntry, Control, Inside
    <2>2. Len(stack') = Len(stack) /\ \A i \in 1 .. Len(stack) : stack'[i].rel = stack[i].rel
      BY <2>1, FrameTook
    <2>3. Len(stack) \in Nat
      BY DEF Typed
    <2> QED BY <2>1, <2>2, <2>3, RulesStay
  <1>30. ASSUME pc = "read", NEW n \in Top.left, TakeEntry(n) PROVE RulesInStep'
    <2>1. stack # << >> /\ Took(n) /\ UNCHANGED <<rules, ret>>
      BY <1>30 DEF TakeEntry, Control, Inside
    <2>2. Len(stack') = Len(stack) /\ \A i \in 1 .. Len(stack) : stack'[i].rel = stack[i].rel
      BY <2>1, FrameTook
    <2>3. Len(stack) \in Nat
      BY DEF Typed
    <2> QED BY <2>1, <2>2, <2>3, RulesStay
  <1>31. ASSUME pc = "read", NEW n \in Top.left, EntryFails(n) PROVE RulesInStep'
    <2>1. ret' # 0
      BY <1>31 DEF EntryFails, Leave
    <2> QED BY <2>1 DEF RulesInStep
  <1>32. ASSUME NEW k \in ReadSizes, ReadBytes(k) PROVE RulesInStep'
    BY <1>32 DEF ReadBytes, RulesInStep, walkVars
  <1>33. CASE UNCHANGED vars
    BY <1>33 DEF RulesInStep, vars, walkVars
  <1> QED
    BY <1>1, <1>2, <1>3, <1>4, <1>5, <1>6, <1>7, <1>8, <1>9, <1>10, <1>11, <1>12, <1>13, <1>14, <1>15, <1>16, <1>17, <1>18, <1>19, <1>20, <1>21, <1>22, <1>23, <1>24, <1>25, <1>26, <1>27, <1>28, <1>29, <1>30, <1>31, <1>32, <1>33 DEF Next, NextEntry, Terminated

-----------------------------------------------------------------------------
(* The digest *)

LEMMA SameReceived == ASSUME UNCHANGED shaVars PROVE Received' <=> Received
  BY DEF Received, shaVars

LEMMA HashedStep ==
  ASSUME Typed, Control, FramesInStep, Hashed, [Next]_vars
  PROVE  Hashed'
  <1>1. CASE Inform
    <2>1. UNCHANGED shaVars /\ pc # "add" /\ pc' # "add"
      BY <1>1 DEF Inform, Exit
    <2> QED BY <2>1, SameReceived DEF Hashed
  <1>2. CASE RefuseOperand
    <2>1. UNCHANGED shaVars /\ pc # "add" /\ pc' # "add"
      BY <1>2 DEF RefuseOperand, Exit
    <2> QED BY <2>1, SameReceived DEF Hashed
  <1>3. CASE StartTrim
    <2>1. UNCHANGED shaVars /\ pc # "add" /\ pc' # "add"
      BY <1>3 DEF StartTrim
    <2> QED BY <2>1, SameReceived DEF Hashed
  <1>4. CASE Trim
    <2>1. UNCHANGED shaVars /\ pc # "add" /\ pc' # "add"
      BY <1>4 DEF Trim
    <2> QED BY <2>1, SameReceived DEF Hashed
  <1>5. CASE RootFails
    <2>1. UNCHANGED shaVars /\ pc # "add" /\ pc' # "add"
      BY <1>5 DEF RootFails, Exit, Trimmed
    <2> QED BY <2>1, SameReceived DEF Hashed
  <1>6. CASE StartWalk
    <2>1. UNCHANGED shaVars /\ pc # "add" /\ pc' # "add"
      BY <1>6 DEF StartWalk, Trimmed
    <2> QED BY <2>1, SameReceived DEF Hashed
  <1>7. CASE WalkFailed
    <2>1. UNCHANGED shaVars /\ pc # "add" /\ pc' # "add"
      BY <1>7 DEF WalkFailed, Exit
    <2> QED BY <2>1, SameReceived DEF Hashed
  <1>8. CASE Sort
    <2>1. UNCHANGED shaVars /\ pc # "add" /\ pc' # "add"
      BY <1>8 DEF Sort
    <2> QED BY <2>1, SameReceived DEF Hashed
  <1>9. CASE HashLeaves
    <2>1. UNCHANGED shaVars /\ pc # "add" /\ pc' # "add"
      BY <1>9 DEF HashLeaves
    <2> QED BY <2>1, SameReceived DEF Hashed
  <1>10. CASE PairLevel
    <2>1. UNCHANGED shaVars /\ pc # "add" /\ pc' # "add"
      BY <1>10 DEF PairLevel
    <2> QED BY <2>1, SameReceived DEF Hashed
  <1>11. CASE MerkleFails
    <2>1. UNCHANGED shaVars /\ pc # "add" /\ pc' # "add"
      BY <1>11 DEF MerkleFails, Exit
    <2> QED BY <2>1, SameReceived DEF Hashed
  <1>12. CASE PrintAll
    <2>1. UNCHANGED shaVars /\ pc # "add" /\ pc' # "add"
      BY <1>12 DEF PrintAll, Exit
    <2> QED BY <2>1, SameReceived DEF Hashed
  <1>13. CASE PrintFails
    <2>1. UNCHANGED shaVars /\ pc # "add" /\ pc' # "add"
      BY <1>13 DEF PrintFails, Exit
    <2> QED BY <2>1, SameReceived DEF Hashed
  <1>14. CASE EnterFails
    <2>1. UNCHANGED shaVars /\ pc # "add" /\ pc' # "add"
      BY <1>14 DEF EnterFails
    <2> QED BY <2>1, SameReceived DEF Hashed
  <1>15. CASE NoIgnore
    <2>1. UNCHANGED shaVars /\ pc # "add" /\ pc' # "add"
      BY <1>15 DEF NoIgnore
    <2> QED BY <2>1, SameReceived DEF Hashed
  <1>16. CASE OpenIgnore
    <2>1. UNCHANGED shaVars /\ pc # "add" /\ pc' # "add"
      BY <1>16 DEF OpenIgnore
    <2> QED BY <2>1, SameReceived DEF Hashed
  <1>17. CASE LinesEnd
    <2>1. UNCHANGED shaVars /\ pc # "add" /\ pc' # "add"
      BY <1>17 DEF LinesEnd
    <2> QED BY <2>1, SameReceived DEF Hashed
  <1>18. CASE Enter
    <2>1. UNCHANGED shaVars /\ pc # "add" /\ pc' # "add"
      BY <1>18 DEF Enter
    <2> QED BY <2>1, SameReceived DEF Hashed
  <1>19. CASE Return
    <2>1. UNCHANGED shaVars /\ pc # "add" /\ pc' # "add"
      BY <1>19 DEF Return, Leave, LeaveFrame
    <2> QED BY <2>1, SameReceived DEF Hashed
  <1>20. CASE IgnoreFails
    <2>1. UNCHANGED shaVars /\ pc # "add" /\ pc' # "add"
      BY <1>20 DEF IgnoreFails, AbandonIgnore, LeaveFrame
    <2> QED BY <2>1, SameReceived DEF Hashed
  <1>21. CASE LineFails
    <2>1. UNCHANGED shaVars /\ pc # "add" /\ pc' # "add"
      BY <1>21 DEF LineFails, AbandonIgnore, LeaveFrame
    <2> QED BY <2>1, SameReceived DEF Hashed
  <1>22. CASE NamesEnd
    <2>1. UNCHANGED shaVars /\ pc # "add" /\ pc' # "add"
      BY <1>22 DEF NamesEnd, Leave, LeaveFrame
    <2> QED BY <2>1, SameReceived DEF Hashed
  <1>23. CASE ReadLine
    <2>1. UNCHANGED shaVars /\ pc # "add" /\ pc' # "add"
      BY <1>23 DEF ReadLine
    <2> QED BY <2>1, SameReceived DEF Hashed
  <1>24. CASE Interrupted
    <2>1. UNCHANGED shaVars /\ pc # "add" /\ pc' # "add"
      BY <1>24 DEF Interrupted
    <2> QED BY <2>1, SameReceived DEF Hashed
  <1>25. CASE OpenFile
    <2>1. ShaReset /\ pc' # "add"
      BY <1>25 DEF OpenFile
    <2> QED BY <2>1, InitReceives DEF Hashed
  <1>26. CASE FileFails
    <2>1. ShaReset /\ pc' # "add"
      BY <1>26 DEF FileFails, LeaveFrame
    <2> QED BY <2>1, InitReceives DEF Hashed
  <1>27. CASE AddEntry
    <2>1. ShaReset /\ pc' # "add"
      BY <1>27 DEF AddEntry
    <2> QED BY <2>1, InitReceives DEF Hashed
  <1>28. CASE EndOfFile
    <2>1. /\ Received /\ Final /\ pc' = "add" /\ count = fs.size[cand.ino]
          /\ UNCHANGED <<tree, cand, count>>
      BY <1>28 DEF EndOfFile, Hashed, Final, mainVars
    <2>2. blocks' = Padded(count)
      BY <2>1, FinalPads
    <2>3. DOMAIN buffer' = Slots
      BY <2>1 DEF Final, WithLength
    <2>4. count \in Nat /\ fs' = fs
      BY <2>1, SameTree DEF Received
    <2> QED BY <2>1, <2>2, <2>3, <2>4 DEF Hashed
  <1>29. ASSUME pc = "read", NEW n \in Top.left, SkipEntry(n) PROVE Hashed'
    <2>1. UNCHANGED shaVars /\ pc # "add" /\ pc' # "add"
      BY <1>29 DEF SkipEntry
    <2> QED BY <2>1, SameReceived DEF Hashed
  <1>30. ASSUME pc = "read", NEW n \in Top.left, TakeEntry(n) PROVE Hashed'
    <2>1. UNCHANGED shaVars /\ pc # "add" /\ pc' # "add"
      BY <1>30, EntryKinds DEF TakeEntry
    <2> QED BY <2>1, SameReceived DEF Hashed
  <1>31. ASSUME pc = "read", NEW n \in Top.left, EntryFails(n) PROVE Hashed'
    <2>1. UNCHANGED shaVars /\ pc # "add" /\ pc' # "add"
      BY <1>31 DEF EntryFails, Leave, LeaveFrame
    <2> QED BY <2>1, SameReceived DEF Hashed
  <1>32. ASSUME NEW k \in ReadSizes, ReadBytes(k) PROVE Hashed'
    <2>1. Received /\ Update(k) /\ k \in Nat /\ pc' # "add"
      BY <1>32, BoundsAssumption DEF ReadBytes, Hashed
    <2> QED BY <2>1, UpdateReceives DEF Hashed
  <1>33. CASE UNCHANGED vars
    <2>1. UNCHANGED <<shaVars, pc, fs, cand>>
      BY <1>33, SameTree DEF vars, mainVars
    <2> QED BY <2>1, SameReceived DEF Hashed, shaVars
  <1> QED
    BY <1>1, <1>2, <1>3, <1>4, <1>5, <1>6, <1>7, <1>8, <1>9, <1>10, <1>11, <1>12, <1>13, <1>14, <1>15, <1>16, <1>17, <1>18, <1>19, <1>20, <1>21, <1>22, <1>23, <1>24, <1>25, <1>26, <1>27, <1>28, <1>29, <1>30, <1>31, <1>32, <1>33 DEF Next, NextEntry, Terminated

-----------------------------------------------------------------------------
(* Numbers *)

LEMMA NaturalOrder ==
  \E R : /\ IsWellFoundedOn(R, Nat)
         /\ \A m, n \in Nat : n < m => <<n, m>> \in R
  <1>1. \A m, n \in Nat : n < m => <<n, m>> \in OpToRel(<, Nat)
    BY DEF OpToRel
  <1> QED BY <1>1, NatLessThanWellFounded, Zenon

\* A set of naturals that is not empty has a least member.
LEMMA LeastNatural ==
  ASSUME NEW S, S \subseteq Nat, S # {}
  PROVE  \E m \in S : \A n \in S : m <= n
  <1>1. PICK R : /\ IsWellFoundedOn(R, Nat)
                 /\ \A m, n \in Nat : n < m => <<n, m>> \in R
    BY NaturalOrder
  <1>2. PICK m \in S : \A n \in S : ~(<<n, m>> \in R)
    BY <1>1, WFMin
  <1>3. ASSUME NEW n \in S PROVE m <= n
    <2>1. m \in Nat /\ n \in Nat
      OBVIOUS
    <2>2. ~(n < m)
      BY <1>1, <1>2, <2>1
    <2> QED BY <2>1, <2>2
  <1> QED BY <1>3

\* A set with each number all of whose predecessors it has.
LEMMA EveryNaturalAbove ==
  ASSUME NEW S, \A n \in Nat : (\A m \in Nat : m < n => m \in S) => n \in S
  PROVE  Nat \subseteq S
  <1>1. SUFFICES ASSUME Nat \ S # {} PROVE FALSE
    OBVIOUS
  <1>2. Nat \ S \subseteq Nat
    OBVIOUS
  <1>3. PICK m \in Nat \ S : \A n \in Nat \ S : m <= n
    BY <1>1, <1>2, LeastNatural
  <1>4. \A n \in Nat : n < m => n \in S
    BY <1>3
  <1> QED BY <1>3, <1>4

\* A bounded set of numbers that is not empty has a greatest member.
LEMMA GreatestBelow ==
  ASSUME NEW n \in Nat, NEW S, S \subseteq 1 .. n, S # {}
  PROVE  Max(S) \in S /\ \A k \in S : k <= Max(S)
  <1> DEFINE T == {n - k : k \in S}
  <1>0. \A k \in S : k \in Int /\ n - k \in Nat
    OBVIOUS
  <1>1. T \subseteq Nat /\ T # {}
    BY <1>0
  <1>2. PICK t \in T : \A u \in T : t <= u
    BY <1>1, LeastNatural
  <1>3. PICK m \in S : t = n - m
    BY <1>2
  <1>4. ASSUME NEW k \in S PROVE m >= k
    <2>1. t <= n - k
      BY <1>2
    <2>2. m \in Int /\ k \in Int
      BY <1>0
    <2> QED BY <1>3, <2>1, <2>2
  <1>5. /\ Max(S) \in S
        /\ \A k \in S : Max(S) >= k
    BY <1>4 DEF Max
  <1> QED BY <1>5

-----------------------------------------------------------------------------
(* Powers of two *)

LEMMA DoublingKeepsPowers ==
  ASSUME NEW k \in Nat \ {0}
  PROVE  IsPower(2 * k) <=> IsPower(k)
  <1>1. ASSUME IsPower(2 * k), NEW d \in 1 .. k, NEW q \in 1 .. k, d * q = k, d # 1
        PROVE  d % 2 = 0
    <2>1. d \in 1 .. 2 * k /\ 2 * q \in 1 .. 2 * k
      OBVIOUS
    <2>2. d * (2 * q) = 2 * k
      <3>1. d * (2 * q) = 2 * (d * q)
        OBVIOUS
      <3> QED BY <3>1, <1>1
    <2> QED BY <1>1, <2>1, <2>2 DEF IsPower
  <1>2. ASSUME IsPower(k), NEW d \in 1 .. 2 * k, NEW q \in 1 .. 2 * k, d * q = 2 * k, d # 1,
               d % 2 # 0
        PROVE  FALSE
    <2> DEFINE e == d \div 2
    <2>1. e \in Nat /\ d = 2 * e + 1
      BY <1>2
    <2>2. d * q = 2 * (e * q) + q
      <3>1. (2 * e + 1) * q = 2 * (e * q) + q
        BY <2>1
      <3> QED BY <2>1, <3>1
    <2> DEFINE p == k - e * q
    <2>3. e * q \in Nat
      BY <2>1
    <2>4. q = 2 * p /\ p \in Int
      BY <1>2, <2>2, <2>3
    <2>5. p \in 1 .. k
      BY <2>4
    <2> HIDE DEF p, e
    <2>6. d * p = k
      <3>1. d * (2 * p) = 2 * (d * p) /\ d * p \in Nat
        BY <2>5
      <3> QED BY <3>1, <1>2, <2>4
    <2>7. d \in 1 .. k
      BY <2>5, <2>6
    <2> QED BY <1>2, <2>5, <2>6, <2>7 DEF IsPower
  <1> QED BY <1>1, <1>2 DEF IsPower

LEMMA OddIsNoPower == ASSUME NEW k \in Nat, k > 1, IsPower(k) PROVE k % 2 = 0
  <1>1. k * 1 = k /\ k \in 1 .. k /\ 1 \in 1 .. k /\ k # 1
    OBVIOUS
  <1> QED BY <1>1 DEF IsPower

LEMMA OneIsAPower == IsPower(1)
  BY DEF IsPower

LEMMA SplitIsInside ==
  ASSUME NEW n \in Nat, n > 1
  PROVE  /\ SplitAt(n) \in 1 .. n - 1 /\ IsPower(SplitAt(n))
         /\ \A k \in 1 .. n - 1 : IsPower(k) => k <= SplitAt(n)
  <1> DEFINE S == {k \in 1 .. n - 1 : IsPower(k)}
  <1>1. 1 \in S /\ S \subseteq 1 .. n - 1 /\ n - 1 \in Nat
    BY OneIsAPower
  <1>2. Max(S) \in S /\ \A k \in S : k <= Max(S)
    BY <1>1, GreatestBelow
  <1> QED BY <1>2 DEF SplitAt

\* With the leaves paired, the split is at half of the place.
LEMMA SplitOfHalf ==
  ASSUME NEW n \in Nat, n > 2
  PROVE  /\ SplitAt(n) % 2 = 0
         /\ SplitAt((n + 1) \div 2) = SplitAt(n) \div 2
  <1> DEFINE k == SplitAt(n)
             m == (n + 1) \div 2
             j == SplitAt(m)
  <1>1. k \in 1 .. n - 1 /\ IsPower(k) /\ \A l \in 1 .. n - 1 : IsPower(l) => l <= k
    BY SplitIsInside
  <1>2. m \in Nat /\ m > 1 /\ 2 * m <= n + 1 /\ n <= 2 * m
    OBVIOUS
  <1>3. j \in 1 .. m - 1 /\ IsPower(j) /\ \A l \in 1 .. m - 1 : IsPower(l) => l <= j
    BY <1>2, SplitIsInside
  <1> HIDE DEF k, m, j
  <1>4. 2 <= k
    <2>1. IsPower(2 * 1)
      BY OneIsAPower, DoublingKeepsPowers
    <2>2. 2 * 1 = 2 /\ 2 \in 1 .. n - 1
      OBVIOUS
    <2> QED BY <1>1, <2>1, <2>2
  <1>5. k % 2 = 0
    BY <1>1, <1>4, OddIsNoPower
  <1>6. PICK h \in Nat : k = 2 * h
    <2>1. k = 2 * (k \div 2) /\ k \div 2 \in Nat
      BY <1>1, <1>5
    <2> QED BY <2>1
  <1>7. h \in 1 .. m - 1 /\ IsPower(h)
    <2>1. h \in Nat \ {0} /\ h \in 1 .. m - 1
      BY <1>1, <1>2, <1>4, <1>6
    <2> QED BY <1>1, <1>6, <2>1, DoublingKeepsPowers
  <1>8. 2 * j \in 1 .. n - 1 /\ IsPower(2 * j)
    <2>1. j \in Nat \ {0} /\ 2 * j \in 1 .. n - 1
      BY <1>2, <1>3
    <2> QED BY <1>3, <2>1, DoublingKeepsPowers
  <1>9. h <= j /\ 2 * j <= k
    BY <1>1, <1>3, <1>7, <1>8
  <1>10. j = h
    BY <1>3, <1>6, <1>9
  <1>11. k \div 2 = h
    BY <1>6
  <1>12. SplitAt(n) = k /\ SplitAt((n + 1) \div 2) = j
    BY DEF k, j, m
  <1> QED BY <1>5, <1>10, <1>11, <1>12

LEMMA HalfLess == ASSUME NEW x \in Int, NEW h \in Int PROVE (x - 2 * h) \div 2 = (x \div 2) - h
  OBVIOUS

-----------------------------------------------------------------------------
(* The reference *)

\* One line of Balanced's table, given those above it.
Row(leaves, t, n) ==
  [i \in 1 .. Len(leaves) - n + 1 |->
     IF n = 1 THEN leaves[i]
     ELSE <<t[SplitAt(n)][i], t[n - SplitAt(n)][i + SplitAt(n)]>>]

IsBalancing(leaves, t, n) == t = [m \in 1 .. n |-> Row(leaves, t, m)]

LEMMA BalancingIsPossible ==
  ASSUME NEW leaves, NEW n \in Nat
  PROVE  \E t : IsBalancing(leaves, t, n)
  <1> DEFINE S == {m \in Nat : \E t : IsBalancing(leaves, t, m)}
  <1>1. ASSUME NEW m \in Nat, \A l \in Nat : l < m => l \in S PROVE m \in S
    <2>1. CASE m = 0
      <3>1. IsBalancing(leaves, << >>, 0)
        BY DEF IsBalancing
      <3> QED BY <2>1, <3>1
    <2>2. CASE m # 0
      <3>1. PICK t : IsBalancing(leaves, t, m - 1)
        BY <1>1, <2>2
      <3> DEFINE u == [l \in 1 .. m |-> IF l = m THEN Row(leaves, t, m) ELSE t[l]]
      <3>2. ASSUME NEW l \in 1 .. m PROVE Row(leaves, u, l) = Row(leaves, t, l)
        <4>1. CASE l = 1
          BY <4>1 DEF Row
        <4>2. CASE l # 1
          <5>1. SplitAt(l) \in 1 .. l - 1
            BY <4>2, SplitIsInside
          <5>2. SplitAt(l) \in 1 .. m - 1 /\ l - SplitAt(l) \in 1 .. m - 1
            BY <5>1
          <5>3. u[SplitAt(l)] = t[SplitAt(l)] /\ u[l - SplitAt(l)] = t[l - SplitAt(l)]
            BY <5>2
          <5> HIDE DEF u
          <5> QED BY <5>3 DEF Row
        <4> QED BY <4>1, <4>2
      <3>3. ASSUME NEW l \in 1 .. m PROVE u[l] = Row(leaves, u, l)
        <4>1. CASE l = m
          BY <3>2, <4>1
        <4>2. CASE l # m
          <5>1. l \in 1 .. m - 1
            BY <4>2
          <5>2. t[l] = Row(leaves, t, l)
            BY <3>1, <5>1 DEF IsBalancing
          <5> QED BY <3>2, <4>2, <5>2
        <4> QED BY <4>1, <4>2
      <3>4. IsBalancing(leaves, u, m)
        <4>1. u = [l \in 1 .. m |-> u[l]]
          OBVIOUS
        <4> HIDE DEF u
        <4> QED BY <3>3, <4>1 DEF IsBalancing
      <3> QED BY <3>4
    <2> QED BY <2>1, <2>2
  <1>2. Nat \subseteq S
    <2> HIDE DEF S
    <2> QED BY <1>1, EveryNaturalAbove
  <1> QED BY <1>2

LEMMA BalancedIsTheTree ==
  ASSUME NEW leaves, Len(leaves) \in Nat \ {0}, leaves # << >>
  PROVE  \E t : /\ \A n \in 1 .. Len(leaves) : t[n] = Row(leaves, t, n)
                /\ Balanced(leaves) = t[Len(leaves)][1]
  <1> DEFINE t == CHOOSE u : IsBalancing(leaves, u, Len(leaves))
  <1>1. Balanced(leaves) = t[Len(leaves)][1]
    BY DEF Balanced, IsBalancing, Row
  <1>2. IsBalancing(leaves, t, Len(leaves))
    BY BalancingIsPossible
  <1> HIDE DEF t
  <1>3. \A n \in 1 .. Len(leaves) : t[n] = Row(leaves, t, n)
    BY <1>2 DEF IsBalancing
  <1> QED BY <1>1, <1>3

IsLevel(s, n) == s = [i \in 1 .. n |-> s[i]] /\ Len(s) = n

\* One pass of the reduction keeps the tree.
LEMMA PairingKeepsTheTree ==
  ASSUME NEW s, NEW len \in Nat, len > 1, IsLevel(s, len)
  PROVE  IsLevel(Paired(s), (len + 1) \div 2) /\ Balanced(Paired(s)) = Balanced(s)
  <1>1. PICK half \in Nat : half = (len + 1) \div 2
    OBVIOUS
  <1>2. 2 * half <= len + 1 /\ len <= 2 * half /\ half >= 1
    BY <1>1
  <1>3. PICK p : p = Paired(s)
    OBVIOUS
  <1>4. p = [i \in 1 .. half |-> IF 2 * i <= len THEN <<s[2 * i - 1], s[2 * i]>> ELSE s[2 * i - 1]]
    BY <1>1, <1>3 DEF Paired, IsLevel
  <1>5. p = [i \in 1 .. half |-> p[i]] /\ Len(p) = half
    BY <1>4
  <1>6. ASSUME NEW i \in 1 .. half
        PROVE  p[i] = IF 2 * i <= len THEN <<s[2 * i - 1], s[2 * i]>> ELSE s[2 * i - 1]
    BY <1>4
  <1>14. Len(s) = len
    BY DEF IsLevel
  <1>7. s # << >> /\ p # << >> /\ Len(s) \in Nat \ {0} /\ Len(p) \in Nat \ {0}
    <2>1. Len(<< >>) = 0
      OBVIOUS
    <2> QED BY <1>2, <1>5, <1>14, <2>1
  <1>8. PICK t : (\A n \in 1 .. len : t[n] = Row(s, t, n)) /\ Balanced(s) = t[len][1]
    BY <1>7, <1>14, BalancedIsTheTree
  <1>9. PICK u : (\A n \in 1 .. half : u[n] = Row(p, u, n)) /\ Balanced(p) = u[half][1]
    BY <1>5, <1>7, BalancedIsTheTree
  <1>10. ASSUME NEW n \in 1 .. len, NEW i \in 1 .. len - n + 1
         PROVE  t[n][i] = IF n = 1 THEN s[i] ELSE <<t[SplitAt(n)][i], t[n - SplitAt(n)][i + SplitAt(n)]>>
    BY <1>8, <1>10, <1>14, ZenonT(60) DEF Row
  <1>11. ASSUME NEW n \in 1 .. half, NEW i \in 1 .. half - n + 1
         PROVE  u[n][i] = IF n = 1 THEN p[i] ELSE <<u[SplitAt(n)][i], u[n - SplitAt(n)][i + SplitAt(n)]>>
    <2>1. Len(p) = half
      BY <1>5
    <2> QED BY <1>9, <1>11, <2>1, ZenonT(60) DEF Row
  \* The spans of n leaves that begin at an odd place, and either end with
  \* the leaves or have even length, are the spans of the level above.
  <1> DEFINE Agree(n) ==
               \A i \in 1 .. half :
                 (2 * i - 1) + n - 1 = len \/ ((2 * i - 1) + n - 1 < len /\ n % 2 = 0)
                   => u[(n + 1) \div 2][i] = t[n][2 * i - 1]
             S == {n \in Nat : n \in 1 .. len => Agree(n)}
  <1>12. ASSUME NEW n \in Nat, \A m \in Nat : m < n => m \in S PROVE n \in S
    <2>1. SUFFICES ASSUME n \in 1 .. len, NEW i \in 1 .. half,
                          (2 * i - 1) + n - 1 = len \/ ((2 * i - 1) + n - 1 < len /\ n % 2 = 0)
                   PROVE  u[(n + 1) \div 2][i] = t[n][2 * i - 1]
      OBVIOUS
    <2>2. ASSUME NEW m \in 1 .. n - 1 PROVE Agree(m)
      <3>1. m \in Nat /\ m < n /\ m \in 1 .. len
        BY <2>1
      <3> HIDE DEF Agree
      <3> QED BY <1>12, <3>1
    <2> HIDE DEF S, Agree
    <2>3. PICK a \in 1 .. len : a = 2 * i - 1
      BY <2>1
    <2>4. a \in 1 .. len - n + 1 /\ a + n - 1 <= len /\ (a + n - 1 = len \/ n % 2 = 0)
      BY <2>1, <2>3
    <2>5. n # 1 => t[n][a] = <<t[SplitAt(n)][a], t[n - SplitAt(n)][a + SplitAt(n)]>>
      BY <1>10, <2>1, <2>4
    <2>6. \A b \in 1 .. len : t[1][b] = s[b]
      <3>1. 1 \in 1 .. len /\ len - 1 + 1 = len
        OBVIOUS
      <3> QED BY <1>10, <3>1
    <2>7. u[1][i] = p[i]
      <3>1. 1 \in 1 .. half /\ half - 1 + 1 = half
        BY <1>2
      <3> QED BY <1>11, <3>1
    <2>8. CASE n = 1
      <3>1. a = len
        BY <2>4, <2>8
      <3>2. ~(2 * i <= len)
        BY <2>3, <3>1
      <3>3. p[i] = s[a] /\ t[1][a] = s[a]
        BY <1>6, <2>3, <2>6, <3>2
      <3>4. (1 + 1) \div 2 = 1
        OBVIOUS
      <3> QED BY <2>3, <2>7, <2>8, <3>3, <3>4
    <2>9. CASE n = 2
      <3>1. SplitAt(2) = 1
        <4>1. SplitAt(2) \in 1 .. 2 - 1
          BY SplitIsInside
        <4> QED BY <4>1
      <3>2. t[2][a] = <<t[1][a], t[1][a + 1]>>
        <4>1. 2 - 1 = 1 /\ n # 1
          BY <2>9
        <4> QED BY <2>5, <2>9, <3>1, <4>1
      <3>3. a + 1 \in 1 .. len /\ 2 * i = a + 1
        BY <2>3, <2>4, <2>9
      <3>4. t[1][a] = s[a] /\ t[1][a + 1] = s[a + 1]
        BY <2>6, <3>3
      <3>5. p[i] = <<s[a], s[a + 1]>>
        <4>1. 2 * i <= len /\ 2 * i - 1 = a
          BY <2>3, <3>3
        <4>2. p[i] = <<s[2 * i - 1], s[2 * i]>>
          BY <1>6, <4>1
        <4> QED BY <3>3, <4>1, <4>2
      <3>6. (2 + 1) \div 2 = 1
        OBVIOUS
      <3> QED BY <2>3, <2>7, <2>9, <3>2, <3>4, <3>5, <3>6
    <2>10. CASE n > 2
      <3>1. PICK k \in 1 .. n - 1 : k = SplitAt(n)
        BY <2>10, SplitIsInside
      <3>2. PICK m \in Nat : m = (n + 1) \div 2
        OBVIOUS
      <3>20. PICK h \in Nat : k = 2 * h /\ SplitAt(m) = h
        <4>1. k % 2 = 0 /\ SplitAt(m) = k \div 2
          BY <2>10, <3>1, <3>2, SplitOfHalf
        <4>2. k \div 2 \in Nat /\ k = 2 * (k \div 2)
          BY <4>1
        <4> QED BY <4>1, <4>2
      <3>3. k = 2 * h
        BY <3>20
      <3>4. h >= 1 /\ m > 1 /\ (2 * m = n \/ (2 * m = n + 1 /\ n % 2 # 0))
        BY <2>10, <3>2, <3>3
      <3>5. (k + 1) \div 2 = h /\ (n - k + 1) \div 2 = m - h
        <4>1. (2 * h + 1) \div 2 = h
          OBVIOUS
        <4>2. ((n + 1) - 2 * h) \div 2 = ((n + 1) \div 2) - h
          <5>1. n + 1 \in Int /\ h \in Int
            OBVIOUS
          <5> QED BY <5>1, HalfLess
        <4>3. n - k + 1 = (n + 1) - 2 * h
          BY <3>3
        <4> QED BY <3>2, <3>3, <4>1, <4>2, <4>3
      <3>6. k % 2 = 0 /\ (n % 2 = 0 => (n - k) % 2 = 0)
        BY <3>3
      <3>7. i + m <= half + 1 /\ i + h <= half
        BY <1>2, <2>3, <2>4, <3>3, <3>4
      <3>8. u[m][i] = <<u[h][i], u[m - h][i + h]>>
        <4>1. m \in 1 .. half /\ i \in 1 .. half - m + 1 /\ m # 1
          BY <3>4, <3>7
        <4> QED BY <1>11, <3>20, <4>1
      <3>9. t[n][a] = <<t[k][a], t[n - k][a + k]>>
        BY <2>5, <2>10, <3>1
      <3>10. u[h][i] = t[k][a]
        <4>1. Agree(k)
          BY <2>2
        <4>2. a + k - 1 < len
          BY <2>4
        <4> QED BY <2>3, <3>5, <3>6, <4>1, <4>2 DEF Agree
      <3>11. u[m - h][i + h] = t[n - k][a + k]
        <4>1. Agree(n - k)
          <5>1. n - k \in 1 .. n - 1
            OBVIOUS
          <5> QED BY <2>2, <5>1
        <4>2. PICK j \in 1 .. half : j = i + h
          BY <3>7
        <4>3. 2 * j - 1 = a + k /\ (2 * j - 1) + (n - k) - 1 = a + n - 1
          BY <2>3, <3>3, <4>2
        <4>4. \/ (2 * j - 1) + (n - k) - 1 = len
              \/ (2 * j - 1) + (n - k) - 1 < len /\ (n - k) % 2 = 0
          BY <2>4, <3>6, <4>3
        <4>5. u[(n - k + 1) \div 2][j] = t[n - k][2 * j - 1]
          BY <4>1, <4>4 DEF Agree
        <4> QED BY <3>5, <4>2, <4>3, <4>5
      <3> QED BY <2>3, <3>2, <3>8, <3>9, <3>10, <3>11
    <2> QED BY <2>1, <2>8, <2>9, <2>10
  <1>13. u[half][1] = t[len][1]
    <2>1. len \in S
      <3> HIDE DEF S
      <3> QED BY <1>12, EveryNaturalAbove
    <2>2. len \in 1 .. len /\ 1 \in 1 .. half /\ (2 * 1 - 1) + len - 1 = len /\ 2 * 1 - 1 = 1
      BY <1>2
    <2>3. Agree(len)
      <3> HIDE DEF Agree
      <3> QED BY <2>1, <2>2
    <2> QED BY <1>1, <2>2, <2>3
  <1> QED BY <1>1, <1>3, <1>5, <1>8, <1>9, <1>13 DEF IsLevel
-----------------------------------------------------------------------------
(* The theorems *)

LEMMA IInvStep == IInv /\ [Next]_vars => IInv'
  BY TypedStep, ControlStep, FramesStep, RulesStep, HashedStep DEF IInv

LEMMA IInvAlways == Spec => []IInv
  BY InitHolds, IInvStep, PTL DEF Spec

\* The variables keep their types; walk_dir() never enters more directories in
\* each other than ancestors[] has room for, and no path in hand is too long
\* for its buffer.
THEOREM TypesHold == Spec => []TypeOK
  <1>1. IInv => TypeOK
    <2> SUFFICES ASSUME IInv PROVE TypeOK
      OBVIOUS
    <2>1. pc \in {"args", "trim", "enter", "ignore", "lines", "read", "open", "hash", "add", "return",
                  "leaves", "merkle", "done"}
      BY DEF IInv, Typed, Inside, Outside
    <2>2. cand \in [ino : DOMAIN fs.kind, rel : Seq(Names), len : 0 .. PathMax - 1]
      BY DEF IInv, Typed, Candidate, Inodes
    <2>3. \A i \in DOMAIN stack : stack[i].ino \in DOMAIN fs.kind /\ stack[i].left \subseteq Names
      <3>1. stack \in Seq(Frame)
        BY DEF IInv, Typed
      <3>2. DOMAIN stack = 1 .. Len(stack)
        BY <3>1
      <3>3. \A i \in 1 .. Len(stack) : stack[i] \in Frame
        BY <3>1, ElementOf
      <3> QED BY <3>2, <3>3 DEF Frame, Inodes
    <2>4. Len(ancestors) <= MaxDepth
      BY DEF IInv, FramesInStep
    <2>5. open \in Nat
      <3>1. Len(stack) \in Nat
        BY DEF IInv, Typed
      <3> QED BY <3>1 DEF IInv, FramesInStep
    <2>6. line \in Nat /\ ret \in {0, 2, -1} /\ status \in {-1, 0, 2} /\ faults \in 0 .. MaxFaults
      BY DEF IInv, Typed
    <2>7. count \in Nat /\ DOMAIN buffer = Slots
      BY DEF IInv, Hashed, Received, BlockType
    <2>8. {stale, cut} \subseteq BOOLEAN
      BY DEF IInv, Typed
    <2> QED BY <2>1, <2>2, <2>3, <2>4, <2>5, <2>6, <2>7, <2>8 DEF TypeOK
  <1> QED BY <1>1, IInvAlways, PTL

\* On every path through walk_dir(), the failing ones included, the
\* activations, the ancestors, the open streams and, unless it is failing,
\* the rules stay in step; no directory is entered below itself.
THEOREM WalkStaysInStep == Spec => []StacksInStep
  <1>1. IInv => StacksInStep
    <2> SUFFICES ASSUME IInv PROVE StacksInStep
      OBVIOUS
    <2>1. stack \in Seq(Frame) /\ rules \in Seq(Rule)
      BY DEF IInv, Typed
    <2>2. /\ DOMAIN stack = 1 .. Len(stack) /\ DOMAIN rules = 1 .. Len(rules)
          /\ Len(stack) \in Nat /\ Len(rules) \in Nat
      BY <2>1
    <2>3. Len(ancestors) = Len(stack) /\ open = Len(stack) + (IF pc \in {"lines", "hash"} THEN 1 ELSE 0)
      BY DEF IInv, FramesInStep
    <2>4. \A i \in DOMAIN stack :
            /\ stack[i].ino = ancestors[i]
            /\ \A j \in DOMAIN stack : stack[i].ino = stack[j].ino => i = j
      BY <2>2 DEF IInv, FramesInStep
    <2>5. ret = 0 =>
            \A i \in DOMAIN rules :
              /\ rules[i].depth \in 0 .. Depth
              /\ rules[i].dir = stack[rules[i].depth + 1].rel
              /\ \A j \in 1 .. i : rules[j].depth <= rules[i].depth
      BY <2>2 DEF IInv, RulesInStep, Depth
    <2>6. status # -1 => open = 0
      <3>1. status # -1 => pc = "done" /\ stack = << >>
        BY DEF IInv, Control, Outside
      <3> QED BY <2>2, <2>3, <3>1, <2>1, EmptySequence
    <2> QED BY <2>3, <2>4, <2>5, <2>6 DEF StacksInStep
  <1> QED BY <1>1, IInvAlways, PTL

\* However read(2) cuts a file into pieces, the blocks that are hashed for it
\* are those of its padded content.
THEOREM ContentIsHashed == Spec => []DigestIsOfContent
  <1>1. IInv => DigestIsOfContent
    BY DEF IInv, Hashed, DigestIsOfContent
  <1> QED BY <1>1, IInvAlways, PTL

-----------------------------------------------------------------------------
(* The root *)

LEMMA LoneLeaf == ASSUME NEW s, IsLevel(s, 1) PROVE Balanced(s) = s[1]
  <1>1. Len(s) = 1
    BY DEF IsLevel
  <1>2. s # << >>
    <2>1. Len(<< >>) = 0
      OBVIOUS
    <2> QED BY <1>1, <2>1
  <1>3. Len(s) \in Nat \ {0} /\ 1 \in 1 .. Len(s)
    BY <1>1
  <1>4. PICK t : /\ \A n \in 1 .. Len(s) : t[n] = Row(s, t, n)
                 /\ Balanced(s) = t[Len(s)][1]
    BY <1>2, <1>3, BalancedIsTheTree
  <1>5. Balanced(s) = Row(s, t, 1)[1]
    <2>1. t[1] = Row(s, t, 1)
      BY <1>3, <1>4
    <2>2. t[Len(s)] = t[1]
      BY <1>1
    <2> QED BY <1>4, <2>1, <2>2
  <1>6. Row(s, t, 1)[1] = s[1]
    BY <1>1 DEF Row
  <1> QED BY <1>5, <1>6

\* A level has the tree of the leaves.
Rooted ==
  /\ IsSequence(entries)
  /\ pc = "merkle" =>
       \E n \in Nat \ {0} : IsLevel(level, n) /\ Balanced(level) = Balanced(Leaves)

LEMMA SameRooted ==
  ASSUME Rooted, UNCHANGED entries, pc' # "merkle" \/ UNCHANGED <<pc, level>>
  PROVE  Rooted'
  <1>1. UNCHANGED Leaves
    BY DEF Leaves
  <1> QED BY <1>1 DEF Rooted

LEMMA LengthOfSequence == ASSUME NEW s, IsSequence(s) PROVE Len(s) \in Nat /\ (s = << >> <=> Len(s) = 0)
  BY EmptySequence DEF IsSequence

LEMMA RootedStep ==
  ASSUME Typed, Control, Rooted, [Next]_vars
  PROVE  Rooted'
  <1>1. CASE Inform
    <2>1. UNCHANGED entries /\ pc' # "merkle"
      BY <1>1 DEF Inform, Exit
    <2> QED BY <2>1, SameRooted
  <1>2. CASE RefuseOperand
    <2>1. UNCHANGED entries /\ pc' # "merkle"
      BY <1>2 DEF RefuseOperand, Exit
    <2> QED BY <2>1, SameRooted
  <1>3. CASE StartTrim
    <2>1. UNCHANGED entries /\ pc' # "merkle"
      BY <1>3 DEF StartTrim
    <2> QED BY <2>1, SameRooted
  <1>4. CASE Trim
    <2>1. UNCHANGED entries /\ pc' # "merkle"
      BY <1>4 DEF Trim
    <2> QED BY <2>1, SameRooted
  <1>5. CASE RootFails
    <2>1. UNCHANGED entries /\ pc' # "merkle"
      BY <1>5 DEF RootFails, Exit, Trimmed
    <2> QED BY <2>1, SameRooted
  <1>6. CASE StartWalk
    <2>1. UNCHANGED entries /\ pc' # "merkle"
      BY <1>6 DEF StartWalk, Trimmed
    <2> QED BY <2>1, SameRooted
  <1>7. CASE WalkFailed
    <2>1. UNCHANGED entries /\ pc' # "merkle"
      BY <1>7 DEF WalkFailed, Exit
    <2> QED BY <2>1, SameRooted
  <1>8. CASE MerkleFails
    <2>1. UNCHANGED entries /\ pc' # "merkle"
      BY <1>8 DEF MerkleFails, Exit
    <2> QED BY <2>1, SameRooted
  <1>9. CASE PrintAll
    <2>1. UNCHANGED entries /\ pc' # "merkle"
      BY <1>9 DEF PrintAll, Exit
    <2> QED BY <2>1, SameRooted
  <1>10. CASE PrintFails
    <2>1. UNCHANGED entries /\ pc' # "merkle"
      BY <1>10 DEF PrintFails, Exit
    <2> QED BY <2>1, SameRooted
  <1>11. CASE EnterFails
    <2>1. UNCHANGED entries /\ pc' # "merkle"
      BY <1>11 DEF EnterFails
    <2> QED BY <2>1, SameRooted
  <1>12. CASE NoIgnore
    <2>1. UNCHANGED entries /\ pc' # "merkle"
      BY <1>12 DEF NoIgnore
    <2> QED BY <2>1, SameRooted
  <1>13. CASE OpenIgnore
    <2>1. UNCHANGED entries /\ pc' # "merkle"
      BY <1>13 DEF OpenIgnore
    <2> QED BY <2>1, SameRooted
  <1>14. CASE LinesEnd
    <2>1. UNCHANGED entries /\ pc' # "merkle"
      BY <1>14 DEF LinesEnd
    <2> QED BY <2>1, SameRooted
  <1>15. CASE Enter
    <2>1. UNCHANGED entries /\ pc' # "merkle"
      BY <1>15 DEF Enter
    <2> QED BY <2>1, SameRooted
  <1>16. CASE Return
    <2>1. UNCHANGED entries /\ pc' # "merkle"
      BY <1>16 DEF Return, Leave, LeaveFrame
    <2> QED BY <2>1, SameRooted
  <1>17. CASE IgnoreFails
    <2>1. UNCHANGED entries /\ pc' # "merkle"
      BY <1>17 DEF IgnoreFails, AbandonIgnore, LeaveFrame
    <2> QED BY <2>1, SameRooted
  <1>18. CASE LineFails
    <2>1. UNCHANGED entries /\ pc' # "merkle"
      BY <1>18 DEF LineFails, AbandonIgnore, LeaveFrame
    <2> QED BY <2>1, SameRooted
  <1>19. CASE NamesEnd
    <2>1. UNCHANGED entries /\ pc' # "merkle"
      BY <1>19 DEF NamesEnd, Leave, LeaveFrame
    <2> QED BY <2>1, SameRooted
  <1>20. CASE Interrupted
    <2>1. UNCHANGED entries /\ pc' # "merkle"
      BY <1>20 DEF Interrupted
    <2> QED BY <2>1, SameRooted
  <1>21. CASE OpenFile
    <2>1. UNCHANGED entries /\ pc' # "merkle"
      BY <1>21 DEF OpenFile
    <2> QED BY <2>1, SameRooted
  <1>22. CASE FileFails
    <2>1. UNCHANGED entries /\ pc' # "merkle"
      BY <1>22 DEF FileFails, LeaveFrame
    <2> QED BY <2>1, SameRooted
  <1>23. CASE EndOfFile
    <2>1. UNCHANGED entries /\ pc' # "merkle"
      BY <1>23 DEF EndOfFile
    <2> QED BY <2>1, SameRooted
  <1>24. CASE ReadLine
    <2>1. UNCHANGED entries /\ UNCHANGED <<pc, level>>
      BY <1>24 DEF ReadLine, mainVars
    <2> QED BY <2>1, SameRooted
  <1>25. CASE AddEntry
    <2> DEFINE e == [path |-> cand.rel, file |-> cand.ino]
    <2>1. entries' = Append(entries, e) /\ pc' # "merkle"
      BY <1>25 DEF AddEntry
    <2> HIDE DEF e
    <2>2. PICK S : entries \in Seq(S)
      BY DEF Rooted, IsSequence
    <2>3. entries \in Seq(S \cup {e}) /\ e \in S \cup {e}
      BY <2>2
    <2>4. entries' \in Seq(S \cup {e})
      BY <2>1, <2>3, Longer
    <2> QED BY <2>1, <2>4 DEF Rooted, IsSequence
  <1>26. CASE Sort
    <2>1. entries' = Sorted(entries) /\ pc' # "merkle"
      BY <1>26 DEF Sort
    <2>2. Len(entries) \in Nat
      BY LengthOfSequence DEF Rooted
    <2> DEFINE at(n) == entries[CHOOSE k \in DOMAIN entries :
                          Cardinality({m \in DOMAIN entries :
                                         \/ PathBefore(entries[m].path, entries[k].path)
                                         \/ entries[m].path = entries[k].path /\ m <= k}) = n]
    <2>3. Sorted(entries) = [n \in 1 .. Len(entries) |-> at(n)]
      BY DEF Sorted
    <2> HIDE DEF at
    <2>4. Sorted(entries) \in Seq({at(n) : n \in 1 .. Len(entries)})
      BY <2>2, <2>3
    <2> QED BY <2>1, <2>4 DEF Rooted, IsSequence
  <1>27. CASE HashLeaves
    <2>1. UNCHANGED entries /\ level' = IF entries = << >> THEN <<EmptyRoot>> ELSE Leaves
      BY <1>27 DEF HashLeaves
    <2>2. Len(entries) \in Nat /\ (entries = << >> <=> Len(entries) = 0) /\ Leaves' = Leaves
      BY <2>1, LengthOfSequence DEF Rooted, Leaves
    <2>3. CASE entries = << >>
      <3>1. Len(entries) = 0 /\ level' = <<EmptyRoot>>
        BY <2>1, <2>2, <2>3
      <3>2. Leaves = << >>
        BY <3>1 DEF Leaves
      <3>3. IsLevel(level', 1) /\ level'[1] = EmptyRoot
        BY <3>1 DEF IsLevel
      <3>4. Balanced(level') = EmptyRoot
        BY <3>3, LoneLeaf
      <3>5. Balanced(Leaves) = EmptyRoot
        BY <3>2 DEF Balanced
      <3>6. 1 \in Nat \ {0}
        OBVIOUS
      <3> QED BY <2>1, <2>2, <3>3, <3>4, <3>5, <3>6 DEF Rooted
    <2>4. CASE entries # << >>
      <3>1. level' = Leaves /\ Len(entries) \in Nat \ {0}
        BY <2>1, <2>2, <2>4
      <3>2. IsLevel(Leaves, Len(entries))
        BY <2>2 DEF Leaves, IsLevel
      <3> QED BY <2>1, <2>2, <3>1, <3>2 DEF Rooted
    <2> QED BY <2>3, <2>4
  <1>28. CASE PairLevel
    <2>1. UNCHANGED <<entries, pc>> /\ pc = "merkle" /\ Len(level) > 1 /\ level' = Paired(level)
      BY <1>28 DEF PairLevel
    <2>2. PICK n \in Nat \ {0} : IsLevel(level, n) /\ Balanced(level) = Balanced(Leaves)
      BY <2>1 DEF Rooted
    <2>3. n > 1
      BY <2>1, <2>2 DEF IsLevel
    <2>4. IsLevel(level', (n + 1) \div 2) /\ Balanced(level') = Balanced(level)
      BY <2>1, <2>2, <2>3, PairingKeepsTheTree
    <2>5. (n + 1) \div 2 \in Nat \ {0}
      BY <2>3
    <2>6. Leaves' = Leaves
      BY <2>1 DEF Leaves
    <2> QED BY <2>1, <2>2, <2>4, <2>5, <2>6 DEF Rooted
  <1>29. ASSUME pc = "read", NEW n \in Top.left, SkipEntry(n) PROVE Rooted'
    <2>1. UNCHANGED entries /\ pc' # "merkle"
      BY <1>29 DEF SkipEntry, mainVars
    <2> QED BY <2>1, SameRooted
  <1>30. ASSUME pc = "read", NEW n \in Top.left, TakeEntry(n) PROVE Rooted'
    <2>1. UNCHANGED entries /\ pc' # "merkle"
      BY <1>30, EntryKinds DEF TakeEntry, mainVars
    <2> QED BY <2>1, SameRooted
  <1>31. ASSUME pc = "read", NEW n \in Top.left, EntryFails(n) PROVE Rooted'
    <2>1. UNCHANGED entries /\ pc' # "merkle"
      BY <1>31 DEF EntryFails, Leave, LeaveFrame, mainVars
    <2> QED BY <2>1, SameRooted
  <1>32. ASSUME NEW k \in ReadSizes, ReadBytes(k) PROVE Rooted'
    <2>1. UNCHANGED <<entries, pc, level>>
      BY <1>32 DEF ReadBytes, mainVars
    <2> QED BY <2>1, SameRooted
  <1>33. CASE UNCHANGED vars
    <2>1. UNCHANGED <<entries, pc, level>>
      BY <1>33 DEF vars, mainVars
    <2> QED BY <2>1, SameRooted
  <1> QED
    BY <1>1, <1>2, <1>3, <1>4, <1>5, <1>6, <1>7, <1>8, <1>9, <1>10, <1>11, <1>12, <1>13, <1>14, <1>15, <1>16, <1>17, <1>18, <1>19, <1>20, <1>21, <1>22, <1>23, <1>24, <1>25, <1>26, <1>27, <1>28, <1>29, <1>30, <1>31, <1>32, <1>33 DEF Next, NextEntry, Terminated

LEMMA RootedAlways == Spec => []Rooted
  <1>1. Init => Rooted
    <2>1. << >> \in Seq({})
      OBVIOUS
    <2> QED BY <2>1 DEF Init, Rooted, IsSequence
  <1>2. IInv /\ Rooted /\ [Next]_vars => Rooted'
    BY RootedStep DEF IInv
  <1> QED BY <1>1, <1>2, IInvAlways, PTL DEF Spec

\* The root that compute_merkle_root() arrives at, level by level, is the one
\* of the tree that splits at powers of two, over the lines of the list in
\* their order, however many there are.
THEOREM RootIsOfTheTree == Spec => []RootCommits
  <1>1. Rooted => RootCommits
    <2> SUFFICES ASSUME Rooted, pc = "merkle", Len(level) = 1 PROVE level[1] = Balanced(Leaves)
      BY DEF RootCommits
    <2>1. PICK n \in Nat \ {0} : IsLevel(level, n) /\ Balanced(level) = Balanced(Leaves)
      BY DEF Rooted
    <2>2. n = 1
      BY <2>1 DEF IsLevel
    <2> QED BY <2>1, <2>2, LoneLeaf
  <1> QED BY <1>1, RootedAlways, PTL

-----------------------------------------------------------------------------
(* Paths *)

\* Where a name leads from an inode.
Sub(k, dir, n) ==
  IF dir # Nothing /\ n \in DOMAIN Trees[k].kids[dir] THEN Trees[k].kids[dir][n] ELSE Nothing

\* The inodes on the way along the first m names of a path.
Stop(f, k, path, n) == IF n = 0 THEN Root ELSE Sub(k, f[n - 1], path[n])
IsWay(f, k, path, m) == f = [n \in 0 .. m |-> Stop(f, k, path, n)]

LEMMA WayIsPossible ==
  ASSUME NEW k, NEW path, NEW m \in Nat
  PROVE  \E f : IsWay(f, k, path, m)
  <1> DEFINE S == {n \in Nat : \E f : IsWay(f, k, path, n)}
  <1>1. ASSUME NEW n \in Nat, \A l \in Nat : l < n => l \in S PROVE n \in S
    <2>1. CASE n = 0
      <3> DEFINE g == [l \in 0 .. 0 |-> Root]
      <3>1. \A l \in 0 .. 0 : Stop(g, k, path, l) = Root
        BY DEF Stop
      <3>2. g = [l \in 0 .. 0 |-> Stop(g, k, path, l)]
        BY <3>1
      <3>3. IsWay(g, k, path, 0)
        BY <3>2, Zenon DEF IsWay
      <3> QED BY <2>1, <3>3
    <2>2. CASE n # 0
      <3>1. PICK f : IsWay(f, k, path, n - 1)
        BY <1>1, <2>2
      <3> DEFINE g == [l \in 0 .. n |-> IF l = n THEN Sub(k, f[n - 1], path[n]) ELSE f[l]]
      <3>2. ASSUME NEW l \in 0 .. n PROVE g[l] = Stop(g, k, path, l)
        <4>1. CASE l = n
          BY <2>2, <4>1 DEF Stop
        <4>2. CASE l # n
          <5>1. l \in 0 .. n - 1
            BY <4>2
          <5>2. f[l] = Stop(f, k, path, l)
            BY <3>1, <5>1 DEF IsWay
          <5>3. l # 0 => g[l - 1] = f[l - 1]
            BY <5>1
          <5>4. g[l] = f[l]
            BY <4>2
          <5> HIDE DEF g
          <5> QED BY <5>2, <5>3, <5>4 DEF Stop
        <4> QED BY <4>1, <4>2
      <3>3. g = [l \in 0 .. n |-> g[l]]
        OBVIOUS
      <3> HIDE DEF g
      <3>4. IsWay(g, k, path, n)
        BY <3>2, <3>3 DEF IsWay
      <3> QED BY <3>4
    <2> QED BY <2>1, <2>2
  <1>2. Nat \subseteq S
    <2> HIDE DEF S
    <2> QED BY <1>1, EveryNaturalAbove
  <1> QED BY <1>2

\* Two ways that begin alike lead to the same inode as long as they do.
LEMMA WaysAgree ==
  ASSUME NEW k, NEW p, NEW q, NEW m \in Nat, NEW l \in Nat, m <= l,
         NEW f, IsWay(f, k, p, m), NEW g, IsWay(g, k, q, l), \A i \in 1 .. m : p[i] = q[i]
  PROVE  f[m] = g[m]
  <1> DEFINE S == {n \in Nat : n <= m => f[n] = g[n]}
  <1>1. ASSUME NEW n \in Nat, \A j \in Nat : j < n => j \in S PROVE n \in S
    <2>1. SUFFICES ASSUME n <= m PROVE f[n] = g[n]
      OBVIOUS
    <2>1a. n \in 0 .. m /\ n \in 0 .. l
      BY <2>1
    <2>1b. f[n] = Stop(f, k, p, n)
      BY <2>1a DEF IsWay
    <2>1c. g[n] = Stop(g, k, q, n)
      BY <2>1a DEF IsWay
    <2>2. f[n] = Stop(f, k, p, n) /\ g[n] = Stop(g, k, q, n)
      BY <2>1b, <2>1c
    <2>3. CASE n = 0
      BY <2>2, <2>3 DEF Stop
    <2>4. CASE n # 0
      <3>1. n - 1 \in Nat /\ n - 1 < n /\ n - 1 <= m /\ n \in 1 .. m
        BY <2>1, <2>4
      <3>2. f[n - 1] = g[n - 1]
        BY <1>1, <3>1
      <3> QED BY <2>2, <2>4, <3>1, <3>2 DEF Stop
    <2> QED BY <2>3, <2>4
  <1>2. Nat \subseteq S
    <2> HIDE DEF S
    <2> QED BY <1>1, EveryNaturalAbove
  <1> QED BY <1>2

LEMMA InodeIsTheLastStop ==
  ASSUME NEW k, NEW path, Len(path) \in Nat
  PROVE  \E f : IsWay(f, k, path, Len(path)) /\ InodeIn(k, path) = f[Len(path)]
  <1> DEFINE f == CHOOSE g : IsWay(g, k, path, Len(path))
  <1>1. InodeIn(k, path) = f[Len(path)]
    BY DEF InodeIn, IsWay, Stop, Sub
  <1>2. IsWay(f, k, path, Len(path))
    BY WayIsPossible
  <1> QED BY <1>1, <1>2

LEMMA InodeOfRoot ==
  ASSUME NEW k PROVE InodeIn(k, << >>) = Root
  <1>1. Len(<< >>) = 0
    OBVIOUS
  <1>2. PICK f : IsWay(f, k, << >>, 0) /\ InodeIn(k, << >>) = f[0]
    BY <1>1, InodeIsTheLastStop
  <1> QED BY <1>2 DEF IsWay, Stop

\* What is before the last name of a path.
LEMMA PrefixOfPath ==
  ASSUME NEW S, NEW path \in Seq(S), NEW n \in 0 .. Len(path)
  PROVE  /\ Prefix(path, n) \in Seq(S) /\ Len(Prefix(path, n)) = n
         /\ \A i \in 1 .. n : Prefix(path, n)[i] = path[i]
         /\ \A i \in 0 .. n : Prefix(Prefix(path, n), i) = Prefix(path, i)
  BY DEF Prefix

LEMMA InodeOfChild ==
  ASSUME NEW k, NEW S, NEW path \in Seq(S), Len(path) # 0
  PROVE  InodeIn(k, path) = Sub(k, InodeIn(k, Prefix(path, Len(path) - 1)), path[Len(path)])
  <1> DEFINE m == Len(path)
             q == Prefix(path, m - 1)
  <1>1. m \in Nat /\ m - 1 \in Nat /\ m - 1 \in 0 .. Len(path) /\ m - 1 <= m
    OBVIOUS
  <1>2. Len(q) = m - 1 /\ \A i \in 1 .. m - 1 : q[i] = path[i]
    BY <1>1, PrefixOfPath
  <1>3. PICK f : IsWay(f, k, path, m) /\ InodeIn(k, path) = f[m]
    BY <1>1, InodeIsTheLastStop
  <1>4. PICK g : IsWay(g, k, q, m - 1) /\ InodeIn(k, q) = g[m - 1]
    BY <1>1, <1>2, InodeIsTheLastStop
  <1> HIDE DEF m, q
  <1>5. f[m - 1] = g[m - 1]
    BY <1>1, <1>2, <1>3, <1>4, WaysAgree
  <1>6. m # 0
    BY DEF m
  <1>7. f[m] = Sub(k, f[m - 1], path[m])
    BY <1>1, <1>3, <1>6 DEF IsWay, Stop
  <1> QED BY <1>3, <1>4, <1>5, <1>7 DEF m, q

\* The same for the length on disk.
Measure(f, b, path, n) == IF n = 0 THEN b ELSE f[n - 1] + 1 + NameLen[path[n]]
IsMeasuring(f, b, path, m) == f = [n \in 0 .. m |-> Measure(f, b, path, n)]

LEMMA MeasuringIsPossible ==
  ASSUME NEW b, NEW path, NEW m \in Nat
  PROVE  \E f : IsMeasuring(f, b, path, m)
  <1> DEFINE S == {n \in Nat : \E f : IsMeasuring(f, b, path, n)}
  <1>1. ASSUME NEW n \in Nat, \A l \in Nat : l < n => l \in S PROVE n \in S
    <2>1. CASE n = 0
      <3> DEFINE g == [l \in 0 .. 0 |-> b]
      <3>1. \A l \in 0 .. 0 : Measure(g, b, path, l) = b
        BY DEF Measure
      <3>2. g = [l \in 0 .. 0 |-> Measure(g, b, path, l)]
        BY <3>1
      <3>3. IsMeasuring(g, b, path, 0)
        BY <3>2, Zenon DEF IsMeasuring
      <3> QED BY <2>1, <3>3
    <2>2. CASE n # 0
      <3>1. PICK f : IsMeasuring(f, b, path, n - 1)
        BY <1>1, <2>2
      <3> DEFINE g == [l \in 0 .. n |-> IF l = n THEN f[n - 1] + 1 + NameLen[path[n]] ELSE f[l]]
      <3>2. ASSUME NEW l \in 0 .. n PROVE g[l] = Measure(g, b, path, l)
        <4>1. CASE l = n
          BY <2>2, <4>1 DEF Measure
        <4>2. CASE l # n
          <5>1. l \in 0 .. n - 1
            BY <4>2
          <5>2. f[l] = Measure(f, b, path, l)
            BY <3>1, <5>1 DEF IsMeasuring
          <5>3. l # 0 => g[l - 1] = f[l - 1]
            BY <5>1
          <5>4. g[l] = f[l]
            BY <4>2
          <5> HIDE DEF g
          <5> QED BY <5>2, <5>3, <5>4 DEF Measure
        <4> QED BY <4>1, <4>2
      <3>3. g = [l \in 0 .. n |-> g[l]]
        OBVIOUS
      <3> HIDE DEF g
      <3>4. IsMeasuring(g, b, path, n)
        BY <3>2, <3>3 DEF IsMeasuring
      <3> QED BY <3>4
    <2> QED BY <2>1, <2>2
  <1>2. Nat \subseteq S
    <2> HIDE DEF S
    <2> QED BY <1>1, EveryNaturalAbove
  <1> QED BY <1>2

LEMMA MeasuresAgree ==
  ASSUME NEW b, NEW p, NEW q, NEW m \in Nat, NEW l \in Nat, m <= l,
         NEW f, IsMeasuring(f, b, p, m), NEW g, IsMeasuring(g, b, q, l), \A i \in 1 .. m : p[i] = q[i]
  PROVE  f[m] = g[m]
  <1> DEFINE S == {n \in Nat : n <= m => f[n] = g[n]}
  <1>1. ASSUME NEW n \in Nat, \A j \in Nat : j < n => j \in S PROVE n \in S
    <2>1. SUFFICES ASSUME n <= m PROVE f[n] = g[n]
      OBVIOUS
    <2>1a. n \in 0 .. m /\ n \in 0 .. l
      BY <2>1
    <2>1b. f[n] = Measure(f, b, p, n)
      BY <2>1a DEF IsMeasuring
    <2>1c. g[n] = Measure(g, b, q, n)
      BY <2>1a DEF IsMeasuring
    <2>2. f[n] = Measure(f, b, p, n) /\ g[n] = Measure(g, b, q, n)
      BY <2>1b, <2>1c
    <2>3. CASE n = 0
      BY <2>2, <2>3 DEF Measure
    <2>4. CASE n # 0
      <3>1. n - 1 \in Nat /\ n - 1 < n /\ n - 1 <= m /\ n \in 1 .. m
        BY <2>1, <2>4
      <3>2. f[n - 1] = g[n - 1]
        BY <1>1, <3>1
      <3> QED BY <2>2, <2>4, <3>1, <3>2 DEF Measure
    <2> QED BY <2>3, <2>4
  <1>2. Nat \subseteq S
    <2> HIDE DEF S
    <2> QED BY <1>1, EveryNaturalAbove
  <1> QED BY <1>2

LEMMA LengthIsMeasured ==
  ASSUME NEW b, NEW path, Len(path) \in Nat
  PROVE  \E f : IsMeasuring(f, b, path, Len(path)) /\ LenOnDisk(b, path) = f[Len(path)]
  <1> DEFINE f == CHOOSE g : IsMeasuring(g, b, path, Len(path))
  <1>1. LenOnDisk(b, path) = f[Len(path)]
    BY DEF LenOnDisk, IsMeasuring, Measure
  <1>2. IsMeasuring(f, b, path, Len(path))
    BY MeasuringIsPossible
  <1> QED BY <1>1, <1>2

LEMMA LengthOfRoot ==
  ASSUME NEW b PROVE LenOnDisk(b, << >>) = b
  <1>1. Len(<< >>) = 0
    OBVIOUS
  <1>2. PICK f : IsMeasuring(f, b, << >>, 0) /\ LenOnDisk(b, << >>) = f[0]
    BY <1>1, LengthIsMeasured
  <1> QED BY <1>2 DEF IsMeasuring, Measure

LEMMA LengthOfChild ==
  ASSUME NEW b, NEW S, NEW path \in Seq(S), Len(path) # 0
  PROVE  LenOnDisk(b, path)
           = LenOnDisk(b, Prefix(path, Len(path) - 1)) + 1 + NameLen[path[Len(path)]]
  <1> DEFINE m == Len(path)
             q == Prefix(path, m - 1)
  <1>1. m \in Nat /\ m - 1 \in Nat /\ m - 1 \in 0 .. Len(path) /\ m - 1 <= m
    OBVIOUS
  <1>2. Len(q) = m - 1 /\ \A i \in 1 .. m - 1 : q[i] = path[i]
    BY <1>1, PrefixOfPath
  <1>3. PICK f : IsMeasuring(f, b, path, m) /\ LenOnDisk(b, path) = f[m]
    BY <1>1, LengthIsMeasured
  <1>4. PICK g : IsMeasuring(g, b, q, m - 1) /\ LenOnDisk(b, q) = g[m - 1]
    BY <1>1, <1>2, LengthIsMeasured
  <1> HIDE DEF m, q
  <1>5. f[m - 1] = g[m - 1]
    BY <1>1, <1>2, <1>3, <1>4, MeasuresAgree
  <1>6. m # 0
    BY DEF m
  <1>7. f[m] = f[m - 1] + 1 + NameLen[path[m]]
    BY <1>1, <1>3, <1>6 DEF IsMeasuring, Measure
  <1> QED BY <1>3, <1>4, <1>5, <1>7 DEF m, q

-----------------------------------------------------------------------------
(* The walk against the tree *)

\* The path goes through the i-th activation, which has gone past its name.
On(frame, i, path) == frame.rel = Prefix(path, i - 1) /\ path[i] \notin frame.left

\* The path goes through the i-th activation, which has its name to come.
Ahead(frame, i, path) == i <= Len(path) /\ frame.rel = Prefix(path, i - 1) /\ path[i] \in frame.left

\* What is still to come at a path: itself, or something on the way to it.
Awaited(at, stk, c, path) ==
  \/ at \in {"args", "trim"}
  \/ at \in {"enter", "open", "hash", "add"} /\ IsPrefix(c.rel, path)
  \/ at = "ignore" /\ path = stk[Len(stk)].rel
  \/ \E i \in 1 .. Len(stk) : Ahead(stk[i], i, path)

ToCome(path) == Awaited(pc, stack, cand, path)

\* The activations are on one path, each at the inode that its part leads to.
Frames(k, b, stk) ==
  \A j \in 1 .. Len(stk) :
    /\ Len(stk[j].rel) = j - 1
    /\ stk[j].ino = InodeIn(k, stk[j].rel) /\ Trees[k].kind[stk[j].ino] = "dir"
    /\ stk[j].len = LenOnDisk(b, stk[j].rel)
    /\ \A i \in 1 .. j - 1 : On(stk[i], i, stk[j].rel)

\* What is in hand is where the path goes on.
Hand(k, b, stk, c, kind) ==
  /\ Len(c.rel) = Len(stk)
  /\ c.ino = InodeIn(k, c.rel) /\ Trees[k].kind[c.ino] = kind
  /\ c.len = LenOnDisk(b, c.rel)
  /\ \A i \in 1 .. Len(stk) : On(stk[i], i, c.rel)

\* The places of the rules that were read and not popped.
OnWay(k, stk) ==
  UNION {{n} \X DOMAIN GitignoreLines(k, stk[n + 1].ino) :
           n \in {m \in 0 .. Len(stk) - 1 : HasGitignore(k, stk[m + 1].ino)}}
Read(k, stk, at, ln) ==
  {r \in OnWay(k, stk) :
     /\ ~MakesNoRule(GitignoreLines(k, stk[r[1] + 1].ino)[r[2]])
     /\ r[1] = Len(stk) - 1 => at # "ignore" /\ (at = "lines" => r[2] < ln)}

RuleOn(k, stk, r) ==
  RuleOf(GitignoreLines(k, stk[r[1] + 1].ino)[r[2]], stk[r[1] + 1].rel, r[1])

\* The rules one by one, in the order of their places.
Numbers(num, places, k, stk, rls) ==
  /\ num \in [1 .. Len(rls) -> places]
  /\ \A r \in places : \E i \in 1 .. Len(rls) : num[i] = r
  /\ \A i, j \in 1 .. Len(rls) : i < j => Later(num[j], num[i])
  /\ \A i \in 1 .. Len(rls) : rls[i] = RuleOn(k, stk, num[i])

AreThose(places, k, stk, rls) ==
  \E num \in [1 .. Len(rls) -> places] : Numbers(num, places, k, stk, rls)

OnPath ==
  /\ Frames(tree, Len(walked), stack)
  /\ pc = "enter" => Hand(tree, Len(walked), stack, cand, "dir")
  /\ pc \in {"open", "hash", "add"} => stack # << >> /\ Hand(tree, Len(walked), stack, cand, "file")

RulesRead == ~cut /\ ret = 0 => AreThose(Read(tree, stack, pc, line), tree, stack, rules)

\* What is walked and what is hashed should be.
Rightly ==
  ~cut /\ ret = 0 =>
    /\ \A j \in 2 .. Len(stack) : WalkedDir(tree, stack[j].rel)
    /\ pc = "enter" /\ stack # << >> => WalkedDir(tree, cand.rel)
    /\ pc \in {"open", "hash", "add"} => Listed(tree, cand.rel)

Going == ret = 0 /\ ~cut /\ (pc = "done" => status = 0 /\ ~Informs)

PathsOf(es) == {es[i].path : i \in 1 .. Len(es)}

\* Nothing is wrong with a path, and it is in the list if it should be.
Settled(k, b, es, path) ==
  /\ ~Unwalkable(k, b, path) /\ ~Unnameable(k, b, path)
  /\ Listed(k, path) => path \in PathsOf(es)

\* Whatever is not to come any more was within the limits, and is in the list
\* if it should be.
NothingIsMissing ==
  Going =>
    /\ ToCome(<< >>) \/ Len(walked) + IgnoreLen < PathMax
    /\ \A path \in PathsIn[tree] : ToCome(path) \/ Settled(tree, Len(walked), entries, path)

\* The list has what it should, once.
Rightful(k, es) ==
  /\ \A i \in 1 .. Len(es) :
       /\ es[i].path \in PathsIn[k] /\ Listed(k, es[i].path)
       /\ es[i].file = InodeIn(k, es[i].path)
  /\ \A i, j \in 1 .. Len(es) : es[i].path = es[j].path => i = j

NothingIsAlien ==
  ~cut => Rightful(tree, entries) /\ \A path \in PathsOf(entries) : ~ToCome(path)

Entry == [path : Seq(Names), file : Inodes]

Blame ==
  ~cut /\ (ret # 0 \/ (status = 2 /\ ~OperandRefused)) => faults < MaxFaults \/ BeyondLimits

Started ==
  /\ ~cut => entries \in Seq(Entry)
  /\ pc \notin {"args", "done"} => ~Informs /\ ~OperandRefused
  /\ pc = "done" /\ status = 0 => Informs \/ (~OperandRefused /\ ret = 0 /\ printed = Lines)
  /\ pc \in {"leaves", "merkle"} => ret = 0
  /\ status = 2 => ~Informs
  /\ stale => pc \in {"open", "hash", "add"} \/ ret # 0
  /\ pc \in {"args", "trim"} => entries = << >>
  /\ pc \in {"args", "trim"} => rules = << >>
  /\ pc = "done" => status \in {0, 2}

InOrder(es) == \A i, j \in 1 .. Len(es) : i < j => PathBefore(es[i].path, es[j].path)

Ordered ==
  /\ ~cut
  /\ pc \in {"leaves", "merkle"} \/ (pc = "done" /\ status = 0 /\ ~Informs)
  => InOrder(entries)

WalkInv ==
  OnPath /\ RulesRead /\ Rightly /\ NothingIsMissing /\ NothingIsAlien /\ Blame /\ Started /\ Ordered

-----------------------------------------------------------------------------
(* The activations and the path they are on *)

LEMMA PrefixMeans ==
  ASSUME NEW S, NEW q \in Seq(S), NEW path \in Seq(S)
  PROVE  IsPrefix(q, path) <=> Len(q) <= Len(path) /\ q = Prefix(path, Len(q))
  <1>1. SubSeq(q, 1, Len(q)) = q
    OBVIOUS
  <1> QED BY <1>1 DEF IsPrefix, Prefix

LEMMA PrefixOfAll == ASSUME NEW S, NEW path \in Seq(S) PROVE Prefix(path, Len(path)) = path /\ Prefix(path, 0) = << >>
  BY DEF Prefix

LEMMA FramesPop ==
  ASSUME NEW k, NEW b, NEW F, NEW stk \in Seq(F), stk # << >>, Frames(k, b, stk)
  PROVE  Frames(k, b, SubSeq(stk, 1, Len(stk) - 1))
  <1> DEFINE s == SubSeq(stk, 1, Len(stk) - 1)
  <1>1. Len(stk) \in Nat \ {0}
    OBVIOUS
  <1>2. Len(s) = Len(stk) - 1 /\ \A i \in 1 .. Len(s) : s[i] = stk[i]
    <2>1. Len(stk) - 1 \in 0 .. Len(stk)
      BY <1>1
    <2>2. PICK m \in 0 .. Len(stk) : m = Len(stk) - 1
      BY <2>1
    <2>3. s = SubSeq(stk, 1, m)
      BY <2>2
    <2> HIDE DEF s
    <2>4. Len(s) = m /\ \A i \in 1 .. m : s[i] = stk[i]
      BY <2>3, Shorter
    <2> QED BY <2>2, <2>4
  <1>3. \A j \in 1 .. Len(s) : j \in 1 .. Len(stk) /\ \A i \in 1 .. j - 1 : i \in 1 .. Len(s)
    BY <1>1, <1>2
  <1> HIDE DEF s
  <1>4. Frames(k, b, s)
    BY <1>2, <1>3 DEF Frames
  <1> QED BY <1>4 DEF s

\* One more activation at what was in hand.
LEMMA FramesPush ==
  ASSUME NEW k, NEW b, NEW F, NEW stk \in Seq(F), NEW c, Frames(k, b, stk), Hand(k, b, stk, c, "dir"),
         NEW f \in F, f.ino = c.ino, f.rel = c.rel, f.len = c.len
  PROVE  Frames(k, b, Append(stk, f))
  <1> DEFINE s == Append(stk, f)
  <1>1. Len(s) = Len(stk) + 1 /\ s[Len(stk) + 1] = f /\ \A i \in 1 .. Len(stk) : s[i] = stk[i]
    BY Longer
  <1>2. Len(stk) \in Nat
    OBVIOUS
  <1> HIDE DEF s
  <1>3. ASSUME NEW j \in 1 .. Len(s)
        PROVE  /\ Len(s[j].rel) = j - 1
               /\ s[j].ino = InodeIn(k, s[j].rel) /\ Trees[k].kind[s[j].ino] = "dir"
               /\ s[j].len = LenOnDisk(b, s[j].rel)
               /\ \A i \in 1 .. j - 1 : On(s[i], i, s[j].rel)
    <2>1. CASE j = Len(s)
      <3>1. s[j] = f /\ j - 1 = Len(stk)
        BY <1>1, <1>2, <2>1
      <3> QED BY <1>1, <3>1 DEF Hand
    <2>2. CASE j # Len(s)
      <3>1. j \in 1 .. Len(stk) /\ s[j] = stk[j] /\ \A i \in 1 .. j - 1 : s[i] = stk[i]
        BY <1>1, <1>2, <2>2
      <3> QED BY <3>1 DEF Frames
    <2> QED BY <2>1, <2>2
  <1>4. Frames(k, b, s)
    BY <1>3 DEF Frames
  <1> QED BY <1>4 DEF s

\* An activation takes a name, or none.
LEMMA FramesTook ==
  ASSUME NEW k, NEW b, NEW stk, NEW s, Len(stk) \in Nat, Len(s) = Len(stk), Frames(k, b, stk),
         \A i \in 1 .. Len(stk) : /\ s[i].ino = stk[i].ino /\ s[i].rel = stk[i].rel /\ s[i].len = stk[i].len
                                  /\ s[i].left \subseteq stk[i].left
  PROVE  Frames(k, b, s)
  <1>1. ASSUME NEW j \in 1 .. Len(s)
        PROVE  /\ Len(s[j].rel) = j - 1
               /\ s[j].ino = InodeIn(k, s[j].rel) /\ Trees[k].kind[s[j].ino] = "dir"
               /\ s[j].len = LenOnDisk(b, s[j].rel)
               /\ \A i \in 1 .. j - 1 : On(s[i], i, s[j].rel)
    <2>1. j \in 1 .. Len(stk) /\ \A i \in 1 .. j - 1 : i \in 1 .. Len(stk)
      OBVIOUS
    <2>2. /\ Len(stk[j].rel) = j - 1
          /\ stk[j].ino = InodeIn(k, stk[j].rel) /\ Trees[k].kind[stk[j].ino] = "dir"
          /\ stk[j].len = LenOnDisk(b, stk[j].rel)
          /\ \A i \in 1 .. j - 1 : On(stk[i], i, stk[j].rel)
      BY <2>1 DEF Frames
    <2>3. s[j].rel = stk[j].rel /\ s[j].ino = stk[j].ino /\ s[j].len = stk[j].len
      BY <2>1
    <2>4. ASSUME NEW i \in 1 .. j - 1 PROVE On(s[i], i, s[j].rel)
      <3>1. s[i].rel = stk[i].rel /\ s[i].left \subseteq stk[i].left
        BY <2>1
      <3>2. On(stk[i], i, stk[j].rel)
        BY <2>2
      <3> QED BY <2>3, <3>1, <3>2 DEF On
    <2> QED BY <2>2, <2>3, <2>4
  <1> QED BY <1>1 DEF Frames

\* What is on the way of the activations is to come in none of them.
LEMMA OnIsNotAhead ==
  ASSUME NEW stk, NEW path, \A i \in 1 .. Len(stk) : On(stk[i], i, path)
  PROVE  \A i \in 1 .. Len(stk) : ~Ahead(stk[i], i, path)
  BY DEF On, Ahead

-----------------------------------------------------------------------------
(* What is reached *)

LEMMA ReachedPrefix ==
  ASSUME NEW k, NEW S, NEW path \in Seq(S), NEW n \in 1 .. Len(path), Reached(k, path)
  PROVE  /\ Reached(k, Prefix(path, n))
         /\ n < Len(path) => WalkedDir(k, Prefix(path, n))
  <1> DEFINE q == Prefix(path, n)
  <1>1. n \in 0 .. Len(path)
    OBVIOUS
  <1>2. Len(q) = n /\ (\A i \in 1 .. n : q[i] = path[i]) /\ \A i \in 0 .. n : Prefix(q, i) = Prefix(path, i)
    BY <1>1, PrefixOfPath
  <1>3. \A i \in 1 .. n : i \in 1 .. Len(path) /\ i \in 0 .. n /\ (i < n => i < Len(path))
    OBVIOUS
  <1> HIDE DEF q
  <1>4. Reached(k, q)
    BY <1>2, <1>3 DEF Reached
  <1>5. n < Len(path) => WalkedDir(k, q)
    BY <1>4 DEF Reached, WalkedDir, q
  <1> QED BY <1>4, <1>5 DEF q

LEMMA ReachedChild ==
  ASSUME NEW k, NEW S, NEW path \in Seq(S), Len(path) # 0, path[Len(path)] # ".git",
         Len(path) # 1 => WalkedDir(k, Prefix(path, Len(path) - 1))
  PROVE  Reached(k, path)
  <1> DEFINE m == Len(path) - 1
             q == Prefix(path, m)
  <1>1. m \in 0 .. Len(path) /\ Len(path) = m + 1
    BY SMTT(30)
  <1>2. Len(q) = m /\ (\A i \in 1 .. m : q[i] = path[i]) /\ \A i \in 0 .. m : Prefix(q, i) = Prefix(path, i)
    BY <1>1, PrefixOfPath
  <1> HIDE DEF m, q
  <1>3. ASSUME NEW n \in 1 .. Len(path)
        PROVE  /\ path[n] # ".git"
               /\ n < Len(path) => KindAt(k, Prefix(path, n)) = "dir" /\ ~Excluded(k, Prefix(path, n))
    <2>1. CASE n = Len(path)
      BY <2>1
    <2>2. CASE n # Len(path)
      <3>1. n \in 1 .. m /\ m # 0
        BY <1>1, <2>2
      <3>2. WalkedDir(k, q)
        BY <1>1, <3>1 DEF m, q
      <3>3. Reached(k, q)
        BY <3>2 DEF WalkedDir
      <3>4. q[n] # ".git" /\ (n < m => KindAt(k, Prefix(q, n)) = "dir" /\ ~Excluded(k, Prefix(q, n)))
        BY <1>2, <3>1, <3>3 DEF Reached
      <3>5. CASE n = m
        BY <1>2, <3>1, <3>2, <3>4, <3>5 DEF WalkedDir, q
      <3>6. CASE n # m
        <4>1. n < m /\ n \in 0 .. m
          BY <1>1, <3>1, <3>6
        <4> QED BY <1>2, <3>1, <3>4, <4>1
      <3> QED BY <3>5, <3>6
    <2> QED BY <2>1, <2>2
  <1> QED BY <1>3 DEF Reached

\* Nothing is reached below what is not walked.
LEMMA NotReachedBelow ==
  ASSUME NEW k, NEW b, NEW es, NEW S, NEW path \in Seq(S), NEW q \in Seq(S), Len(q) # 0, IsPrefix(q, path),
         q # path, ~WalkedDir(k, q)
  PROVE  Settled(k, b, es, path)
  <1>1. Len(q) <= Len(path) /\ q = Prefix(path, Len(q))
    BY PrefixMeans
  <1>2. Len(q) # Len(path)
    BY <1>1, PrefixOfAll
  <1>3. Len(q) \in 1 .. Len(path) /\ Len(q) < Len(path)
    BY <1>1, <1>2
  <1>4. ~Reached(k, path)
    BY <1>1, <1>3, ReachedPrefix
  <1> QED BY <1>4 DEF Settled, Unwalkable, WalkedDir, Unnameable, Listed

\* Nor with a name ".git".
LEMMA NotReachedGit ==
  ASSUME NEW k, NEW b, NEW es, NEW S, NEW path \in Seq(S), NEW q \in Seq(S), NEW i \in 1 .. Len(q),
         IsPrefix(q, path), q[i] = ".git"
  PROVE  Settled(k, b, es, path)
  <1>1. Len(q) <= Len(path) /\ q = Prefix(path, Len(q))
    BY PrefixMeans
  <1>2. Len(q) \in 0 .. Len(path) /\ i \in 1 .. Len(path)
    BY <1>1
  <1>3. path[i] = q[i]
    BY <1>1, <1>2, PrefixOfPath
  <1>4. ~Reached(k, path)
    BY <1>2, <1>3 DEF Reached
  <1> QED BY <1>4 DEF Settled, Unwalkable, WalkedDir, Unnameable, Listed

\* Each inode on the way to one is one.
LEMMA WayLeads ==
  ASSUME NEW k, NEW S, NEW path \in Seq(S), InodeIn(k, path) # Nothing
  PROVE  \A n \in 0 .. Len(path) : InodeIn(k, Prefix(path, n)) # Nothing
  <1> DEFINE T == {d \in Nat : d <= Len(path) => InodeIn(k, Prefix(path, Len(path) - d)) # Nothing}
  <1>1. ASSUME NEW d \in Nat, \A j \in Nat : j < d => j \in T PROVE d \in T
    <2>1. SUFFICES ASSUME d <= Len(path) PROVE InodeIn(k, Prefix(path, Len(path) - d)) # Nothing
      OBVIOUS
    <2>2. CASE d = 0
      BY <2>2, PrefixOfAll
    <2>3. CASE d # 0
      <3> DEFINE m == Len(path) - (d - 1)
                 q == Prefix(path, m)
      <3>1. d - 1 \in Nat /\ d - 1 < d /\ d - 1 <= Len(path)
        BY <2>1, <2>3
      <3>2. InodeIn(k, q) # Nothing
        BY <1>1, <3>1
      <3>3. m \in 0 .. Len(path) /\ m # 0 /\ m - 1 = Len(path) - d /\ m - 1 \in 0 .. m
        BY <2>1, <2>3
      <3>4. q \in Seq(S) /\ Len(q) = m /\ Prefix(q, m - 1) = Prefix(path, m - 1)
        BY <3>3, PrefixOfPath
      <3> HIDE DEF q, m
      <3>5. InodeIn(k, q) = Sub(k, InodeIn(k, Prefix(q, m - 1)), q[m])
        BY <3>3, <3>4, InodeOfChild
      <3> QED BY <3>2, <3>3, <3>4, <3>5 DEF Sub
    <2> QED BY <2>2, <2>3
  <1>2. Nat \subseteq T
    <2> HIDE DEF T
    <2> QED BY <1>1, EveryNaturalAbove
  <1>3. ASSUME NEW n \in 0 .. Len(path) PROVE InodeIn(k, Prefix(path, n)) # Nothing
    <2>1. Len(path) - n \in Nat /\ Len(path) - n <= Len(path) /\ Len(path) - (Len(path) - n) = n
      OBVIOUS
    <2>2. Len(path) - n \in T
      BY <1>2, <2>1
    <2> QED BY <2>1, <2>2
  <1> QED BY <1>3

\* The next name of a path that leads somewhere is one of the directory's.
LEMMA NextNameLeads ==
  ASSUME NEW k, NEW S, NEW path \in Seq(S), InodeIn(k, path) # Nothing, NEW n \in 1 .. Len(path)
  PROVE  path[n] \in DOMAIN Trees[k].kids[InodeIn(k, Prefix(path, n - 1))]
  <1> DEFINE q == Prefix(path, n)
  <1>1. n \in 0 .. Len(path) /\ n - 1 \in 0 .. n /\ n # 0
    OBVIOUS
  <1>2. q \in Seq(S) /\ Len(q) = n /\ q[n] = path[n] /\ Prefix(q, n - 1) = Prefix(path, n - 1)
    BY <1>1, PrefixOfPath
  <1>3. InodeIn(k, q) # Nothing
    BY <1>1, WayLeads
  <1> HIDE DEF q
  <1>4. InodeIn(k, q) = Sub(k, InodeIn(k, Prefix(q, n - 1)), q[n])
    BY <1>1, <1>2, InodeOfChild
  <1> QED BY <1>2, <1>3, <1>4 DEF Sub

-----------------------------------------------------------------------------
(* The rules *)

LEMMA PlaceOnWay ==
  ASSUME NEW k, NEW stk, NEW r
  PROVE  r \in OnWay(k, stk) <=>
           \E n \in 0 .. Len(stk) - 1 :
             /\ HasGitignore(k, stk[n + 1].ino)
             /\ \E l \in DOMAIN GitignoreLines(k, stk[n + 1].ino) : r = <<n, l>>
  BY DEF OnWay

\* A place that was read.
IsRead(k, stk, at, ln, n, l) ==
  /\ n \in 0 .. Len(stk) - 1
  /\ HasGitignore(k, stk[n + 1].ino) /\ l \in DOMAIN GitignoreLines(k, stk[n + 1].ino)
  /\ ~MakesNoRule(GitignoreLines(k, stk[n + 1].ino)[l])
  /\ n = Len(stk) - 1 => at # "ignore" /\ (at = "lines" => l < ln)

LEMMA PlaceRead ==
  ASSUME NEW k, NEW stk, NEW at, NEW ln, NEW r
  PROVE  r \in Read(k, stk, at, ln) <=> \E n, l : r = <<n, l>> /\ IsRead(k, stk, at, ln, n, l)
  <1>1. ASSUME r \in Read(k, stk, at, ln)
        PROVE  \E n, l : r = <<n, l>> /\ IsRead(k, stk, at, ln, n, l)
    <2>1. r \in OnWay(k, stk)
      BY <1>1 DEF Read
    <2>2. PICK n \in 0 .. Len(stk) - 1 :
             /\ HasGitignore(k, stk[n + 1].ino)
             /\ \E l \in DOMAIN GitignoreLines(k, stk[n + 1].ino) : r = <<n, l>>
      BY <2>1, PlaceOnWay
    <2>3. PICK l \in DOMAIN GitignoreLines(k, stk[n + 1].ino) : r = <<n, l>>
      BY <2>2
    <2>4. r[1] = n /\ r[2] = l
      BY <2>3
    <2>5. /\ ~MakesNoRule(GitignoreLines(k, stk[r[1] + 1].ino)[r[2]])
          /\ r[1] = Len(stk) - 1 => at # "ignore" /\ (at = "lines" => r[2] < ln)
      BY <1>1 DEF Read
    <2>6. IsRead(k, stk, at, ln, n, l)
      BY <2>2, <2>3, <2>4, <2>5 DEF IsRead
    <2> QED BY <2>3, <2>6
  <1>2. ASSUME NEW n, NEW l, r = <<n, l>>, IsRead(k, stk, at, ln, n, l)
        PROVE  r \in Read(k, stk, at, ln)
    <2>1. r[1] = n /\ r[2] = l
      BY <1>2
    <2>2. r \in OnWay(k, stk)
      BY <1>2, PlaceOnWay DEF IsRead
    <2> QED BY <1>2, <2>1, <2>2 DEF Read, IsRead
  <1> QED BY <1>1, <1>2

\* What a tree may hold.
LEMMA KidsAreInodes ==
  ASSUME NEW t, IsTree(t), NEW i \in DOMAIN t.kind, NEW n \in DOMAIN t.kids[i]
  PROVE  n \in Names /\ t.kids[i][n] \in DOMAIN t.kind /\ t.kids[i][n] # Nothing
  BY DEF IsTree

LEMMA LinesOfIgnore ==
  ASSUME NEW k, IsTree(Trees[k]), NEW dir \in DOMAIN Trees[k].kind, HasGitignore(k, dir)
  PROVE  GitignoreLines(k, dir) \in Seq(Line)
  <1>1. Trees[k].kids[dir][".gitignore"] \in DOMAIN Trees[k].kind
    BY DEF HasGitignore, IsTree
  <1> QED BY <1>1 DEF GitignoreLines, IsTree, Line

LEMMA PlacesAreNumbers ==
  ASSUME NEW k, IsTree(Trees[k]), NEW stk, NEW at, NEW ln,
         \A i \in 1 .. Len(stk) : stk[i].ino \in DOMAIN Trees[k].kind, Len(stk) \in Nat
  PROVE  /\ \A n, l : IsRead(k, stk, at, ln, n, l) => n \in Nat /\ l \in Nat \ {0}
         /\ Read(k, stk, at, ln) \subseteq Nat \X Nat
  <1>1. ASSUME NEW n, NEW l, IsRead(k, stk, at, ln, n, l) PROVE n \in Nat /\ l \in Nat \ {0}
    <2>1. n \in 0 .. Len(stk) - 1 /\ n + 1 \in 1 .. Len(stk)
      BY <1>1 DEF IsRead
    <2>2. HasGitignore(k, stk[n + 1].ino) /\ l \in DOMAIN GitignoreLines(k, stk[n + 1].ino)
      BY <1>1 DEF IsRead
    <2>3. GitignoreLines(k, stk[n + 1].ino) \in Seq(Line)
      BY <2>1, <2>2, LinesOfIgnore
    <2> QED BY <2>1, <2>2, <2>3
  <1>2. ASSUME NEW r \in Read(k, stk, at, ln) PROVE r \in Nat \X Nat
    <2>1. PICK n, l : r = <<n, l>> /\ IsRead(k, stk, at, ln, n, l)
      BY PlaceRead
    <2> QED BY <1>1, <2>1
  <1> QED BY <1>1, <1>2

\* While the names of a directory are read, the rules read are those that
\* concern the path in hand.
LEMMA ReadIsForPath ==
  ASSUME NEW k, NEW stk, NEW path, NEW ln, Len(path) = Len(stk), Len(stk) \in Nat,
         \A i \in 1 .. Len(stk) : stk[i].rel = Prefix(path, i - 1) /\ stk[i].ino = InodeIn(k, stk[i].rel)
  PROVE  /\ Read(k, stk, "read", ln) = RulesFor(k, path)
         /\ \A r \in RulesFor(k, path) : RuleOn(k, stk, r) = RuleAt(k, path, r)
  <1>1. ASSUME NEW n \in 0 .. Len(stk) - 1
        PROVE  /\ stk[n + 1].rel = Prefix(path, n)
               /\ GitignoreLines(k, stk[n + 1].ino) = LinesAt(k, path, n)
               /\ HasGitignore(k, stk[n + 1].ino) <=> HasRulesAt(k, path, n)
    <2>1. n + 1 \in 1 .. Len(stk) /\ (n + 1) - 1 = n
      OBVIOUS
    <2>2. stk[n + 1].rel = Prefix(path, n) /\ stk[n + 1].ino = InodeIn(k, Prefix(path, n))
      BY <2>1
    <2> QED BY <2>2 DEF LinesAt, HasRulesAt
  <1>2. ASSUME NEW r PROVE r \in RulePlaces(k, path) <=>
                             \E n \in 0 .. Len(path) - 1 :
                               HasRulesAt(k, path, n) /\ \E l \in DOMAIN LinesAt(k, path, n) : r = <<n, l>>
    BY DEF RulePlaces
  <1>3. ASSUME NEW r PROVE r \in RulePlaces(k, path) <=> r \in OnWay(k, stk)
    BY <1>1, <1>2, PlaceOnWay, SMTT(30)
  <1>4. ASSUME NEW r \in OnWay(k, stk)
        PROVE  /\ r[1] \in 0 .. Len(stk) - 1
               /\ GitignoreLines(k, stk[r[1] + 1].ino) = LinesAt(k, path, r[1])
               /\ stk[r[1] + 1].rel = Prefix(path, r[1])
    <2>1. PICK n \in 0 .. Len(stk) - 1 : \E l \in DOMAIN GitignoreLines(k, stk[n + 1].ino) : r = <<n, l>>
      BY PlaceOnWay
    <2>2. r[1] = n
      BY <2>1
    <2> QED BY <1>1, <2>2
  <1>5. ASSUME NEW r PROVE r \in Read(k, stk, "read", ln) <=> r \in RulesFor(k, path)
    BY <1>3, <1>4 DEF Read, RulesFor
  <1>6. ASSUME NEW r \in RulesFor(k, path) PROVE RuleOn(k, stk, r) = RuleAt(k, path, r)
    <2>1. r \in OnWay(k, stk)
      BY <1>3 DEF RulesFor
    <2> QED BY <1>4, <2>1 DEF RuleOn, RuleAt
  <1> QED BY <1>5, <1>6

LEMMA LaterIsStrict ==
  ASSUME NEW r \in Nat \X Nat, NEW s \in Nat \X Nat
  PROVE  ~(Later(r, s) /\ Later(s, r)) /\ ~Later(r, r)
  <1>1. r[1] \in Nat /\ r[2] \in Nat /\ s[1] \in Nat /\ s[2] \in Nat
    OBVIOUS
  <1> QED BY <1>1 DEF Later

\* The last rule that matches decides as the rule does that no other overrides.
LEMMA IgnoredIsExcluded ==
  ASSUME NEW k, NEW stk, NEW path, NEW rls, NEW places, AreThose(places, k, stk, rls),
         places = RulesFor(k, path), places \subseteq Nat \X Nat, Len(rls) \in Nat, DOMAIN rls = 1 .. Len(rls),
         \A r \in RulesFor(k, path) : RuleOn(k, stk, r) = RuleAt(k, path, r),
         NEW isDir, isDir = (KindAt(k, path) = "dir")
  PROVE  IsPathIgnored(rls, path, isDir) <=> Excluded(k, path)
  <1> DEFINE M == {i \in 1 .. Len(rls) : MatchRule(rls[i], path, isDir)}
             max == Max(M)
  <1>1. PICK num \in [1 .. Len(rls) -> places] : Numbers(num, places, k, stk, rls)
    BY DEF AreThose
  <1>2. \A i \in 1 .. Len(rls) : /\ num[i] \in places /\ num[i] \in Nat \X Nat
                                 /\ rls[i] = RuleAt(k, path, num[i])
    BY <1>1 DEF Numbers
  <1>3. IsPathIgnored(rls, path, isDir) <=> M # {} /\ ~rls[max].negated
    BY DEF IsPathIgnored
  <1>4. \A i \in 1 .. Len(rls) : i \in M <=> num[i] \in Matching(k, path)
    BY <1>2 DEF Matching
  <1>5. \A r \in Matching(k, path) : \E i \in M : num[i] = r
    <2>1. SUFFICES ASSUME NEW r \in Matching(k, path) PROVE \E i \in M : num[i] = r
      OBVIOUS
    <2>2. r \in places
      BY DEF Matching
    <2>3. PICK i \in 1 .. Len(rls) : num[i] = r
      BY <1>1, <2>2 DEF Numbers
    <2> QED BY <1>4, <2>3
  <1>6. M \subseteq 1 .. Len(rls)
    OBVIOUS
  <1> HIDE DEF M
  <1>7. M # {} => max \in M /\ \A i \in M : i <= max
    BY <1>6, GreatestBelow
  <1> HIDE DEF max
  <1>8. \A i, j \in 1 .. Len(rls) : i < j => Later(num[j], num[i])
    BY <1>1 DEF Numbers
  <1>9. ASSUME M # {}, ~rls[max].negated PROVE Excluded(k, path)
    <2>1. max \in M /\ max \in 1 .. Len(rls) /\ \A i \in M : i <= max
      BY <1>6, <1>7, <1>9
    <2>2. num[max] \in Matching(k, path) /\ ~RuleAt(k, path, num[max]).negated
      BY <1>2, <1>4, <1>9, <2>1
    <2>3. ASSUME NEW s \in Matching(k, path) PROVE ~Later(s, num[max])
      <3>1. PICK i \in M : num[i] = s
        BY <1>5
      <3>2. i \in 1 .. Len(rls) /\ i <= max
        BY <1>6, <2>1
      <3>3. CASE i = max
        BY <1>2, <2>1, <3>1, <3>3, LaterIsStrict
      <3>4. CASE i # max
        <4>1. i < max
          BY <2>1, <3>2, <3>4
        <4>2. Later(num[max], num[i])
          BY <1>8, <2>1, <3>2, <4>1
        <4> QED BY <1>2, <2>1, <3>1, <3>2, <4>2, LaterIsStrict
      <3> QED BY <3>3, <3>4
    <2> QED BY <2>2, <2>3 DEF Excluded
  <1>10. ASSUME Excluded(k, path) PROVE M # {} /\ ~rls[max].negated
    <2>1. PICK r \in Matching(k, path) :
             ~RuleAt(k, path, r).negated /\ \A s \in Matching(k, path) : ~Later(s, r)
      BY <1>10 DEF Excluded
    <2>2. PICK i \in M : num[i] = r
      BY <1>5
    <2>3. max \in M /\ max \in 1 .. Len(rls) /\ i \in 1 .. Len(rls) /\ i <= max
      BY <1>6, <1>7
    <2>4. ~(i < max)
      BY <1>4, <1>8, <2>1, <2>2, <2>3
    <2>5. i = max
      BY <2>3, <2>4
    <2> QED BY <1>2, <2>1, <2>2, <2>3, <2>5
  <1> QED BY <1>3, <1>9, <1>10

\* The rules stay those of the places read while these stay the same.
LEMMA RulesKept ==
  ASSUME NEW k, NEW stk, NEW at, NEW ln, NEW stk2, NEW at2, NEW ln2, NEW rls,
         AreThose(Read(k, stk, at, ln), k, stk, rls),
         \A n, l : IsRead(k, stk, at, ln, n, l) <=> IsRead(k, stk2, at2, ln2, n, l),
         \A n, l : IsRead(k, stk, at, ln, n, l) =>
                     stk2[n + 1].ino = stk[n + 1].ino /\ stk2[n + 1].rel = stk[n + 1].rel
  PROVE  AreThose(Read(k, stk2, at2, ln2), k, stk2, rls)
  <1> DEFINE P == Read(k, stk, at, ln)
             Q == Read(k, stk2, at2, ln2)
  <1>1. ASSUME NEW r PROVE r \in P <=> r \in Q
    BY PlaceRead
  <1>2. P = Q
    <2> HIDE DEF P, Q
    <2> QED BY <1>1
  <1>3. ASSUME NEW r \in P PROVE RuleOn(k, stk2, r) = RuleOn(k, stk, r)
    <2>1. PICK n, l : r = <<n, l>> /\ IsRead(k, stk, at, ln, n, l)
      BY PlaceRead
    <2>2. r[1] = n
      BY <2>1
    <2> QED BY <2>1, <2>2 DEF RuleOn
  <1>4. PICK num \in [1 .. Len(rls) -> P] : Numbers(num, P, k, stk, rls)
    BY DEF AreThose
  <1> HIDE DEF P, Q
  <1>5. Numbers(num, P, k, stk2, rls)
    BY <1>3, <1>4 DEF Numbers
  <1> QED BY <1>2, <1>4, <1>5 DEF AreThose, Q

\* A line that makes a rule.
LEMMA RulesGrow ==
  ASSUME NEW k, IsTree(Trees[k]), NEW stk, Len(stk) \in Nat \ {0},
         \A i \in 1 .. Len(stk) : stk[i].ino \in DOMAIN Trees[k].kind,
         NEW ln \in Nat \ {0}, NEW R, NEW rls \in Seq(R),
         AreThose(Read(k, stk, "lines", ln), k, stk, rls),
         HasGitignore(k, stk[Len(stk)].ino), ln \in DOMAIN GitignoreLines(k, stk[Len(stk)].ino),
         ~MakesNoRule(GitignoreLines(k, stk[Len(stk)].ino)[ln]),
         NEW rule \in R, rule = RuleOn(k, stk, <<Len(stk) - 1, ln>>)
  PROVE  AreThose(Read(k, stk, "lines", ln + 1), k, stk, Append(rls, rule))
  <1> DEFINE P == Read(k, stk, "lines", ln)
             Q == Read(k, stk, "lines", ln + 1)
             new == <<Len(stk) - 1, ln>>
             m == Len(rls)
             rls2 == Append(rls, rule)
  <1>1. IsRead(k, stk, "lines", ln + 1, Len(stk) - 1, ln)
    BY DEF IsRead
  <1>2. new \in Q
    BY <1>1, PlaceRead
  <1>3. ASSUME NEW r \in Q, r # new PROVE r \in P
    <2>1. PICK n, l : r = <<n, l>> /\ IsRead(k, stk, "lines", ln + 1, n, l)
      BY <1>3, PlaceRead
    <2>2. n \in Nat /\ l \in Nat \ {0}
      BY <2>1, PlacesAreNumbers
    <2>3. n = Len(stk) - 1 => l < ln
      BY <1>3, <2>1, <2>2 DEF IsRead
    <2>4. IsRead(k, stk, "lines", ln, n, l)
      BY <2>1, <2>3 DEF IsRead
    <2> QED BY <2>1, <2>4, PlaceRead
  <1>4. ASSUME NEW r \in P PROVE r \in Q /\ Later(new, r)
    <2>1. PICK n, l : r = <<n, l>> /\ IsRead(k, stk, "lines", ln, n, l)
      BY <1>4, PlaceRead
    <2>2. n \in Nat /\ l \in Nat \ {0} /\ n \in 0 .. Len(stk) - 1 /\ r[1] = n /\ r[2] = l
      BY <2>1, PlacesAreNumbers, ZenonT(60) DEF IsRead
    <2>3. n = Len(stk) - 1 => l < ln
      BY <2>1 DEF IsRead
    <2>4. IsRead(k, stk, "lines", ln + 1, n, l)
      BY <2>1, <2>2, <2>3 DEF IsRead
    <2>5. Len(stk) - 1 > n \/ (Len(stk) - 1 = n /\ ln > l)
      BY <2>2, <2>3
    <2>6. new[1] = Len(stk) - 1 /\ new[2] = ln
      OBVIOUS
    <2>7. Later(new, r)
      BY <2>2, <2>5, <2>6 DEF Later
    <2> QED BY <2>1, <2>4, <2>7, PlaceRead
  <1>5. PICK num \in [1 .. m -> P] : Numbers(num, P, k, stk, rls)
    BY DEF AreThose
  <1> DEFINE num2 == [i \in 1 .. m + 1 |-> IF i = m + 1 THEN new ELSE num[i]]
  <1>6. Len(rls2) = m + 1 /\ rls2[m + 1] = rule /\ \A i \in 1 .. m : rls2[i] = rls[i]
    BY Longer
  <1>7. m \in Nat
    OBVIOUS
  <1>8. num2[m + 1] = new /\ \A i \in 1 .. m : num2[i] = num[i] /\ num[i] \in P
    <2>1. m + 1 \in 1 .. m + 1 /\ \A i \in 1 .. m : i \in 1 .. m + 1 /\ i # m + 1
      BY <1>7
    <2> HIDE DEF m, new, P
    <2> QED BY <1>5, <2>1
  <1>9. rule = RuleOn(k, stk, new)
    OBVIOUS
  <1>10. num2 = [i \in 1 .. m + 1 |-> num2[i]]
    OBVIOUS
  <1> HIDE DEF P, Q, new, m, num2, rls2
  <1>11. \A i \in 1 .. m + 1 : i = m + 1 \/ i \in 1 .. m
    BY <1>7
  <1>12. \A i \in 1 .. m + 1 : num2[i] \in Q
    BY <1>2, <1>4, <1>8, <1>11
  <1>13. num2 \in [1 .. m + 1 -> Q]
    BY <1>10, <1>12
  <1>14. ASSUME NEW r \in Q PROVE \E i \in 1 .. m + 1 : num2[i] = r
    <2>1. CASE r = new
      BY <1>7, <1>8, <2>1
    <2>2. CASE r # new
      <3>1. PICK i \in 1 .. m : num[i] = r
        BY <1>3, <1>5, <2>2 DEF Numbers, m
      <3>2. i \in 1 .. m + 1
        BY <1>7
      <3> QED BY <1>8, <3>1, <3>2
    <2> QED BY <2>1, <2>2
  <1>15. ASSUME NEW i \in 1 .. m + 1, NEW j \in 1 .. m + 1, i < j PROVE Later(num2[j], num2[i])
    <2>1. i \in 1 .. m
      BY <1>7, <1>15
    <2>2. CASE j = m + 1
      BY <1>4, <1>8, <2>1, <2>2
    <2>3. CASE j # m + 1
      <3>1. j \in 1 .. m
        BY <1>7, <2>3
      <3>2. Later(num[j], num[i])
        BY <1>5, <1>15, <2>1, <3>1 DEF Numbers, m
      <3> QED BY <1>8, <2>1, <3>1, <3>2
    <2> QED BY <2>2, <2>3
  <1>16. ASSUME NEW i \in 1 .. m + 1 PROVE rls2[i] = RuleOn(k, stk, num2[i])
    <2>1. CASE i = m + 1
      BY <1>6, <1>8, <1>9, <2>1
    <2>2. CASE i # m + 1
      <3>1. i \in 1 .. m
        BY <1>7, <2>2
      <3>2. rls[i] = RuleOn(k, stk, num[i])
        BY <1>5, <3>1 DEF Numbers, m
      <3> QED BY <1>6, <1>8, <3>1, <3>2
    <2> QED BY <2>1, <2>2
  <1>17. Numbers(num2, Q, k, stk, rls2)
    BY <1>6, <1>13, <1>14, <1>15, <1>16 DEF Numbers
  <1> QED BY <1>6, <1>13, <1>17 DEF AreThose, Q, rls2

\* The rules of the innermost directory are popped with it.
LEMMA RulesShrink ==
  ASSUME NEW k, IsTree(Trees[k]), NEW F, NEW stk \in Seq(F), stk # << >>,
         \A i \in 1 .. Len(stk) : stk[i].ino \in DOMAIN Trees[k].kind,
         NEW ln, NEW ln2, NEW R, NEW rls \in Seq(R),
         AreThose(Read(k, stk, "read", ln), k, stk, rls),
         NEW m \in 0 .. Len(rls), \A i \in m + 1 .. Len(rls) : rls[i].depth = Len(stk) - 1,
         m > 0 => rls[m].depth # Len(stk) - 1,
         NEW stk2, stk2 = SubSeq(stk, 1, Len(stk) - 1), NEW rls2, rls2 = SubSeq(rls, 1, m)
  PROVE  AreThose(Read(k, stk2, "return", ln2), k, stk2, rls2)
  <1> DEFINE P == Read(k, stk, "read", ln)
             Q == Read(k, stk2, "return", ln2)
             d == Len(stk) - 1
  <1>1. Len(stk) \in Nat \ {0} /\ d \in Nat /\ d \in 0 .. Len(stk)
    OBVIOUS
  <1>2. Len(stk2) = d /\ \A i \in 1 .. d : stk2[i] = stk[i]
    <2>1. PICK e \in 0 .. Len(stk) : e = d
      BY <1>1
    <2>2. stk2 = SubSeq(stk, 1, e)
      BY <2>1
    <2>3. Len(stk2) = e /\ \A i \in 1 .. e : stk2[i] = stk[i]
      BY <2>2, Shorter
    <2> QED BY <2>1, <2>3
  <1>3. Len(rls2) = m /\ \A i \in 1 .. m : rls2[i] = rls[i]
    BY Shorter
  <1>4. \A n, l : IsRead(k, stk, "read", ln, n, l) => n \in Nat /\ l \in Nat \ {0} /\ n <= d
    <2>1. \A n, l : IsRead(k, stk, "read", ln, n, l) => n \in Nat /\ l \in Nat \ {0}
      BY <1>1, PlacesAreNumbers
    <2>2. \A n, l : IsRead(k, stk, "read", ln, n, l) => n \in 0 .. Len(stk) - 1
      BY DEF IsRead
    <2> QED BY <2>1, <2>2
  <1>5. \A n, l : IsRead(k, stk2, "return", ln2, n, l) <=> IsRead(k, stk, "read", ln, n, l) /\ n < d
    <2>1. SUFFICES ASSUME NEW n, NEW l
                   PROVE IsRead(k, stk2, "return", ln2, n, l) <=> IsRead(k, stk, "read", ln, n, l) /\ n < d
      OBVIOUS
    <2>2. n \in 0 .. d - 1 => n \in 0 .. Len(stk) - 1 /\ n + 1 \in 1 .. d
      BY <1>1
    <2>3. n \in 0 .. Len(stk) - 1 /\ n < d => n \in 0 .. d - 1
      BY <1>1
    <2>4. n \in 0 .. d - 1 => stk2[n + 1].ino = stk[n + 1].ino /\ n < d
      BY <1>1, <1>2, <2>2
    <2> HIDE DEF d
    <2> QED BY <1>2, <2>2, <2>3, <2>4 DEF IsRead
  <1>6. ASSUME NEW r \in P PROVE r[1] \in Nat /\ r[2] \in Nat /\ r[1] <= d /\ (r \in Q <=> r[1] < d)
    <2>1. PICK n, l : r = <<n, l>> /\ IsRead(k, stk, "read", ln, n, l)
      BY PlaceRead
    <2>2. r[1] = n /\ r[2] = l
      BY <2>1
    <2>3. \A a, c : r = <<a, c>> => a = n /\ c = l
      BY <2>1
    <2>4. r \in Q <=> \E a, c : r = <<a, c>> /\ IsRead(k, stk2, "return", ln2, a, c)
      BY PlaceRead
    <2> QED BY <1>4, <1>5, <2>1, <2>2, <2>3, <2>4
  <1>7. ASSUME NEW r \in Q PROVE r \in P
    <2>1. PICK n, l : r = <<n, l>> /\ IsRead(k, stk2, "return", ln2, n, l)
      BY PlaceRead
    <2> QED BY <1>5, <2>1, PlaceRead
  <1>8. PICK num \in [1 .. Len(rls) -> P] : Numbers(num, P, k, stk, rls)
    BY DEF AreThose
  <1>9. Len(rls) \in Nat
    OBVIOUS
  <1> HIDE DEF P, Q, d
  <1>10. \A i \in 1 .. Len(rls) : num[i] \in P /\ rls[i].depth = num[i][1]
    <2>1. SUFFICES ASSUME NEW i \in 1 .. Len(rls) PROVE num[i] \in P /\ rls[i].depth = num[i][1]
      OBVIOUS
    <2>2. num[i] \in P
      BY <1>8
    <2>3. rls[i] = RuleOn(k, stk, num[i])
      BY <1>8 DEF Numbers
    <2>4. \A r : RuleOn(k, stk, r).depth = r[1]
      BY DEF RuleOn, RuleOf
    <2> QED BY <2>2, <2>3, <2>4
  <1>11. ASSUME NEW i \in 1 .. m PROVE i \in 1 .. Len(rls) /\ num[i] \in Q
    <2>1. i \in 1 .. Len(rls) /\ m \in 1 .. Len(rls) /\ m > 0
      BY <1>9
    <2>2. num[m][1] < d
      <3>1. num[m] \in P /\ num[m][1] # d
        BY <1>10, <2>1 DEF d
      <3>2. num[m][1] \in Nat /\ num[m][1] <= d
        BY <1>6, <3>1
      <3> QED BY <1>1, <3>1, <3>2
    <2>3. num[i] \in P /\ num[i][1] \in Nat /\ num[m] \in P /\ num[m][1] \in Nat
      BY <1>6, <1>10, <2>1
    <2>4. num[i][1] < d
      <3>1. CASE i = m
        BY <2>2, <3>1
      <3>2. CASE i # m
        <4>1. i < m
          BY <1>9, <3>2
        <4>2. Later(num[m], num[i])
          BY <1>8, <2>1, <4>1 DEF Numbers
        <4>3. num[m][1] >= num[i][1]
          BY <2>3, <4>2 DEF Later
        <4> QED BY <1>1, <2>2, <2>3, <4>3
      <3> QED BY <3>1, <3>2
    <2> QED BY <1>6, <2>1, <2>3, <2>4
  <1>12. ASSUME NEW r \in Q PROVE \E i \in 1 .. m : num[i] = r
    <2>1. r \in P
      BY <1>7
    <2>2. PICK i \in 1 .. Len(rls) : num[i] = r
      BY <1>8, <2>1 DEF Numbers
    <2>3. r[1] < d /\ r[1] \in Nat
      BY <1>6, <2>1
    <2>4. ~(i \in m + 1 .. Len(rls))
      BY <1>1, <1>10, <2>2, <2>3 DEF d
    <2>5. i \in 1 .. m
      BY <1>9, <2>4
    <2> QED BY <2>2, <2>5
  <1> DEFINE num2 == [i \in 1 .. m |-> num[i]]
  <1>13. num2 \in [1 .. m -> Q] /\ \A i \in 1 .. m : num2[i] = num[i]
    BY <1>11
  <1> HIDE DEF num2
  <1>14. ASSUME NEW i \in 1 .. m PROVE rls2[i] = RuleOn(k, stk2, num2[i])
    <2>1. num[i] \in Q /\ num[i] \in P /\ i \in 1 .. Len(rls)
      BY <1>10, <1>11
    <2>2. num[i][1] + 1 \in 1 .. d
      BY <1>1, <1>6, <2>1
    <2>3. rls[i] = RuleOn(k, stk, num[i])
      BY <1>8, <2>1 DEF Numbers
    <2> QED BY <1>2, <1>3, <1>13, <2>2, <2>3 DEF RuleOn
  <1>15. \A i, j \in 1 .. m : i < j => Later(num2[j], num2[i])
    BY <1>8, <1>11, <1>13 DEF Numbers
  <1>16. \A r \in Q : \E i \in 1 .. m : num2[i] = r
    BY <1>12, <1>13
  <1>17. Numbers(num2, Q, k, stk2, rls2)
    BY <1>3, <1>13, <1>14, <1>15, <1>16 DEF Numbers
  <1> QED BY <1>3, <1>13, <1>17 DEF AreThose, Q

-----------------------------------------------------------------------------
(* What is to come *)

AheadOf(stk, path) == \E i \in 1 .. Len(stk) : Ahead(stk[i], i, path)

LEMMA AwaitedBy ==
  ASSUME NEW at, NEW stk, NEW c, NEW path
  PROVE  /\ at \notin {"args", "trim", "enter", "open", "hash", "add", "ignore"} =>
              (Awaited(at, stk, c, path) <=> AheadOf(stk, path))
         /\ at \in {"enter", "open", "hash", "add"} =>
              (Awaited(at, stk, c, path) <=> IsPrefix(c.rel, path) \/ AheadOf(stk, path))
         /\ at = "ignore" =>
              (Awaited(at, stk, c, path) <=> path = stk[Len(stk)].rel \/ AheadOf(stk, path))
         /\ at \in {"args", "trim"} => Awaited(at, stk, c, path)
  BY DEF Awaited, AheadOf

LEMMA PopAhead ==
  ASSUME NEW stk, NEW s, Len(stk) \in Nat \ {0}, Len(s) = Len(stk) - 1, \A i \in 1 .. Len(stk) - 1 : s[i] = stk[i],
         NEW path
  PROVE  /\ AheadOf(s, path) => AheadOf(stk, path)
         /\ stk[Len(stk)].left = {} /\ AheadOf(stk, path) => AheadOf(s, path)
  <1>1. ASSUME AheadOf(s, path) PROVE AheadOf(stk, path)
    <2>1. PICK i \in 1 .. Len(s) : Ahead(s[i], i, path)
      BY <1>1 DEF AheadOf
    <2>2. i \in 1 .. Len(stk) /\ s[i] = stk[i]
      OBVIOUS
    <2> QED BY <2>1, <2>2 DEF AheadOf
  <1>2. ASSUME stk[Len(stk)].left = {}, AheadOf(stk, path) PROVE AheadOf(s, path)
    <2>1. PICK i \in 1 .. Len(stk) : Ahead(stk[i], i, path)
      BY <1>2 DEF AheadOf
    <2>2. i # Len(stk)
      BY <1>2, <2>1 DEF Ahead
    <2>3. i \in 1 .. Len(s) /\ s[i] = stk[i]
      BY <2>2
    <2> QED BY <2>1, <2>3 DEF AheadOf
  <1> QED BY <1>1, <1>2

\* A name that is taken from the innermost activation.
Taken(s, stk, n) ==
  /\ Len(s) = Len(stk)
  /\ \A i \in 1 .. Len(stk) : s[i].ino = stk[i].ino /\ s[i].rel = stk[i].rel /\ s[i].len = stk[i].len
  /\ \A i \in 1 .. Len(stk) - 1 : s[i].left = stk[i].left
  /\ s[Len(stk)].left = stk[Len(stk)].left \ {n}

LEMMA TookIsTaken ==
  ASSUME Typed, stack # << >>, NEW n, Took(n)
  PROVE  Taken(stack', stack, n)
  <1> DEFINE last == Len(stack)
             f == [stack[last] EXCEPT !.left = @ \ {n}]
  <1>1. stack \in Seq(Frame) /\ last \in Nat \ {0} /\ stack[last] \in Frame
    BY TopIsFrame DEF Typed
  <1>2. /\ f.ino = stack[last].ino /\ f.rel = stack[last].rel /\ f.len = stack[last].len
        /\ f.left = stack[last].left \ {n}
    BY <1>1 DEF Frame
  <1>3. stack' = [stack EXCEPT ![last] = f]
    BY DEF Took
  <1> HIDE DEF f
  <1>4. Len(stack') = Len(stack) /\ \A i \in 1 .. Len(stack) : stack'[i] = IF i = last THEN f ELSE stack[i]
    BY <1>1, <1>3
  <1>5. last \in 1 .. Len(stack) /\ \A i \in 1 .. Len(stack) - 1 : i \in 1 .. Len(stack) /\ i # last
    BY <1>1
  <1> QED BY <1>2, <1>4, <1>5 DEF Taken

LEMMA TakenAhead ==
  ASSUME NEW stk, NEW s, NEW n, Len(stk) \in Nat \ {0}, Taken(s, stk, n), NEW top, top = stk[Len(stk)],
         top.rel \in Seq(Names), Len(top.rel) = Len(stk) - 1, n \in top.left, n \in Names,
         NEW q, q = Append(top.rel, n), NEW path \in Seq(Names)
  PROVE  /\ AheadOf(s, path) => AheadOf(stk, path)
         /\ AheadOf(stk, path) => AheadOf(s, path) \/ IsPrefix(q, path)
         /\ IsPrefix(q, path) => AheadOf(stk, path)
  <1>1. Len(s) = Len(stk) /\ \A i \in 1 .. Len(stk) : s[i].rel = stk[i].rel /\ s[i].left \subseteq stk[i].left
    <2>1. ASSUME NEW i \in 1 .. Len(stk) PROVE s[i].left \subseteq stk[i].left
      <3>1. CASE i = Len(stk)
        BY <3>1 DEF Taken
      <3>2. CASE i # Len(stk)
        <4>1. i \in 1 .. Len(stk) - 1
          BY <3>2
        <4> QED BY <4>1 DEF Taken
      <3> QED BY <3>1, <3>2
    <2> QED BY <2>1 DEF Taken
  <1>2. AheadOf(s, path) => AheadOf(stk, path)
    BY <1>1 DEF AheadOf, Ahead
  <1>3. q \in Seq(Names) /\ Len(q) = Len(stk) /\ q[Len(stk)] = n /\ Prefix(q, Len(stk) - 1) = top.rel
    <2>1. q \in Seq(Names) /\ Len(q) = Len(stk) /\ q[Len(stk)] = n
      OBVIOUS
    <2>2. SubSeq(q, 1, Len(top.rel)) = top.rel
      OBVIOUS
    <2> QED BY <2>1, <2>2 DEF Prefix
  <1>4. IsPrefix(q, path) <=> Len(stk) <= Len(path) /\ q = Prefix(path, Len(stk))
    BY <1>3, PrefixMeans
  <1>5. ASSUME Len(stk) <= Len(path)
        PROVE  q = Prefix(path, Len(stk)) <=> Prefix(path, Len(stk) - 1) = top.rel /\ path[Len(stk)] = n
    <2> DEFINE p == Prefix(path, Len(stk))
    <2>1. Len(stk) \in 0 .. Len(path) /\ Len(stk) \in 1 .. Len(stk) /\ Len(stk) - 1 \in 0 .. Len(stk)
      BY <1>5
    <2>2. p \in Seq(Names) /\ Len(p) = Len(stk) /\ p[Len(stk)] = path[Len(stk)]
          /\ Prefix(p, Len(stk) - 1) = Prefix(path, Len(stk) - 1)
      BY <2>1, PrefixOfPath
    <2> HIDE DEF p
    <2>3. q = p => Prefix(path, Len(stk) - 1) = top.rel /\ path[Len(stk)] = n
      BY <1>3, <2>2
    <2>4. ASSUME Prefix(path, Len(stk) - 1) = top.rel, path[Len(stk)] = n PROVE q = p
      <3>1. \A i \in 1 .. Len(stk) - 1 : p[i] = top.rel[i]
        <4>1. PICK m \in 0 .. Len(path) : m = Len(stk) - 1
          BY <2>1
        <4>2. \A i \in 1 .. m : Prefix(path, m)[i] = path[i]
          BY <4>1, PrefixOfPath
        <4>3. PICK l \in 0 .. Len(path) : l = Len(stk)
          BY <2>1
        <4>4. \A i \in 1 .. l : Prefix(path, l)[i] = path[i]
          BY <4>3, PrefixOfPath
        <4>5. \A i \in 1 .. Len(stk) - 1 : i \in 1 .. m /\ i \in 1 .. l
          BY <4>1, <4>3
        <4>6. p = Prefix(path, l) /\ Prefix(path, m) = top.rel
          BY <2>4, <4>1, <4>3 DEF p
        <4> QED BY <4>2, <4>4, <4>5, <4>6
      <3>2. \A i \in 1 .. Len(stk) - 1 : q[i] = top.rel[i]
        OBVIOUS
      <3>3. \A i \in 1 .. Len(stk) : q[i] = p[i]
        BY <1>3, <2>2, <2>4, <3>1, <3>2
      <3> QED BY <1>3, <2>2, <3>3
    <2> QED BY <2>3, <2>4 DEF p
  <1>6. ASSUME AheadOf(stk, path) PROVE AheadOf(s, path) \/ IsPrefix(q, path)
    <2>1. PICK i \in 1 .. Len(stk) : Ahead(stk[i], i, path)
      BY <1>6 DEF AheadOf
    <2>2. CASE i # Len(stk)
      <3>1. i \in 1 .. Len(stk) - 1 /\ i \in 1 .. Len(s)
        BY <1>1, <2>2
      <3>2. Ahead(s[i], i, path)
        BY <2>1, <3>1 DEF Taken, Ahead
      <3> QED BY <3>1, <3>2 DEF AheadOf
    <2>3. CASE i = Len(stk) /\ path[i] # n
      <3>1. Ahead(s[i], i, path)
        BY <2>1, <2>3 DEF Taken, Ahead
      <3> QED BY <1>1, <3>1 DEF AheadOf
    <2>4. CASE i = Len(stk) /\ path[i] = n
      BY <1>4, <1>5, <2>1, <2>4 DEF Ahead
    <2> QED BY <2>2, <2>3, <2>4
  <1>7. ASSUME IsPrefix(q, path) PROVE AheadOf(stk, path)
    <2>1. Len(stk) <= Len(path) /\ Prefix(path, Len(stk) - 1) = top.rel /\ path[Len(stk)] = n
      BY <1>4, <1>5, <1>7
    <2>2. Ahead(stk[Len(stk)], Len(stk), path) /\ Len(stk) \in 1 .. Len(stk)
      BY <2>1 DEF Ahead
    <2> QED BY <2>2 DEF AheadOf
  <1> QED BY <1>2, <1>6, <1>7

NamesIn(k, ino) == DOMAIN Trees[k].kids[ino]

\* An activation that begins at what was in hand.
LEMMA PushAhead ==
  ASSUME NEW k, NEW F, NEW stk \in Seq(F), NEW f \in F, NEW s, s = Append(stk, f),
         f.rel \in Seq(Names), Len(f.rel) = Len(stk), f.left = NamesIn(k, InodeIn(k, f.rel)),
         NEW path \in Seq(Names)
  PROVE  /\ AheadOf(s, path) => AheadOf(stk, path) \/ IsPrefix(f.rel, path)
         /\ AheadOf(stk, path) => AheadOf(s, path)
         /\ IsPrefix(f.rel, path) /\ InodeIn(k, path) # Nothing => path = f.rel \/ AheadOf(s, path)
  <1>1. Len(s) = Len(stk) + 1 /\ s[Len(stk) + 1] = f /\ \A i \in 1 .. Len(stk) : s[i] = stk[i]
    BY Longer
  <1>2. Len(stk) \in Nat
    OBVIOUS
  <1>3. ASSUME AheadOf(s, path) PROVE AheadOf(stk, path) \/ IsPrefix(f.rel, path)
    <2>1. PICK i \in 1 .. Len(s) : Ahead(s[i], i, path)
      BY <1>3 DEF AheadOf
    <2>2. CASE i = Len(s)
      <3>1. s[i] = f /\ i - 1 = Len(f.rel)
        BY <1>1, <1>2, <2>2
      <3>2. Len(f.rel) <= Len(path) /\ f.rel = Prefix(path, Len(f.rel))
        BY <1>1, <1>2, <2>1, <2>2, <3>1 DEF Ahead
      <3> QED BY <3>2, PrefixMeans
    <2>3. CASE i # Len(s)
      <3>1. i \in 1 .. Len(stk) /\ s[i] = stk[i]
        BY <1>1, <1>2, <2>3
      <3> QED BY <2>1, <3>1 DEF AheadOf
    <2> QED BY <2>2, <2>3
  <1>4. ASSUME AheadOf(stk, path) PROVE AheadOf(s, path)
    <2>1. PICK i \in 1 .. Len(stk) : Ahead(stk[i], i, path)
      BY <1>4 DEF AheadOf
    <2>2. i \in 1 .. Len(s) /\ s[i] = stk[i]
      BY <1>1, <1>2
    <2> QED BY <2>1, <2>2 DEF AheadOf
  <1>5. ASSUME IsPrefix(f.rel, path), InodeIn(k, path) # Nothing, path # f.rel PROVE AheadOf(s, path)
    <2> DEFINE i == Len(stk) + 1
    <2>1. Len(stk) <= Len(path) /\ f.rel = Prefix(path, Len(stk))
      BY <1>5, PrefixMeans
    <2>2. Len(path) # Len(stk)
      BY <1>5, <2>1, PrefixOfAll
    <2>3. i \in 1 .. Len(path) /\ i - 1 = Len(stk) /\ i \in 1 .. Len(s)
      BY <1>1, <1>2, <2>1, <2>2
    <2> HIDE DEF i
    <2>4. path[i] \in DOMAIN Trees[k].kids[InodeIn(k, Prefix(path, i - 1))]
      BY <1>5, <2>3, NextNameLeads
    <2>5. s[i] = f
      BY <1>1 DEF i
    <2>6. Ahead(s[i], i, path)
      BY <2>1, <2>3, <2>4, <2>5 DEF Ahead, NamesIn
    <2> QED BY <2>3, <2>6 DEF AheadOf
  <1> QED BY <1>3, <1>4, <1>5

-----------------------------------------------------------------------------
(* What is in hand during the walk *)

LEMMA PathsAre ==
  ASSUME NEW k \in DOMAIN Trees, NEW path
  PROVE  path \in PathsIn[k] <=>
           path \in Seq(Names) /\ Len(path) \in 1 .. MaxDepth /\ InodeIn(k, path) # Nothing
  <1> DEFINE All == UNION {[1 .. n -> Names] : n \in 1 .. MaxDepth}
  <1>1. MaxDepth \in Nat
    BY BoundsAssumption
  <1>2. ASSUME path \in All PROVE path \in Seq(Names) /\ Len(path) \in 1 .. MaxDepth
    <2>1. PICK n \in 1 .. MaxDepth : path \in [1 .. n -> Names]
      BY <1>2
    <2> QED BY <1>1, <2>1
  <1>3. ASSUME path \in Seq(Names), Len(path) \in 1 .. MaxDepth PROVE path \in All
    <2>1. path \in [1 .. Len(path) -> Names]
      BY <1>3
    <2> QED BY <1>3, <2>1
  <1>4. PathsIn[k] = {p \in All : InodeIn(k, p) # Nothing}
    BY DEF PathsIn
  <1> HIDE DEF All
  <1> QED BY <1>2, <1>3, <1>4

LEMMA OfTheWalk ==
  ASSUME Typed
  PROVE  /\ tree \in DOMAIN Trees /\ IsTree(Trees[tree]) /\ fs = Trees[tree] /\ Inodes = DOMAIN Trees[tree].kind
         /\ stack \in Seq(Frame) /\ Len(stack) \in Nat /\ (stack = << >> <=> Len(stack) = 0)
         /\ \A i \in 1 .. Len(stack) :
              /\ stack[i] \in Frame /\ stack[i].ino \in DOMAIN Trees[tree].kind /\ stack[i].ino # Nothing
              /\ stack[i].rel \in Seq(Names)
         /\ cand.rel \in Seq(Names) /\ cand.ino \in DOMAIN Trees[tree].kind /\ cand.ino # Nothing
         /\ cand.len < PathMax
  <1>1. tree \in DOMAIN Trees /\ IsTree(Trees[tree]) /\ fs = Trees[tree] /\ Inodes = DOMAIN Trees[tree].kind
    BY TreesAssumption DEF Typed, fs, Inodes
  <1>2. Nothing \notin DOMAIN Trees[tree].kind
    BY <1>1 DEF IsTree
  <1>3. stack \in Seq(Frame) /\ Len(stack) \in Nat /\ (stack = << >> <=> Len(stack) = 0)
    BY DEF Typed
  <1>4. \A i \in 1 .. Len(stack) : stack[i] \in Frame
    BY <1>3
  <1>5. cand \in Candidate /\ PathMax \in Nat
    BY BoundsAssumption DEF Typed
  <1> QED BY <1>1, <1>2, <1>3, <1>4, <1>5, SMTT(30) DEF Frame, Candidate

\* Something too deep, on a cycle or too long is beyond the limits.
LEMMA EnteringBeyond ==
  ASSUME IInv, WalkInv, pc = "enter", ~cut, TooDeep \/ Cyclic
  PROVE  BeyondLimits
  <1>1. /\ tree \in DOMAIN Trees /\ Len(stack) \in Nat /\ (stack = << >> <=> Len(stack) = 0)
        /\ cand.rel \in Seq(Names) /\ cand.ino # Nothing
    BY OfTheWalk DEF IInv
  <1>2. /\ Len(ancestors) = Len(stack) /\ Len(stack) <= MaxDepth
        /\ \A i \in 1 .. Len(stack) : stack[i].ino = ancestors[i]
    BY DEF IInv, FramesInStep
  <1>3. MaxDepth \in Nat \ {0}
    BY BoundsAssumption
  <1>4. Len(stack) # 0
    BY <1>1, <1>2, <1>3 DEF TooDeep, Cyclic
  <1>5. /\ Len(cand.rel) = Len(stack) /\ cand.ino = InodeIn(tree, cand.rel)
        /\ \A i \in 1 .. Len(stack) : stack[i].rel = Prefix(cand.rel, i - 1)
        /\ \A i \in 1 .. Len(stack) : stack[i].ino = InodeIn(tree, stack[i].rel)
    BY DEF WalkInv, OnPath, Hand, On, Frames
  <1>6. cand.rel \in PathsIn[tree]
    BY <1>1, <1>2, <1>3, <1>4, <1>5, PathsAre
  <1>7. WalkedDir(tree, cand.rel)
    BY <1>1, <1>4 DEF WalkInv, Rightly, IInv, Control
  <1>8. CASE TooDeep
    BY <1>2, <1>3, <1>5, <1>6, <1>7, <1>8 DEF TooDeep, BeyondLimits, Unwalkable
  <1>9. CASE Cyclic
    <2>1. PICK i \in 1 .. Len(stack) : ancestors[i] = cand.ino
      BY <1>2, <1>9 DEF Cyclic
    <2>2. i - 1 \in 0 .. Len(cand.rel) - 1 /\ InodeIn(tree, Prefix(cand.rel, i - 1)) = InodeIn(tree, cand.rel)
      BY <1>1, <1>2, <1>5, <2>1
    <2> QED BY <1>6, <1>7, <2>2 DEF BeyondLimits, Unwalkable
  <1> QED BY <1>8, <1>9

LEMMA IgnoringBeyond ==
  ASSUME IInv, WalkInv, pc = "ignore", ~cut, IgnoreTooLong
  PROVE  BeyondLimits
  <1>1. /\ tree \in DOMAIN Trees /\ Len(stack) \in Nat \ {0} /\ Len(stack) \in 1 .. Len(stack)
        /\ Top = stack[Len(stack)] /\ Top.rel \in Seq(Names) /\ Top.ino # Nothing
    BY OfTheWalk DEF IInv, Control, Inside, Top
  <1>2. /\ Len(Top.rel) = Len(stack) - 1 /\ Top.ino = InodeIn(tree, Top.rel)
        /\ Top.len = LenOnDisk(Len(walked), Top.rel)
    BY <1>1 DEF WalkInv, OnPath, Frames
  <1>3. CASE Len(stack) = 1
    <2>1. Top.rel = << >>
      BY <1>1, <1>2, <1>3
    <2> QED BY <1>2, <2>1, LengthOfRoot DEF IgnoreTooLong, BeyondLimits
  <1>4. CASE Len(stack) # 1
    <2>1. WalkedDir(tree, Top.rel)
      <3>1. ret = 0 /\ Len(stack) \in 2 .. Len(stack)
        <4>1. ret = 0
          BY DEF IInv, Control, Inside
        <4>2. \A l \in Nat \ {0} : l # 1 => l \in 2 .. l
          OBVIOUS
        <4> QED BY <1>1, <1>4, <4>1, <4>2
      <3>2. \A j \in 2 .. Len(stack) : WalkedDir(tree, stack[j].rel)
        BY <3>1 DEF WalkInv, Rightly
      <3> QED BY <1>1, <3>1, <3>2
    <2>2. Top.rel \in PathsIn[tree]
      BY <1>1, <1>2, <1>4, PathsAre, BoundsAssumption DEF IInv, FramesInStep
    <2> QED BY <1>2, <2>1, <2>2 DEF IgnoreTooLong, BeyondLimits, Unwalkable
  <1> QED BY <1>3, <1>4

\* A directory whose rules are read is within the limits.
LEMMA IgnoreSettles ==
  ASSUME IInv, WalkInv, pc = "ignore", ~IgnoreTooLong
  PROVE  /\ Settled(tree, Len(walked), entries, Top.rel)
         /\ Top.rel = << >> => Len(walked) + IgnoreLen < PathMax
  <1>1. /\ tree \in DOMAIN Trees /\ Len(stack) \in Nat \ {0} /\ Len(stack) \in 1 .. Len(stack)
        /\ Top = stack[Len(stack)] /\ Top.rel \in Seq(Names) /\ Top \in Frame
    BY OfTheWalk DEF IInv, Control, Inside, Top
  <1>2. /\ Len(Top.rel) = Len(stack) - 1 /\ Top.ino = InodeIn(tree, Top.rel)
        /\ Top.len = LenOnDisk(Len(walked), Top.rel) /\ Trees[tree].kind[Top.ino] = "dir"
        /\ \A i \in 1 .. Len(stack) - 1 : stack[i].rel = Prefix(Top.rel, i - 1)
    BY <1>1 DEF WalkInv, OnPath, Frames, On
  <1>3. /\ Len(stack) <= MaxDepth /\ MaxDepth \in Nat /\ PathMax \in Nat
        /\ \A i, j \in 1 .. Len(stack) : stack[i].ino = stack[j].ino => i = j
    BY BoundsAssumption DEF IInv, FramesInStep
  <1>4. Top.len \in Nat /\ Top.len < PathMax /\ Top.len + IgnoreLen < PathMax
    BY <1>1, <1>3 DEF Frame, IgnoreTooLong, IgnoreLen
  <1>5. ASSUME NEW n \in 0 .. Len(Top.rel) - 1 PROVE InodeIn(tree, Prefix(Top.rel, n)) # InodeIn(tree, Top.rel)
    <2>1. PICK i \in 1 .. Len(stack) - 1 : i - 1 = n
      BY <1>1, <1>2
    <2>2. i \in 1 .. Len(stack) /\ i # Len(stack)
      BY <1>1
    <2>3. stack[i].ino = InodeIn(tree, stack[i].rel)
      BY <2>2 DEF WalkInv, OnPath, Frames
    <2> QED BY <1>1, <1>2, <1>3, <2>1, <2>2, <2>3
  <1>6. ~Unwalkable(tree, Len(walked), Top.rel)
    <2>1. ~(Len(Top.rel) >= MaxDepth) /\ ~(LenOnDisk(Len(walked), Top.rel) + IgnoreLen >= PathMax)
      BY <1>1, <1>2, <1>3, <1>4 DEF IgnoreLen
    <2> QED BY <1>5, <2>1 DEF Unwalkable
  <1>7. ~Unnameable(tree, Len(walked), Top.rel)
    BY <1>2, <1>3, <1>4 DEF Unnameable
  <1>8. ~Listed(tree, Top.rel)
    BY <1>2 DEF Listed, KindAt
  <1>9. Top.rel = << >> => Len(walked) + IgnoreLen < PathMax
    BY <1>2, <1>4, LengthOfRoot
  <1> QED BY <1>6, <1>7, <1>8, <1>9 DEF Settled

\* A name that readdir() gives, and where it leads.
LEMMA ChildInHand ==
  ASSUME IInv, WalkInv, pc = "read", NEW n \in Top.left, NEW c, c = ChildOf(n)
  PROVE  /\ Len(c.rel) = Len(stack) /\ c.rel \in Seq(Names) /\ Len(stack) \in Nat \ {0}
         /\ c.rel[Len(stack)] = n /\ Prefix(c.rel, Len(stack) - 1) = Top.rel
         /\ c.ino = InodeIn(tree, c.rel) /\ c.len = LenOnDisk(Len(walked), c.rel)
         /\ c.ino \in DOMAIN Trees[tree].kind /\ c.rel \in PathsIn[tree]
         /\ KindAt(tree, c.rel) = fs.kind[c.ino]
         /\ n \in Names
         /\ \A i \in 1 .. Len(stack) - 1 : On(stack[i], i, c.rel)
  <1>1. /\ tree \in DOMAIN Trees /\ Len(stack) \in Nat \ {0} /\ Len(stack) \in 1 .. Len(stack)
        /\ Top = stack[Len(stack)] /\ Top.rel \in Seq(Names) /\ Top.ino # Nothing /\ Top \in Frame
        /\ fs = Trees[tree] /\ Inodes = DOMAIN Trees[tree].kind
    BY OfTheWalk DEF IInv, Control, Inside, Top
  <1>2. /\ c.ino \in Inodes /\ stack # << >>
        /\ n \in DOMAIN fs.kids[Top.ino]
    BY TopIsFrame, ChildIsCandidate DEF IInv, Control, Inside
  <1>3. n \in Names
    BY <1>1, <1>2, TreeIsTree DEF IInv, Frame
  <1>4. c.rel = Append(Top.rel, n) /\ c.ino = fs.kids[Top.ino][n] /\ c.len = Top.len + 1 + NameLen[n]
    BY DEF ChildOf
  <1>5. Frames(tree, Len(walked), stack)
    BY DEF WalkInv, OnPath
  <1>6. /\ Len(c.rel) = Len(stack) /\ c.rel \in Seq(Names)
        /\ c.rel[Len(stack)] = n /\ Prefix(c.rel, Len(stack) - 1) = Top.rel
        /\ c.ino = InodeIn(tree, c.rel) /\ c.len = LenOnDisk(Len(walked), c.rel)
        /\ \A i \in 1 .. Len(stack) - 1 : On(stack[i], i, c.rel)
    <2>1. Len(Top.rel) = Len(stack) - 1 /\ Top.ino = InodeIn(tree, Top.rel)
          /\ Top.len = LenOnDisk(Len(walked), Top.rel)
      BY <1>1, <1>5 DEF Frames
    <2>2. Len(c.rel) = Len(stack) /\ c.rel \in Seq(Names) /\ c.rel[Len(stack)] = n /\ Len(c.rel) # 0
      BY <1>1, <1>3, <1>4, <2>1
    <2>3. \A i \in 1 .. Len(stack) - 1 : c.rel[i] = Top.rel[i]
      BY <1>1, <1>3, <1>4, <2>1
    <2>4. Prefix(c.rel, Len(stack) - 1) = Top.rel
      BY <1>1, <1>3, <1>4, <2>1 DEF Prefix
    <2>5. c.ino = InodeIn(tree, c.rel)
      <3>1. InodeIn(tree, c.rel) = Sub(tree, InodeIn(tree, Top.rel), n)
        BY <2>2, <2>4, InodeOfChild
      <3> QED BY <1>1, <1>2, <1>4, <2>1, <3>1 DEF Sub
    <2>6. c.len = LenOnDisk(Len(walked), c.rel)
      <3>1. LenOnDisk(Len(walked), c.rel)
              = LenOnDisk(Len(walked), Prefix(c.rel, Len(c.rel) - 1)) + 1 + NameLen[c.rel[Len(c.rel)]]
        BY <2>2, LengthOfChild
      <3> QED BY <1>4, <2>1, <2>2, <2>4, <3>1
    <2>7. ASSUME NEW i \in 1 .. Len(stack) - 1 PROVE On(stack[i], i, c.rel)
      <3>1. On(stack[i], i, Top.rel)
        BY <1>1, <1>5 DEF Frames
      <3>2. c.rel[i] = Top.rel[i]
        BY <2>3
      <3>3. Prefix(c.rel, i - 1) = Prefix(Top.rel, i - 1)
        <4>1. Len(stack) - 1 \in 0 .. Len(c.rel) /\ i - 1 \in 0 .. Len(stack) - 1
          BY <1>1, <2>2
        <4>2. Prefix(Prefix(c.rel, Len(stack) - 1), i - 1) = Prefix(c.rel, i - 1)
          BY <2>2, <4>1, PrefixOfPath
        <4> QED BY <2>4, <4>2
      <3> QED BY <3>1, <3>2, <3>3 DEF On
    <2> QED BY <2>2, <2>4, <2>5, <2>6, <2>7
  <1>7. c.rel \in PathsIn[tree]
    <2>1. c.ino # Nothing
      BY <1>1, <1>2, OfTheWalk, TreesAssumption DEF IInv, IsTree
    <2>2. Len(stack) <= MaxDepth /\ MaxDepth \in Nat
      BY BoundsAssumption DEF IInv, FramesInStep
    <2>3. Len(c.rel) \in 1 .. MaxDepth
      BY <1>1, <1>6, <2>2
    <2> QED BY <1>1, <1>6, <2>1, <2>3, PathsAre
  <1> QED BY <1>1, <1>2, <1>3, <1>6, <1>7 DEF KindAt

\* What the rules say of it is what is said of its path.
LEMMA ChildIsIgnored ==
  ASSUME IInv, WalkInv, pc = "read", ~cut, NEW n \in Top.left, NEW c, c = ChildOf(n)
  PROVE  /\ n # ".git" => Reached(tree, c.rel)
         /\ IsPathIgnored(rules, c.rel, fs.kind[c.ino] = "dir") <=> Excluded(tree, c.rel)
  <1>1. /\ Len(c.rel) = Len(stack) /\ c.rel \in Seq(Names) /\ Len(stack) \in Nat \ {0}
        /\ c.rel[Len(stack)] = n /\ Prefix(c.rel, Len(stack) - 1) = Top.rel
        /\ KindAt(tree, c.rel) = fs.kind[c.ino]
        /\ \A i \in 1 .. Len(stack) - 1 : On(stack[i], i, c.rel)
    BY ChildInHand
  <1>2. ret = 0
    BY DEF IInv, Control, Inside
  <1>3. AreThose(Read(tree, stack, "read", line), tree, stack, rules)
    BY <1>2 DEF WalkInv, RulesRead
  <1>4. ASSUME NEW i \in 1 .. Len(stack)
        PROVE  stack[i].rel = Prefix(c.rel, i - 1) /\ stack[i].ino = InodeIn(tree, stack[i].rel)
    <2>1. stack[i].ino = InodeIn(tree, stack[i].rel)
      BY DEF WalkInv, OnPath, Frames
    <2>2. CASE i = Len(stack)
      BY <1>1, <2>1, <2>2 DEF Top
    <2>3. CASE i # Len(stack)
      <3>1. i \in 1 .. Len(stack) - 1
        BY <1>1, <2>3
      <3> QED BY <1>1, <2>1, <3>1 DEF On
    <2> QED BY <2>2, <2>3
  <1>5. /\ Read(tree, stack, "read", line) = RulesFor(tree, c.rel)
        /\ \A r \in RulesFor(tree, c.rel) : RuleOn(tree, stack, r) = RuleAt(tree, c.rel, r)
    BY <1>1, <1>4, ReadIsForPath
  <1>6. Read(tree, stack, "read", line) \subseteq Nat \X Nat
    BY <1>1, OfTheWalk, PlacesAreNumbers DEF IInv
  <1>7. Len(rules) \in Nat /\ DOMAIN rules = 1 .. Len(rules)
    BY DEF IInv, Typed
  <1>8. IsPathIgnored(rules, c.rel, fs.kind[c.ino] = "dir") <=> Excluded(tree, c.rel)
    <2> DEFINE isDir == fs.kind[c.ino] = "dir"
               places == RulesFor(tree, c.rel)
    <2>1. isDir = (KindAt(tree, c.rel) = "dir")
      BY <1>1
    <2>2. AreThose(places, tree, stack, rules) /\ places \subseteq Nat \X Nat
      BY <1>3, <1>5, <1>6
    <2> QED BY <1>5, <1>7, <2>1, <2>2, IgnoredIsExcluded
  <1>9. ASSUME n # ".git" PROVE Reached(tree, c.rel)
    <2>1. Len(c.rel) # 1 => WalkedDir(tree, Prefix(c.rel, Len(c.rel) - 1))
      <3>1. \A j \in 2 .. Len(stack) : WalkedDir(tree, stack[j].rel)
        BY <1>2 DEF WalkInv, Rightly
      <3>2. \A l \in Nat \ {0} : l # 1 => l \in 2 .. l
        OBVIOUS
      <3> QED BY <1>1, <3>1, <3>2 DEF Top
    <2>2. Len(c.rel) # 0 /\ c.rel[Len(c.rel)] # ".git"
      BY <1>1, <1>9
    <2> QED BY <1>1, <2>1, <2>2, ReachedChild
  <1> QED BY <1>8, <1>9

\* A name whose path is too long is beyond the limits.
LEMMA NamingBeyond ==
  ASSUME IInv, WalkInv, pc = "read", ~cut, NEW n \in Top.left, n # ".git", ChildOf(n).len >= PathMax
  PROVE  BeyondLimits
  <1> DEFINE c == ChildOf(n)
  <1>1. Reached(tree, c.rel)
    BY ChildIsIgnored
  <1>2. c.rel \in PathsIn[tree] /\ c.len = LenOnDisk(Len(walked), c.rel)
    BY ChildInHand
  <1> QED BY <1>1, <1>2 DEF BeyondLimits, Unnameable

\* A name that is passed over is nothing that should be in the list, and
\* there is nothing below it that should be.
LEMMA PassedOver ==
  ASSUME IInv, WalkInv, pc = "read", ~cut, NEW n \in Top.left, NEW c, c = ChildOf(n),
         Skipped(n) \/ (c.len < PathMax /\ fs.kind[c.ino] = "other"),
         NEW path \in Seq(Names), IsPrefix(c.rel, path)
  PROVE  Settled(tree, Len(walked), entries, path)
  <1>1. /\ Len(c.rel) = Len(stack) /\ c.rel \in Seq(Names) /\ Len(stack) \in Nat \ {0}
        /\ c.rel[Len(stack)] = n /\ c.len = LenOnDisk(Len(walked), c.rel)
        /\ KindAt(tree, c.rel) = fs.kind[c.ino]
    BY ChildInHand
  <1>2. CASE n = ".git"
    <2>1. Len(stack) \in 1 .. Len(c.rel)
      BY <1>1
    <2> QED BY <1>1, <1>2, <2>1, NotReachedGit
  <1>3. CASE n # ".git"
    <2>1. IsPathIgnored(rules, c.rel, fs.kind[c.ino] = "dir") <=> Excluded(tree, c.rel)
      BY ChildIsIgnored
    <2>2. /\ c.len < PathMax
          /\ \/ fs.kind[c.ino] = "link" \/ fs.kind[c.ino] = "other"
             \/ fs.kind[c.ino] = "dir" /\ IsPathIgnored(rules, c.rel, TRUE)
             \/ fs.kind[c.ino] = "file" /\ IsPathIgnored(rules, c.rel, FALSE)
      BY <1>3 DEF Skipped
    <2>3. /\ fs.kind[c.ino] = "dir" => Excluded(tree, c.rel)
          /\ fs.kind[c.ino] = "file" => Excluded(tree, c.rel)
      <3>1. CASE fs.kind[c.ino] = "dir"
        <4>1. (fs.kind[c.ino] = "dir") = TRUE
          BY <3>1
        <4>2. IsPathIgnored(rules, c.rel, TRUE)
          BY <2>2, <3>1
        <4> QED BY <2>1, <3>1, <4>1, <4>2
      <3>2. CASE fs.kind[c.ino] = "file"
        <4>1. (fs.kind[c.ino] = "dir") = FALSE
          BY <3>2
        <4>2. IsPathIgnored(rules, c.rel, FALSE)
          BY <2>2, <3>2
        <4> QED BY <2>1, <3>2, <4>1, <4>2
      <3> QED BY <3>1, <3>2
    <2>4. ~WalkedDir(tree, c.rel) /\ ~Listed(tree, c.rel)
      BY <1>1, <2>3 DEF WalkedDir, Listed
    <2>5. CASE path = c.rel
      <3>1. ~Unnameable(tree, Len(walked), path)
        <4>1. c.len \in Nat /\ PathMax \in Nat
          BY ChildIsCandidate, BoundsAssumption DEF IInv, Control, Inside
        <4> QED BY <1>1, <2>2, <2>5, <4>1 DEF Unnameable
      <3> QED BY <2>4, <2>5, <3>1 DEF Settled, Unwalkable
    <2>6. CASE path # c.rel
      <3>1. Len(c.rel) # 0
        BY <1>1
      <3> QED BY <1>1, <2>4, <2>6, <3>1, NotReachedBelow
    <2> QED BY <2>5, <2>6
  <1> QED BY <1>2, <1>3

-----------------------------------------------------------------------------
(* The steps *)

LEMMA SameLimits ==
  ASSUME tree' = tree, walked' = walked, argv' = argv
  PROVE  (BeyondLimits' <=> BeyondLimits) /\ (Informs' <=> Informs) /\ (OperandRefused' <=> OperandRefused)
  BY DEF BeyondLimits, Informs, OperandRefused, ArgumentsRefused, operand

\* An activation fails, or one that has not begun.
LEMMA WalkFails ==
  ASSUME IInv, WalkInv, tree' = tree, walked' = walked, argv' = argv, entries' = entries, status' = status,
         cut' = cut, pc \in {"enter", "return"} \cup Inside, ret' # 0, pc' = "return", rules' \in Seq(Rule),
         faults' \in 0 .. faults, ~cut => ret # 0 \/ faults' < faults \/ BeyondLimits,
         stack' = stack \/ (stack # << >> /\ stack' = SubSeq(stack, 1, Len(stack) - 1))
  PROVE  WalkInv'
  <1>1. /\ Inodes' = Inodes /\ (BeyondLimits' <=> BeyondLimits) /\ (Informs' <=> Informs)
        /\ (OperandRefused' <=> OperandRefused)
    BY SameTree, SameLimits
  <1>2. stack \in Seq(Frame) /\ Len(stack) \in Nat /\ (stack = << >> <=> Len(stack) = 0)
    BY OfTheWalk DEF IInv
  <1>3. pc \notin {"args", "trim", "done"} /\ status = -1
    BY DEF IInv, Control, Inside
  <1>4. OnPath'
    <2>1. Frames(tree, Len(walked), stack')
      BY <1>2, FramesPop DEF WalkInv, OnPath
    <2> QED BY <2>1 DEF OnPath
  <1>5. RulesRead' /\ Rightly' /\ NothingIsMissing'
    BY DEF RulesRead, Rightly, NothingIsMissing, Going
  <1>6. NothingIsAlien'
    <2>1. ASSUME NEW path, ToCome(path)' PROVE ToCome(path)
      <3>1. AheadOf(stack', path)
        BY <2>1, AwaitedBy DEF ToCome
      <3>2. AheadOf(stack, path)
        <4>1. CASE stack' = stack
          BY <3>1, <4>1
        <4>2. CASE stack # << >> /\ stack' = SubSeq(stack, 1, Len(stack) - 1)
          <5>1. PICK m \in 0 .. Len(stack) : m = Len(stack) - 1
            BY <1>2, <4>2
          <5>2. Len(stack') = m /\ \A i \in 1 .. m : stack'[i] = stack[i]
            BY <1>2, <4>2, <5>1, Shorter
          <5>3. Len(stack) \in Nat \ {0}
            BY <1>2, <4>2
          <5> QED BY <3>1, <5>1, <5>2, <5>3, PopAhead
        <4> QED BY <4>1, <4>2
      <3> QED BY <3>2 DEF ToCome, Awaited, AheadOf
    <2>2. cut' => cut
      OBVIOUS
    <2> QED BY <2>1 DEF WalkInv, NothingIsAlien
  <1>7. Blame'
    <2>1. faults \in 0 .. MaxFaults /\ MaxFaults \in Nat
      BY BoundsAssumption DEF IInv, Typed
    <2>2. ~cut => faults' < MaxFaults \/ BeyondLimits
      BY <2>1 DEF WalkInv, Blame
    <2> QED BY <1>1, <2>2 DEF Blame
  <1>8. Started'
    <2>1. /\ (~cut => entries \in Seq(Entry)) /\ ~Informs /\ ~OperandRefused
      BY <1>3 DEF WalkInv, Started
    <2> QED BY <1>1, <1>3, <2>1 DEF Started, Entry
  <1>9. Ordered'
    BY DEF Ordered
  <1> QED BY <1>4, <1>5, <1>6, <1>7, <1>8, <1>9 DEF WalkInv

\* The names are at their end.
LEMMA WalkLeaves ==
  ASSUME IInv, WalkInv, NamesEnd
  PROVE  WalkInv'
  <1>1. /\ tree' = tree /\ walked' = walked /\ argv' = argv /\ entries' = entries /\ status' = status
        /\ cut' = cut /\ stale' = stale /\ line' = line
        /\ pc = "read" /\ pc' = "return" /\ stack' = SubSeq(stack, 1, Len(stack) - 1)
        /\ ret' = (IF stale \/ faults' < faults THEN 2 ELSE 0)
        /\ PopRules(Depth)
        /\ (Top.left = {} /\ faults' = faults) \/ Fault
    BY DEF NamesEnd, Leave, LeaveFrame, mainVars
  <1>2. /\ stack \in Seq(Frame) /\ Len(stack) \in Nat \ {0} /\ stack # << >> /\ Top = stack[Len(stack)]
        /\ ret = 0 /\ IsTree(Trees[tree]) /\ status = -1
        /\ \A i \in 1 .. Len(stack) : stack[i].ino \in DOMAIN Trees[tree].kind
    BY <1>1, OfTheWalk DEF IInv, Control, Inside, Top
  <1>3. ~stale
    BY <1>1, <1>2 DEF WalkInv, Started
  <1>4. PICK m \in 0 .. Len(rules) : /\ \A i \in m + 1 .. Len(rules) : rules[i].depth = Len(stack) - 1
                                     /\ m > 0 => rules[m].depth # Len(stack) - 1
                                     /\ rules' = SubSeq(rules, 1, m)
    BY <1>1 DEF PopRules, Depth
  <1>5. rules \in Seq(Rule) /\ rules' \in Seq(Rule)
    BY <1>4, Shorter DEF IInv, Typed
  <1>6. faults \in 0 .. MaxFaults /\ MaxFaults \in Nat
    BY BoundsAssumption DEF IInv, Typed
  <1>7. CASE Fault
    <2>1. faults' \in 0 .. faults /\ faults' < faults
      BY <1>6, <1>7 DEF Fault
    <2> QED BY <1>1, <1>2, <1>5, <2>1, WalkFails DEF Inside
  <1>8. CASE Top.left = {} /\ faults' = faults
    <2>1. ret' = 0
      BY <1>1, <1>3, <1>6, <1>8
    <2>2. /\ Inodes' = Inodes /\ (BeyondLimits' <=> BeyondLimits) /\ (Informs' <=> Informs)
          /\ (OperandRefused' <=> OperandRefused)
      BY <1>1, SameTree, SameLimits
    <2>3. PICK l \in 0 .. Len(stack) : l = Len(stack) - 1
      <3>1. \A s \in Nat \ {0} : s - 1 \in 0 .. s
        OBVIOUS
      <3> QED BY <1>2, <3>1
    <2>4. Len(stack') = l /\ \A i \in 1 .. l : stack'[i] = stack[i]
      BY <1>1, <1>2, <2>3, Shorter
    <2>5. ASSUME NEW path PROVE ToCome(path)' <=> ToCome(path)
      <3>1. AheadOf(stack', path) <=> AheadOf(stack, path)
        BY <1>2, <1>8, <2>3, <2>4, PopAhead
      <3> QED BY <1>1, <3>1, AwaitedBy DEF ToCome
    <2>6. OnPath'
      <3>1. Frames(tree, Len(walked), stack')
        BY <1>1, <1>2, FramesPop DEF WalkInv, OnPath
      <3> QED BY <1>1, <3>1 DEF OnPath
    <2>7. RulesRead'
      <3>1. SUFFICES ASSUME ~cut PROVE AreThose(Read(tree, stack', "return", line'), tree, stack', rules')
        BY <1>1 DEF RulesRead
      <3>2. AreThose(Read(tree, stack, "read", line), tree, stack, rules)
        BY <1>1, <1>2, <3>1 DEF WalkInv, RulesRead
      <3> QED BY <1>1, <1>2, <1>4, <1>5, <3>2, RulesShrink
    <2>8. Rightly'
      <3>1. SUFFICES ASSUME ~cut, NEW j \in 2 .. Len(stack') PROVE WalkedDir(tree, stack'[j].rel)
        BY <1>1 DEF Rightly
      <3>2. j \in 1 .. l /\ j \in 2 .. Len(stack)
        BY <1>2, <2>3, <2>4
      <3> QED BY <1>2, <2>4, <3>1, <3>2 DEF WalkInv, Rightly
    <2>9. NothingIsMissing'
      BY <1>1, <1>2, <2>5 DEF WalkInv, NothingIsMissing, Going
    <2>10. NothingIsAlien'
      BY <1>1, <2>5 DEF WalkInv, NothingIsAlien
    <2>11. Blame'
      BY <1>1, <1>2, <2>1 DEF Blame
    <2>12. Started' /\ Ordered'
      <3>1. (~cut => entries \in Seq(Entry)) /\ ~Informs /\ ~OperandRefused
        BY <1>1 DEF WalkInv, Started
      <3> QED BY <1>1, <1>2, <1>3, <2>2, <3>1 DEF Started, Entry, Ordered
    <2> QED BY <2>6, <2>7, <2>8, <2>9, <2>10, <2>11, <2>12 DEF WalkInv
  <1> QED BY <1>1, <1>7, <1>8

\* The innermost activation goes on, with its rules or to its next name.
LEMMA WalkGoesOn ==
  ASSUME IInv, WalkInv, tree' = tree, walked' = walked, argv' = argv, entries' = entries, status' = status,
         stack' = stack, ret = 0, ret' = 0, pc \in {"return"} \cup Inside, pc' \in {"lines", "read"},
         cut => cut', stale' = FALSE,
         ~cut' => AreThose(Read(tree, stack, pc', line'), tree, stack, rules'),
         \A path \in Seq(Names) :
           ToCome(path) => AheadOf(stack, path) \/ /\ Settled(tree, Len(walked), entries, path)
                                                   /\ path = << >> => Len(walked) + IgnoreLen < PathMax
  PROVE  WalkInv'
  <1>1. /\ Inodes' = Inodes /\ (BeyondLimits' <=> BeyondLimits) /\ (Informs' <=> Informs)
        /\ (OperandRefused' <=> OperandRefused)
    BY SameTree, SameLimits
  <1>2. pc \notin {"args", "trim", "enter", "done"} /\ status = -1 /\ tree \in DOMAIN Trees
    BY DEF IInv, Control, Inside, Typed
  <1>3. ASSUME NEW path PROVE ToCome(path)' <=> AheadOf(stack, path)
    BY AwaitedBy DEF ToCome
  <1>4. ASSUME NEW path, AheadOf(stack, path) PROVE ToCome(path)
    BY <1>4 DEF ToCome, Awaited, AheadOf
  <1>5. OnPath'
    BY DEF WalkInv, OnPath
  <1>6. RulesRead'
    BY DEF RulesRead
  <1>7. Rightly'
    <2>1. SUFFICES ASSUME ~cut', NEW j \in 2 .. Len(stack) PROVE WalkedDir(tree, stack[j].rel)
      BY DEF Rightly
    <2> QED BY <2>1 DEF WalkInv, Rightly
  <1>8. NothingIsMissing'
    <2>1. SUFFICES ASSUME ~cut'
                   PROVE  /\ ToCome(<< >>)' \/ Len(walked) + IgnoreLen < PathMax
                          /\ \A path \in PathsIn[tree] :
                               ToCome(path)' \/ Settled(tree, Len(walked), entries, path)
      BY DEF NothingIsMissing, Going
    <2>2. Going
      BY <1>2, <2>1 DEF Going
    <2>3. << >> \in Seq(Names) /\ \A path \in PathsIn[tree] : path \in Seq(Names)
      BY <1>2, PathsAre
    <2> QED BY <1>3, <2>2, <2>3 DEF WalkInv, NothingIsMissing
  <1>9. NothingIsAlien'
    <2>1. SUFFICES ASSUME ~cut'
                   PROVE  Rightful(tree, entries) /\ \A path \in PathsOf(entries) : ~ToCome(path)'
      BY DEF NothingIsAlien
    <2> QED BY <1>3, <1>4, <2>1 DEF WalkInv, NothingIsAlien
  <1>10. Blame'
    BY <1>2 DEF Blame
  <1>11. Started' /\ Ordered'
    <2>1. (~cut => entries \in Seq(Entry)) /\ ~Informs /\ ~OperandRefused
      BY <1>2 DEF WalkInv, Started
    <2> QED BY <1>1, <1>2, <2>1 DEF Started, Entry, Ordered
  <1> QED BY <1>5, <1>6, <1>7, <1>8, <1>9, <1>10, <1>11 DEF WalkInv

LEMMA WalkReturns ==
  ASSUME IInv, WalkInv, Return
  PROVE  WalkInv'
  <1>1. /\ tree' = tree /\ walked' = walked /\ argv' = argv /\ entries' = entries /\ status' = status
        /\ cut' = cut /\ line' = line /\ faults' = faults /\ pc = "return" /\ stack # << >>
    BY DEF Return, mainVars
  <1>2. faults \in Nat /\ rules \in Seq(Rule)
    BY BoundsAssumption DEF IInv, Typed
  <1>3. CASE ret = 0
    <2>1. pc' = "read" /\ stale' = FALSE /\ stack' = stack /\ rules' = rules /\ ret' = 0
      BY <1>3 DEF Return, walkVars
    <2>2. ~cut => AreThose(Read(tree, stack, "return", line), tree, stack, rules)
      BY <1>1, <1>3 DEF WalkInv, RulesRead
    <2>3. Read(tree, stack, "return", line) = Read(tree, stack, "read", line)
      BY DEF Read
    <2>4. \A path : ToCome(path) => AheadOf(stack, path)
      BY <1>1, AwaitedBy DEF ToCome
    <2> QED BY <1>1, <1>3, <2>1, <2>2, <2>3, <2>4, WalkGoesOn
  <1>4. CASE ret # 0
    <2>1. /\ pc' = "return" /\ stack' = SubSeq(stack, 1, Len(stack) - 1) /\ ret' = ret /\ PopRules(Depth)
      BY <1>4 DEF Return, Leave, LeaveFrame
    <2>2. rules' \in Seq(Rule)
      BY <2>1, PoppedRules DEF IInv
    <2>3. faults' \in 0 .. faults
      BY <1>1, <1>2
    <2> QED BY <1>1, <1>4, <2>1, <2>2, <2>3, WalkFails
  <1> QED BY <1>3, <1>4

\* What is asked of the name of .gitignore.
LEMMA IgnoreIsAwaited ==
  ASSUME IInv, WalkInv, pc = "ignore", ~IgnoreTooLong
  PROVE  \A path \in Seq(Names) :
           ToCome(path) => AheadOf(stack, path) \/ /\ Settled(tree, Len(walked), entries, path)
                                                   /\ path = << >> => Len(walked) + IgnoreLen < PathMax
  <1>1. \A path : ToCome(path) <=> path = Top.rel \/ AheadOf(stack, path)
    BY AwaitedBy DEF ToCome, Top
  <1> QED BY <1>1, IgnoreSettles

LEMMA IgnoreOpens ==
  ASSUME IInv, WalkInv, OpenIgnore
  PROVE  WalkInv'
  <1>1. /\ tree' = tree /\ walked' = walked /\ argv' = argv /\ entries' = entries /\ status' = status
        /\ cut' = cut /\ line' = 1 /\ stack' = stack /\ rules' = rules /\ ret' = ret /\ stale' = stale
        /\ pc = "ignore" /\ pc' = "lines" /\ ~IgnoreTooLong
    BY DEF OpenIgnore, mainVars
  <1>2. ret = 0 /\ stale' = FALSE
    <2>1. ret = 0 /\ stale \in BOOLEAN
      BY <1>1 DEF IInv, Control, Inside, Typed
    <2> QED BY <1>1, <2>1 DEF WalkInv, Started
  <1>3. /\ IsTree(Trees[tree]) /\ Len(stack) \in Nat
        /\ \A i \in 1 .. Len(stack) : stack[i].ino \in DOMAIN Trees[tree].kind
    BY OfTheWalk DEF IInv
  <1>4. ASSUME ~cut PROVE AreThose(Read(tree, stack, "lines", 1), tree, stack, rules)
    <2>1. AreThose(Read(tree, stack, "ignore", line), tree, stack, rules)
      BY <1>1, <1>2, <1>4 DEF WalkInv, RulesRead
    <2>2. ASSUME NEW n, NEW l PROVE IsRead(tree, stack, "ignore", line, n, l) <=> IsRead(tree, stack, "lines", 1, n, l)
      <3>1. IsRead(tree, stack, "lines", 1, n, l) => l \in Nat \ {0}
        BY <1>3, PlacesAreNumbers
      <3>2. \A m \in Nat \ {0} : ~(m < 1)
        OBVIOUS
      <3> QED BY <3>1, <3>2 DEF IsRead
    <2> QED BY <2>1, <2>2, RulesKept
  <1> QED BY <1>1, <1>2, <1>4, IgnoreIsAwaited, WalkGoesOn DEF Inside

LEMMA IgnoreIsNone ==
  ASSUME IInv, WalkInv, NoIgnore
  PROVE  WalkInv'
  <1>1. /\ tree' = tree /\ walked' = walked /\ argv' = argv /\ entries' = entries /\ status' = status
        /\ line' = line /\ stack' = stack /\ rules' = rules /\ ret' = ret /\ stale' = FALSE
        /\ pc = "ignore" /\ pc' = "read" /\ ~IgnoreTooLong
        /\ (~HasGitignore(tree, Top.ino) /\ cut' = cut) \/ cut' = TRUE
    BY DEF NoIgnore, mainVars, walkVars
  <1>2. ret = 0
    BY <1>1 DEF IInv, Control, Inside
  <1>3. ASSUME ~cut' PROVE AreThose(Read(tree, stack, "read", line), tree, stack, rules)
    <2>1. ~cut /\ ~HasGitignore(tree, stack[Len(stack)].ino)
      BY <1>1, <1>3 DEF Top
    <2>2. AreThose(Read(tree, stack, "ignore", line), tree, stack, rules)
      BY <1>1, <1>2, <2>1 DEF WalkInv, RulesRead
    <2>3. ASSUME NEW n, NEW l PROVE IsRead(tree, stack, "ignore", line, n, l) <=> IsRead(tree, stack, "read", line, n, l)
      <3>1. Len(stack) \in Nat
        BY OfTheWalk DEF IInv
      <3>2. n \in 0 .. Len(stack) - 1 /\ n = Len(stack) - 1 => n + 1 = Len(stack)
        BY <3>1
      <3> QED BY <2>1, <3>2 DEF IsRead
    <2> QED BY <2>2, <2>3, RulesKept
  <1>4. cut => cut'
    BY <1>1
  <1>5. /\ tree' = tree /\ walked' = walked /\ argv' = argv /\ entries' = entries /\ status' = status
        /\ stack' = stack /\ ret = 0 /\ ret' = 0 /\ pc \in {"return"} \cup Inside /\ pc' \in {"lines", "read"}
        /\ ~cut' => AreThose(Read(tree, stack, pc', line'), tree, stack, rules')
    BY <1>1, <1>2, <1>3 DEF Inside
  <1>6. pc = "ignore" /\ ~IgnoreTooLong /\ stale' = FALSE
    BY <1>1
  <1> QED BY <1>4, <1>5, <1>6, IgnoreIsAwaited, WalkGoesOn

LEMMA LineIsRead ==
  ASSUME IInv, WalkInv, ReadLine
  PROVE  WalkInv'
  <1> DEFINE lines == GitignoreLines(tree, Top.ino)
             rule == RuleOf(lines[line], Top.rel, Depth)
  <1>1. /\ tree' = tree /\ walked' = walked /\ argv' = argv /\ entries' = entries /\ status' = status
        /\ cut' = cut /\ line' = line + 1 /\ stack' = stack /\ ret' = ret /\ stale' = stale
        /\ pc = "lines" /\ pc' = "lines" /\ line <= Len(lines)
        /\ rules' = IF MakesNoRule(lines[line]) THEN rules ELSE Append(rules, rule)
    BY DEF ReadLine, mainVars
  <1>2. ret = 0 /\ stale' = FALSE /\ HasGitignore(tree, Top.ino)
    <2>1. ret = 0 /\ stale \in BOOLEAN /\ HasGitignore(tree, Top.ino)
      BY <1>1 DEF IInv, Control, Inside, Typed
    <2> QED BY <1>1, <2>1 DEF WalkInv, Started
  <1>3. /\ IsTree(Trees[tree]) /\ Len(stack) \in Nat \ {0} /\ Top = stack[Len(stack)]
        /\ Len(stack) \in 1 .. Len(stack)
        /\ \A i \in 1 .. Len(stack) : stack[i].ino \in DOMAIN Trees[tree].kind
        /\ stack # << >>
    BY <1>1, OfTheWalk DEF IInv, Control, Inside, Top
  <1>4. /\ line \in Nat \ {0} /\ rules \in Seq(Rule)
    BY DEF IInv, Typed
  <1>5. lines \in Seq(Line) /\ line \in DOMAIN lines
    <2>1. lines \in Seq(Line)
      BY <1>2, <1>3, LinesOfIgnore
    <2> QED BY <1>1, <1>4, <2>1
  <1>6. ASSUME ~cut PROVE AreThose(Read(tree, stack, "lines", line + 1), tree, stack, rules')
    <2>1. AreThose(Read(tree, stack, "lines", line), tree, stack, rules)
      BY <1>1, <1>2, <1>6 DEF WalkInv, RulesRead
    <2>2. CASE ~MakesNoRule(lines[line])
      <3>1. rule \in Rule
        <4>1. Top.rel \in Seq(Names) /\ Depth \in Nat
          BY <1>3, OfTheWalk DEF IInv, Depth
        <4>2. lines[line] \in Line
          BY <1>5
        <4> QED BY <4>1, <4>2 DEF RuleOf, Rule, Line
      <3>2. rule = RuleOn(tree, stack, <<Len(stack) - 1, line>>)
        BY <1>3 DEF RuleOn, Depth
      <3> QED BY <1>1, <1>2, <1>3, <1>4, <1>5, <2>1, <2>2, <3>1, <3>2, RulesGrow
    <2>3. CASE MakesNoRule(lines[line])
      <3>1. ASSUME NEW n, NEW l
            PROVE  IsRead(tree, stack, "lines", line, n, l) <=> IsRead(tree, stack, "lines", line + 1, n, l)
        <4>1. IsRead(tree, stack, "lines", line + 1, n, l) => l \in Nat /\ n \in Nat
          BY <1>3, PlacesAreNumbers
        <4>2. IsRead(tree, stack, "lines", line, n, l) => l \in Nat /\ n \in Nat
          BY <1>3, PlacesAreNumbers
        <4>3. IsRead(tree, stack, "lines", line + 1, n, l) /\ n = Len(stack) - 1 => l # line
          <5>1. \A m \in Nat \ {0} : (m - 1) + 1 = m
            OBVIOUS
          <5> QED BY <1>3, <2>3, <5>1 DEF IsRead
        <4>4. \A m \in Nat : m # line => (m < line <=> m < line + 1)
          BY <1>4
        <4>5. \A m \in Nat : m < line => m < line + 1
          BY <1>4
        <4> QED BY <4>1, <4>2, <4>3, <4>4, <4>5 DEF IsRead
      <3> QED BY <1>1, <2>1, <2>3, <3>1, RulesKept
    <2> QED BY <2>2, <2>3
  <1>7. \A path : ToCome(path) => AheadOf(stack, path)
    BY <1>1, AwaitedBy DEF ToCome
  <1> QED BY <1>1, <1>2, <1>6, <1>7, WalkGoesOn DEF Inside

LEMMA LinesAreRead ==
  ASSUME IInv, WalkInv, LinesEnd
  PROVE  WalkInv'
  <1> DEFINE lines == GitignoreLines(tree, Top.ino)
  <1>1. /\ tree' = tree /\ walked' = walked /\ argv' = argv /\ entries' = entries /\ status' = status
        /\ line' = line /\ stack' = stack /\ rules' = rules /\ ret' = ret /\ stale' = FALSE
        /\ pc = "lines" /\ pc' = "read"
        /\ (line > Len(lines) /\ cut' = cut) \/ cut' = TRUE
    BY DEF LinesEnd, mainVars
  <1>2. ret = 0 /\ HasGitignore(tree, Top.ino)
    BY <1>1 DEF IInv, Control, Inside
  <1>3. /\ IsTree(Trees[tree]) /\ Len(stack) \in Nat \ {0} /\ Top = stack[Len(stack)]
        /\ Len(stack) \in 1 .. Len(stack)
        /\ \A i \in 1 .. Len(stack) : stack[i].ino \in DOMAIN Trees[tree].kind
    BY <1>1, OfTheWalk DEF IInv, Control, Inside, Top
  <1>4. lines \in Seq(Line) /\ line \in Nat
    BY <1>2, <1>3, LinesOfIgnore DEF IInv, Typed
  <1>5. ASSUME ~cut' PROVE AreThose(Read(tree, stack, "read", line), tree, stack, rules)
    <2>1. ~cut /\ line > Len(lines)
      BY <1>1, <1>5
    <2>2. AreThose(Read(tree, stack, "lines", line), tree, stack, rules)
      BY <1>1, <1>2, <2>1 DEF WalkInv, RulesRead
    <2>3. ASSUME NEW n, NEW l PROVE IsRead(tree, stack, "lines", line, n, l) <=> IsRead(tree, stack, "read", line, n, l)
      <3>1. \A m \in DOMAIN lines : m < line
        BY <1>4, <2>1
      <3>2. \A m \in Nat \ {0} : (m - 1) + 1 = m
        OBVIOUS
      <3> QED BY <1>3, <3>1, <3>2 DEF IsRead
    <2> QED BY <2>2, <2>3, RulesKept
  <1>6. \A path : ToCome(path) => AheadOf(stack, path)
    BY <1>1, AwaitedBy DEF ToCome
  <1>7. cut => cut'
    BY <1>1
  <1>8. /\ tree' = tree /\ walked' = walked /\ argv' = argv /\ entries' = entries /\ status' = status
        /\ stack' = stack /\ ret = 0 /\ ret' = 0 /\ pc \in {"return"} \cup Inside /\ pc' \in {"lines", "read"}
        /\ ~cut' => AreThose(Read(tree, stack, pc', line'), tree, stack, rules')
    BY <1>1, <1>2, <1>5 DEF Inside
  <1>9. stale' = FALSE
    BY <1>1
  <1> QED BY <1>6, <1>7, <1>8, <1>9, WalkGoesOn

LEMMA WalkEnters ==
  ASSUME IInv, WalkInv, Enter
  PROVE  WalkInv'
  <1> DEFINE f == [ino |-> cand.ino, rel |-> cand.rel, len |-> cand.len, left |-> DOMAIN fs.kids[cand.ino]]
  <1>1. /\ tree' = tree /\ walked' = walked /\ argv' = argv /\ entries' = entries /\ status' = status
        /\ cut' = cut /\ line' = line /\ rules' = rules /\ ret' = ret /\ stale' = stale /\ faults' = faults
        /\ pc = "enter" /\ pc' = "ignore" /\ stack' = Append(stack, f)
    BY DEF Enter, mainVars
  <1>2. /\ Inodes' = Inodes /\ (BeyondLimits' <=> BeyondLimits) /\ (Informs' <=> Informs)
        /\ (OperandRefused' <=> OperandRefused)
    BY <1>1, SameTree, SameLimits
  <1>3. /\ tree \in DOMAIN Trees /\ stack \in Seq(Frame) /\ Len(stack) \in Nat /\ fs = Trees[tree]
        /\ (stack = << >> <=> Len(stack) = 0)
        /\ cand.rel \in Seq(Names) /\ cand \in Candidate
    BY OfTheWalk DEF IInv, Typed
  <1>4. status = -1 /\ ret = 0 /\ stale' = FALSE
    <2>1. status = -1 /\ ret = 0 /\ stale \in BOOLEAN
      BY <1>1 DEF IInv, Control, Typed
    <2> QED BY <1>1, <2>1 DEF WalkInv, Started
  <1>5. /\ f \in Frame /\ f.rel = cand.rel /\ f.ino = cand.ino /\ f.len = cand.len
        /\ f.left = DOMAIN Trees[tree].kids[cand.ino]
    <2>1. DOMAIN fs.kids[cand.ino] \subseteq Names
      BY <1>3, TreeIsTree DEF IInv, Candidate
    <2> QED BY <1>3, <2>1 DEF Frame, Candidate
  <1> HIDE DEF f
  <1>6. /\ Len(stack') = Len(stack) + 1 /\ stack'[Len(stack) + 1] = f /\ stack'[Len(stack')] = f
        /\ \A i \in 1 .. Len(stack) : stack'[i] = stack[i]
    BY <1>1, <1>3, <1>5, Longer
  <1>7. Hand(tree, Len(walked), stack, cand, "dir")
    BY <1>1 DEF WalkInv, OnPath
  <1>8. Len(f.rel) = Len(stack) /\ f.rel \in Seq(Names) /\ f.left = NamesIn(tree, InodeIn(tree, f.rel))
    BY <1>3, <1>5, <1>7 DEF Hand, NamesIn
  <1>9. ASSUME NEW path \in Seq(Names)
        PROVE  /\ ToCome(path)' => ToCome(path)
               /\ ToCome(path) /\ InodeIn(tree, path) # Nothing => ToCome(path)'
    <2>1. /\ AheadOf(stack', path) => AheadOf(stack, path) \/ IsPrefix(f.rel, path)
          /\ AheadOf(stack, path) => AheadOf(stack', path)
          /\ IsPrefix(f.rel, path) /\ InodeIn(tree, path) # Nothing => path = f.rel \/ AheadOf(stack', path)
      BY <1>1, <1>3, <1>5, <1>8, PushAhead
    <2>2. ToCome(path) <=> IsPrefix(f.rel, path) \/ AheadOf(stack, path)
      BY <1>1, <1>5, AwaitedBy DEF ToCome
    <2>3. ToCome(path)' <=> path = f.rel \/ AheadOf(stack', path)
      BY <1>1, <1>6, AwaitedBy DEF ToCome
    <2>4. path = f.rel => IsPrefix(f.rel, path)
      BY <1>8, PrefixMeans, PrefixOfAll
    <2> QED BY <2>1, <2>2, <2>3, <2>4
  <1>10. OnPath'
    <2>1. Frames(tree, Len(walked), stack')
      BY <1>1, <1>3, <1>5, <1>7, FramesPush DEF WalkInv, OnPath
    <2> QED BY <1>1, <2>1 DEF OnPath
  <1>11. RulesRead'
    <2>1. SUFFICES ASSUME ~cut PROVE AreThose(Read(tree, stack', "ignore", line), tree, stack', rules)
      BY <1>1 DEF RulesRead
    <2>2. AreThose(Read(tree, stack, "enter", line), tree, stack, rules)
      BY <1>1, <1>4, <2>1 DEF WalkInv, RulesRead
    <2>3. ASSUME NEW n, NEW l
          PROVE  IsRead(tree, stack, "enter", line, n, l) <=> IsRead(tree, stack', "ignore", line, n, l)
      <3>1. CASE n \in 0 .. Len(stack) - 1
        <4>1. n \in 0 .. Len(stack') - 1 /\ n # Len(stack') - 1 /\ n + 1 \in 1 .. Len(stack)
          BY <1>3, <1>6, <3>1
        <4> QED BY <1>6, <3>1, <4>1 DEF IsRead
      <3>2. CASE n \notin 0 .. Len(stack) - 1
        <4>1. n \in 0 .. Len(stack') - 1 => n = Len(stack') - 1
          BY <1>3, <1>6, <3>2
        <4> QED BY <3>2, <4>1 DEF IsRead
      <3> QED BY <3>1, <3>2
    <2>4. \A n, l : IsRead(tree, stack, "enter", line, n, l) =>
                      stack'[n + 1].ino = stack[n + 1].ino /\ stack'[n + 1].rel = stack[n + 1].rel
      <3>1. \A n \in 0 .. Len(stack) - 1 : n + 1 \in 1 .. Len(stack)
        BY <1>3
      <3> QED BY <1>6, <3>1 DEF IsRead
    <2> QED BY <2>2, <2>3, <2>4, RulesKept
  <1>12. Rightly'
    <2>1. SUFFICES ASSUME ~cut, NEW j \in 2 .. Len(stack') PROVE WalkedDir(tree, stack'[j].rel)
      BY <1>1 DEF Rightly
    <2>2. CASE j = Len(stack')
      <3>1. Len(stack) # 0
        BY <1>3, <1>6, <2>2
      <3> QED BY <1>1, <1>3, <1>4, <1>5, <1>6, <2>1, <2>2, <3>1 DEF WalkInv, Rightly
    <2>3. CASE j # Len(stack')
      <3>1. j \in 2 .. Len(stack) /\ j \in 1 .. Len(stack)
        BY <1>3, <1>6, <2>3
      <3> QED BY <1>4, <1>6, <2>1, <3>1 DEF WalkInv, Rightly
    <2> QED BY <2>2, <2>3
  <1>13. NothingIsMissing'
    <2>1. SUFFICES ASSUME ~cut
                   PROVE  /\ ToCome(<< >>)' \/ Len(walked) + IgnoreLen < PathMax
                          /\ \A path \in PathsIn[tree] :
                               ToCome(path)' \/ Settled(tree, Len(walked), entries, path)
      BY <1>1 DEF NothingIsMissing, Going
    <2>2. Going
      BY <1>1, <1>4, <2>1 DEF Going
    <2>3. << >> \in Seq(Names) /\ InodeIn(tree, << >>) # Nothing
      BY InodeOfRoot DEF Root, Nothing
    <2>4. \A path \in PathsIn[tree] : path \in Seq(Names) /\ InodeIn(tree, path) # Nothing
      BY <1>3, PathsAre
    <2>5. ToCome(<< >>)' \/ Len(walked) + IgnoreLen < PathMax
      BY <1>9, <2>2, <2>3 DEF WalkInv, NothingIsMissing
    <2> QED BY <1>9, <2>2, <2>4, <2>5 DEF WalkInv, NothingIsMissing
  <1>14. NothingIsAlien'
    <2>1. SUFFICES ASSUME ~cut
                   PROVE  Rightful(tree, entries) /\ \A path \in PathsOf(entries) : ~ToCome(path)'
      BY <1>1 DEF NothingIsAlien
    <2>2. Rightful(tree, entries) /\ \A path \in PathsOf(entries) : ~ToCome(path)
      BY <2>1 DEF WalkInv, NothingIsAlien
    <2>3. \A path \in PathsOf(entries) : path \in Seq(Names)
      <3>1. \A i \in 1 .. Len(entries) : entries[i].path \in Seq(Names)
        BY <1>3, <2>2, PathsAre DEF Rightful
      <3> QED BY <3>1 DEF PathsOf
    <2> QED BY <1>9, <2>2, <2>3
  <1>15. Blame'
    BY <1>1, <1>4 DEF Blame
  <1>16. Started' /\ Ordered'
    <2>1. (~cut => entries \in Seq(Entry)) /\ ~Informs /\ ~OperandRefused
      BY <1>1 DEF WalkInv, Started
    <2> QED BY <1>1, <1>2, <1>4, <2>1 DEF Started, Entry, Ordered
  <1> QED BY <1>10, <1>11, <1>12, <1>13, <1>14, <1>15, <1>16 DEF WalkInv

\* Before the walk.
LEMMA NothingYet ==
  ASSUME Typed, NEW at, at \in {"args", "trim", "enter", "done"}, NEW ln
  PROVE  AreThose(Read(tree, << >>, at, ln), tree, << >>, << >>)
  <1>1. Read(tree, << >>, at, ln) = {}
    BY DEF Read, OnWay
  <1>2. Numbers(<< >>, {}, tree, << >>, << >>)
    BY DEF Numbers
  <1>3. << >> \in [1 .. Len(<< >>) -> {}]
    OBVIOUS
  <1> QED BY <1>1, <1>2, <1>3 DEF AreThose

LEMMA WalkIsReady ==
  ASSUME IInv, WalkInv,
         Inform \/ RefuseOperand \/ StartTrim \/ Trim \/ RootFails
  PROVE  WalkInv'
  <1>1. /\ tree' = tree /\ argv' = argv /\ entries' = entries /\ stack' = stack /\ rules' = rules /\ cut' = cut
        /\ ret' = ret /\ stale' = stale /\ pc \in {"args", "trim"} /\ pc' \in {"trim", "done"}
    BY DEF Inform, RefuseOperand, StartTrim, Trim, RootFails, Trimmed, Exit, walkVars
  <1>2. /\ pc' = "done" => status' \in {0, 2} /\ (status' = 0 => Informs) /\ (status' = 2 => ~Informs)
        /\ pc' = "trim" => status' = -1 /\ ~Informs /\ ~OperandRefused
        /\ status' = 2 => OperandRefused \/ faults' < faults
    <2>1. status = -1 /\ (pc = "trim" => ~Informs /\ ~OperandRefused)
      BY <1>1 DEF IInv, Control, WalkInv, Started
    <2>2. faults \in Nat
      BY BoundsAssumption DEF IInv, Typed
    <2>3. CASE Inform
      BY <2>3 DEF Inform, Exit
    <2>4. CASE RefuseOperand
      BY <2>4 DEF RefuseOperand, Exit
    <2>5. CASE StartTrim
      BY <2>1, <2>5 DEF StartTrim
    <2>6. CASE Trim
      BY <2>1, <2>6 DEF Trim
    <2>7. CASE RootFails
      <3>1. pc = "trim" /\ faults' < faults /\ pc' = "done" /\ status' = 2
        BY <2>2, <2>7 DEF RootFails, Trimmed, Fault, Exit
      <3> QED BY <2>1, <3>1
    <2> QED BY <2>3, <2>4, <2>5, <2>6, <2>7
  <1>3. ret = 0 /\ stack = << >> /\ entries = << >> /\ rules = << >> /\ ~stale
    BY <1>1 DEF IInv, Control, Outside, WalkInv, Started
  <1>4. Inodes' = Inodes /\ (Informs' <=> Informs) /\ (OperandRefused' <=> OperandRefused) /\ Len(<< >>) = 0
    BY <1>1, SameTree DEF Informs, OperandRefused, ArgumentsRefused, operand
  <1>5. OnPath'
    BY <1>1, <1>3, <1>4 DEF OnPath, Frames
  <1>6. RulesRead'
    BY <1>1, <1>3, NothingYet DEF RulesRead, IInv
  <1>7. Rightly'
    BY <1>1, <1>3, <1>4 DEF Rightly
  <1>8. NothingIsMissing'
    <2>1. CASE pc' = "trim"
      <3>1. \A path : ToCome(path)'
        BY <2>1 DEF ToCome, Awaited
      <3> QED BY <3>1 DEF NothingIsMissing
    <2>2. CASE pc' = "done"
      <3>1. ~Going'
        BY <1>2, <1>4, <2>2 DEF Going
      <3> QED BY <3>1 DEF NothingIsMissing
    <2> QED BY <1>1, <2>1, <2>2
  <1>9. NothingIsAlien'
    BY <1>1, <1>3, <1>4 DEF NothingIsAlien, Rightful, PathsOf
  <1>10. Blame'
    <2>1. faults \in 0 .. MaxFaults /\ MaxFaults \in Nat
      BY BoundsAssumption DEF IInv, Typed
    <2>2. status' = 2 /\ ~OperandRefused => faults' < MaxFaults
      <3>1. CASE ~RootFails
        <4>1. status' = 2 => OperandRefused
          <5>1. status = -1
            BY <1>1 DEF IInv, Control
          <5> QED BY <3>1, <5>1 DEF Inform, RefuseOperand, StartTrim, Trim, Exit
        <4> QED BY <4>1
      <3>2. CASE RootFails
        <4>1. faults' = faults - 1
          BY <3>2 DEF RootFails, Fault
        <4> QED BY <2>1, <4>1
      <3> QED BY <3>1, <3>2
    <2> QED BY <1>1, <1>3, <1>4, <2>2 DEF Blame
  <1>11. Started' /\ Ordered'
    <2>1. << >> \in Seq(Entry)
      OBVIOUS
    <2> QED BY <1>1, <1>2, <1>3, <1>4, <2>1 DEF Started, Entry, Ordered
  <1> QED BY <1>5, <1>6, <1>7, <1>8, <1>9, <1>10, <1>11 DEF WalkInv

LEMMA WalkStarts ==
  ASSUME IInv, WalkInv, StartWalk
  PROVE  WalkInv'
  <1>1. /\ tree' = tree /\ argv' = argv /\ entries' = entries /\ stack' = stack /\ rules' = rules /\ cut' = cut
        /\ ret' = ret /\ stale' = stale /\ status' = status /\ pc = "trim" /\ pc' = "enter"
        /\ cand' = [ino |-> Root, rel |-> << >>, len |-> Len(walked')]
    BY DEF StartWalk, Trimmed, walkVars
  <1>2. /\ ret = 0 /\ stack = << >> /\ entries = << >> /\ rules = << >> /\ ~stale /\ status = -1
        /\ ~Informs /\ ~OperandRefused
    BY <1>1 DEF IInv, Control, Outside, WalkInv, Started
  <1>3. Inodes' = Inodes /\ (Informs' <=> Informs) /\ (OperandRefused' <=> OperandRefused) /\ Len(<< >>) = 0
    BY <1>1, SameTree DEF Informs, OperandRefused, ArgumentsRefused, operand
  <1>4. tree \in DOMAIN Trees /\ Trees[tree].kind[Root] = "dir"
    BY OfTheWalk DEF IInv, IsTree
  <1>5. OnPath'
    <2>1. Hand(tree, Len(walked'), << >>, cand', "dir")
      BY <1>1, <1>3, <1>4, InodeOfRoot, LengthOfRoot DEF Hand
    <2> QED BY <1>1, <1>2, <1>3, <2>1 DEF OnPath, Frames
  <1>6. RulesRead'
    BY <1>1, <1>2, NothingYet DEF RulesRead, IInv
  <1>7. Rightly'
    BY <1>1, <1>2, <1>3 DEF Rightly
  <1>8. NothingIsMissing'
    <2>1. ASSUME NEW path \in Seq(Names) PROVE ToCome(path)'
      <3>1. << >> \in Seq(Names) /\ Prefix(path, 0) = << >> /\ Len(<< >>) <= Len(path)
        BY PrefixOfAll
      <3>2. IsPrefix(<< >>, path)
        BY <1>3, <3>1, PrefixMeans
      <3> QED BY <1>1, <3>2 DEF ToCome, Awaited
    <2>2. << >> \in Seq(Names) /\ \A path \in PathsIn[tree] : path \in Seq(Names)
      BY <1>4, PathsAre
    <2> QED BY <1>1, <2>1, <2>2 DEF NothingIsMissing
  <1>9. NothingIsAlien'
    BY <1>1, <1>2, <1>3 DEF NothingIsAlien, Rightful, PathsOf
  <1>10. Blame'
    BY <1>1, <1>2 DEF Blame
  <1>11. Started' /\ Ordered'
    <2>1. << >> \in Seq(Entry)
      OBVIOUS
    <2> QED BY <1>1, <1>2, <1>3, <2>1 DEF Started, Entry, Ordered
  <1> QED BY <1>5, <1>6, <1>7, <1>8, <1>9, <1>10, <1>11 DEF WalkInv

\* What a name that is taken leaves as it was.
LEMMA NameIsTaken ==
  ASSUME IInv, WalkInv, pc = "read", NEW n \in Top.left, Took(n), NEW c, c = ChildOf(n)
  PROVE  /\ Frames(tree, Len(walked), stack')
         /\ Len(stack') = Len(stack)
         /\ \A i \in 1 .. Len(stack) :
              stack'[i].ino = stack[i].ino /\ stack'[i].rel = stack[i].rel
         /\ \A i \in 1 .. Len(stack) : On(stack'[i], i, c.rel)
         /\ \A at \in {"read", "enter", "open"} :
              AreThose(Read(tree, stack, "read", line), tree, stack, rules)
                => AreThose(Read(tree, stack', at, line), tree, stack', rules)
         /\ \A path \in Seq(Names) :
              /\ AheadOf(stack', path) => AheadOf(stack, path)
              /\ AheadOf(stack, path) => AheadOf(stack', path) \/ IsPrefix(c.rel, path)
              /\ IsPrefix(c.rel, path) => AheadOf(stack, path)
  <1>1. Taken(stack', stack, n)
    BY TookIsTaken DEF IInv, Control, Inside
  <1>2. /\ Len(c.rel) = Len(stack) /\ c.rel \in Seq(Names) /\ Len(stack) \in Nat \ {0}
        /\ c.rel[Len(stack)] = n /\ Prefix(c.rel, Len(stack) - 1) = Top.rel /\ n \in Names
        /\ \A i \in 1 .. Len(stack) - 1 : On(stack[i], i, c.rel)
    BY ChildInHand
  <1>3. /\ Len(stack') = Len(stack)
        /\ \A i \in 1 .. Len(stack) : /\ stack'[i].ino = stack[i].ino /\ stack'[i].rel = stack[i].rel
                                      /\ stack'[i].len = stack[i].len /\ stack'[i].left \subseteq stack[i].left
    <2>1. ASSUME NEW i \in 1 .. Len(stack) PROVE stack'[i].left \subseteq stack[i].left
      <3>1. CASE i = Len(stack)
        BY <1>1, <3>1 DEF Taken
      <3>2. CASE i # Len(stack)
        <4>1. i \in 1 .. Len(stack) - 1
          BY <1>2, <3>2
        <4> QED BY <1>1, <4>1 DEF Taken
      <3> QED BY <3>1, <3>2
    <2> QED BY <1>1, <2>1 DEF Taken
  <1>4. Frames(tree, Len(walked), stack')
    <2>1. Frames(tree, Len(walked), stack) /\ Len(stack) \in Nat
      BY <1>2 DEF WalkInv, OnPath
    <2> QED BY <1>3, <2>1, FramesTook
  <1>5. ASSUME NEW i \in 1 .. Len(stack) PROVE On(stack'[i], i, c.rel)
    <2>1. CASE i = Len(stack)
      BY <1>1, <1>2, <1>3, <2>1 DEF On, Top, Taken
    <2>2. CASE i # Len(stack)
      <3>1. i \in 1 .. Len(stack) - 1
        BY <1>2, <2>2
      <3> QED BY <1>2, <1>3, <3>1 DEF On
    <2> QED BY <2>1, <2>2
  <1>6. ASSUME NEW at \in {"read", "enter", "open"}, AreThose(Read(tree, stack, "read", line), tree, stack, rules)
        PROVE  AreThose(Read(tree, stack', at, line), tree, stack', rules)
    <2>1. \A m \in 0 .. Len(stack) - 1 : m + 1 \in 1 .. Len(stack)
      BY <1>2
    <2>2. ASSUME NEW m, NEW l PROVE IsRead(tree, stack, "read", line, m, l) <=> IsRead(tree, stack', at, line, m, l)
      BY <1>3, <2>1 DEF IsRead
    <2>3. \A m, l : IsRead(tree, stack, "read", line, m, l) =>
                      stack'[m + 1].ino = stack[m + 1].ino /\ stack'[m + 1].rel = stack[m + 1].rel
      BY <1>3, <2>1 DEF IsRead
    <2> QED BY <1>6, <2>2, <2>3, RulesKept
  <1>7. ASSUME NEW path \in Seq(Names)
        PROVE  /\ AheadOf(stack', path) => AheadOf(stack, path)
               /\ AheadOf(stack, path) => AheadOf(stack', path) \/ IsPrefix(c.rel, path)
               /\ IsPrefix(c.rel, path) => AheadOf(stack, path)
    <2>1. /\ Top = stack[Len(stack)] /\ Top.rel \in Seq(Names) /\ Len(Top.rel) = Len(stack) - 1
          /\ n \in Top.left /\ c.rel = Append(Top.rel, n)
      <3>1. Len(stack) \in 1 .. Len(stack)
        BY <1>2
      <3> QED BY <3>1, OfTheWalk DEF IInv, Top, WalkInv, OnPath, Frames, ChildOf
    <2> QED BY <1>1, <1>2, <2>1, TakenAhead
  <1> QED BY <1>3, <1>4, <1>5, <1>6, <1>7

\* The walk goes on from a name, with nothing in hand.
LEMMA NameIsPassed ==
  ASSUME IInv, WalkInv, pc = "read", NEW n \in Top.left, Took(n), NEW c, c = ChildOf(n),
         Skipped(n) \/ (c.len < PathMax /\ fs.kind[c.ino] = "other"),
         tree' = tree, walked' = walked, argv' = argv, entries' = entries, status' = status,
         ret' = ret, pc' = "read", cut' = cut, stale' \in {stale, FALSE}, line' = line, rules' = rules
  PROVE  WalkInv'
  <1>1. /\ Inodes' = Inodes /\ (BeyondLimits' <=> BeyondLimits) /\ (Informs' <=> Informs)
        /\ (OperandRefused' <=> OperandRefused)
    BY SameTree, SameLimits
  <1>2. status = -1 /\ ret = 0 /\ tree \in DOMAIN Trees /\ stale' = FALSE
    <2>1. status = -1 /\ ret = 0 /\ tree \in DOMAIN Trees /\ stale \in BOOLEAN
      BY DEF IInv, Control, Typed, Inside
    <2> QED BY <2>1 DEF WalkInv, Started
  <1>3. /\ Frames(tree, Len(walked), stack')
        /\ Len(stack') = Len(stack) /\ Len(stack) \in Nat
        /\ \A i \in 1 .. Len(stack) :
             stack'[i].ino = stack[i].ino /\ stack'[i].rel = stack[i].rel
        /\ AreThose(Read(tree, stack, "read", line), tree, stack, rules)
             => AreThose(Read(tree, stack', "read", line), tree, stack', rules)
        /\ \A path \in Seq(Names) :
             /\ AheadOf(stack', path) => AheadOf(stack, path)
             /\ AheadOf(stack, path) => AheadOf(stack', path) \/ IsPrefix(c.rel, path)
    BY NameIsTaken, ChildInHand
  <1>4. \A path : (ToCome(path) <=> AheadOf(stack, path)) /\ (ToCome(path)' <=> AheadOf(stack', path))
    BY AwaitedBy DEF ToCome
  <1>5. OnPath'
    BY <1>3 DEF OnPath
  <1>6. RulesRead'
    BY <1>2, <1>3 DEF WalkInv, RulesRead
  <1>7. Rightly'
    <2>1. SUFFICES ASSUME ~cut, NEW j \in 2 .. Len(stack') PROVE WalkedDir(tree, stack'[j].rel)
      BY DEF Rightly
    <2>2. j \in 2 .. Len(stack) /\ j \in 1 .. Len(stack)
      BY <1>3
    <2> QED BY <1>2, <1>3, <2>1, <2>2 DEF WalkInv, Rightly
  <1>8. NothingIsMissing'
    <2>1. SUFFICES ASSUME ~cut
                   PROVE  /\ ToCome(<< >>)' \/ Len(walked) + IgnoreLen < PathMax
                          /\ \A path \in PathsIn[tree] :
                               ToCome(path)' \/ Settled(tree, Len(walked), entries, path)
      BY DEF NothingIsMissing, Going
    <2>2. Going
      BY <1>2, <2>1 DEF Going
    <2>3. ASSUME NEW path \in Seq(Names), ToCome(path), ~ToCome(path)'
          PROVE  Settled(tree, Len(walked), entries, path) /\ IsPrefix(c.rel, path)
      <3>1. IsPrefix(c.rel, path)
        BY <1>3, <1>4, <2>3
      <3> QED BY <2>1, <3>1, PassedOver
    <2>4. ~IsPrefix(c.rel, << >>)
      <3>1. c.rel \in Seq(Names) /\ << >> \in Seq(Names) /\ Len(<< >>) = 0 /\ ~(Len(c.rel) <= 0)
        BY ChildInHand
      <3> QED BY <3>1, PrefixMeans
    <2>5. << >> \in Seq(Names) /\ \A path \in PathsIn[tree] : path \in Seq(Names)
      BY <1>2, PathsAre
    <2> QED BY <2>2, <2>3, <2>4, <2>5 DEF WalkInv, NothingIsMissing
  <1>9. NothingIsAlien'
    <2>1. SUFFICES ASSUME ~cut
                   PROVE  Rightful(tree, entries) /\ \A path \in PathsOf(entries) : ~ToCome(path)'
      BY DEF NothingIsAlien
    <2>2. Rightful(tree, entries) /\ \A path \in PathsOf(entries) : ~ToCome(path)
      BY <2>1 DEF WalkInv, NothingIsAlien
    <2>3. \A path \in PathsOf(entries) : path \in Seq(Names)
      <3>1. \A i \in 1 .. Len(entries) : entries[i].path \in Seq(Names)
        BY <1>2, <2>2, PathsAre DEF Rightful
      <3> QED BY <3>1 DEF PathsOf
    <2> QED BY <1>3, <1>4, <2>2, <2>3
  <1>10. Blame'
    BY <1>2 DEF Blame
  <1>11. Started' /\ Ordered'
    <2>1. (~cut => entries \in Seq(Entry)) /\ ~Informs /\ ~OperandRefused
      BY DEF WalkInv, Started
    <2> QED BY <1>1, <1>2, <2>1 DEF Started, Entry, Ordered
  <1> QED BY <1>5, <1>6, <1>7, <1>8, <1>9, <1>10, <1>11 DEF WalkInv

\* A directory or a file is taken in hand.
LEMMA NameIsFollowed ==
  ASSUME IInv, WalkInv, pc = "read", NEW n \in Top.left, TakeEntry(n), NEW c, c = ChildOf(n),
         NEW kind, kind = fs.kind[c.ino], kind \in {"dir", "file"}
  PROVE  WalkInv'
  <1> DEFINE at == IF kind = "dir" THEN "enter" ELSE "open"
  <1>1. /\ tree' = tree /\ walked' = walked /\ argv' = argv /\ entries' = entries /\ status' = status
        /\ ret' = ret /\ pc' = at /\ cand' = c /\ cut' = cut /\ stale' = stale /\ line' = line
        /\ rules' = rules /\ Took(n) /\ ~Skipped(n) /\ c.len < PathMax
    BY DEF TakeEntry, mainVars
  <1>2. /\ Inodes' = Inodes /\ (BeyondLimits' <=> BeyondLimits) /\ (Informs' <=> Informs)
        /\ (OperandRefused' <=> OperandRefused)
    BY <1>1, SameTree, SameLimits
  <1>3. status = -1 /\ ret = 0 /\ tree \in DOMAIN Trees /\ stale' = FALSE
    <2>1. status = -1 /\ ret = 0 /\ tree \in DOMAIN Trees /\ stale \in BOOLEAN
      BY DEF IInv, Control, Typed, Inside
    <2> QED BY <1>1, <2>1 DEF WalkInv, Started
  <1>4. /\ Len(c.rel) = Len(stack) /\ c.rel \in Seq(Names) /\ Len(stack) \in Nat \ {0}
        /\ c.rel[Len(stack)] = n /\ fs = Trees[tree]
        /\ c.ino = InodeIn(tree, c.rel) /\ c.len = LenOnDisk(Len(walked), c.rel)
        /\ KindAt(tree, c.rel) = kind
    BY ChildInHand, OfTheWalk DEF IInv
  <1>5. /\ Frames(tree, Len(walked), stack')
        /\ Len(stack') = Len(stack)
        /\ \A i \in 1 .. Len(stack) :
             stack'[i].ino = stack[i].ino /\ stack'[i].rel = stack[i].rel
        /\ \A i \in 1 .. Len(stack) : On(stack'[i], i, c.rel)
        /\ AreThose(Read(tree, stack, "read", line), tree, stack, rules)
             => AreThose(Read(tree, stack', at, line), tree, stack', rules)
        /\ \A path \in Seq(Names) :
             /\ AheadOf(stack', path) => AheadOf(stack, path)
             /\ AheadOf(stack, path) => AheadOf(stack', path) \/ IsPrefix(c.rel, path)
             /\ IsPrefix(c.rel, path) => AheadOf(stack, path)
    <2>1. at \in {"read", "enter", "open"}
      OBVIOUS
    <2> QED BY <1>1, <2>1, NameIsTaken
  <1>6. ASSUME NEW path
        PROVE  /\ ToCome(path) <=> AheadOf(stack, path)
               /\ ToCome(path)' <=> IsPrefix(c.rel, path) \/ AheadOf(stack', path)
    <2>1. at \in {"enter", "open"}
      OBVIOUS
    <2> QED BY <1>1, <2>1, AwaitedBy DEF ToCome
  <1>7. OnPath'
    <2>1. Hand(tree, Len(walked), stack', c, kind)
      BY <1>4, <1>5 DEF Hand
    <2>2. Len(stack') # 0
      BY <1>4, <1>5
    <2>3. stack' # << >>
      BY <2>2
    <2>4. at = "enter" => kind = "dir"
      OBVIOUS
    <2>5. at = "open" => kind = "file"
      OBVIOUS
    <2>6. at \notin {"hash", "add"}
      OBVIOUS
    <2> HIDE DEF at
    <2> QED BY <1>1, <1>5, <2>1, <2>3, <2>4, <2>5, <2>6 DEF OnPath
  <1>8. RulesRead'
    BY <1>1, <1>3, <1>5 DEF WalkInv, RulesRead
  <1>9. Rightly'
    <2>1. SUFFICES ASSUME ~cut
                   PROVE  /\ \A j \in 2 .. Len(stack') : WalkedDir(tree, stack'[j].rel)
                          /\ at = "enter" => WalkedDir(tree, c.rel)
                          /\ at \in {"open", "hash", "add"} => Listed(tree, c.rel)
      BY <1>1 DEF Rightly
    <2>2. ASSUME NEW j \in 2 .. Len(stack') PROVE WalkedDir(tree, stack'[j].rel)
      <3>1. j \in 2 .. Len(stack) /\ j \in 1 .. Len(stack)
        BY <1>4, <1>5
      <3> QED BY <1>3, <1>5, <2>1, <3>1 DEF WalkInv, Rightly
    <2>3. n # ".git"
      BY <1>1 DEF Skipped
    <2>4. Reached(tree, c.rel) /\ (IsPathIgnored(rules, c.rel, kind = "dir") <=> Excluded(tree, c.rel))
      BY <2>1, <2>3, ChildIsIgnored
    <2>5. CASE kind = "dir"
      <3>1. (kind = "dir") = TRUE
        BY <2>5
      <3>2. ~IsPathIgnored(rules, c.rel, TRUE)
        BY <1>1, <2>5 DEF Skipped
      <3>3. WalkedDir(tree, c.rel)
        BY <1>4, <2>4, <2>5, <3>1, <3>2 DEF WalkedDir
      <3> QED BY <2>2, <2>5, <3>3
    <2>6. CASE kind = "file"
      <3>1. (kind = "dir") = FALSE
        BY <2>6
      <3>2. ~IsPathIgnored(rules, c.rel, FALSE)
        BY <1>1, <2>6 DEF Skipped
      <3>3. Listed(tree, c.rel)
        BY <1>4, <2>4, <2>6, <3>1, <3>2 DEF Listed
      <3> QED BY <2>2, <2>6, <3>3
    <2> QED BY <2>5, <2>6
  <1>10. NothingIsMissing'
    <2>1. SUFFICES ASSUME ~cut
                   PROVE  /\ ToCome(<< >>)' \/ Len(walked) + IgnoreLen < PathMax
                          /\ \A path \in PathsIn[tree] :
                               ToCome(path)' \/ Settled(tree, Len(walked), entries, path)
      BY <1>1 DEF NothingIsMissing, Going
    <2>2. Going
      BY <1>3, <2>1 DEF Going
    <2>3. << >> \in Seq(Names) /\ \A path \in PathsIn[tree] : path \in Seq(Names)
      BY <1>3, PathsAre
    <2>4. \A path \in Seq(Names) : ToCome(path) => ToCome(path)'
      BY <1>5, <1>6
    <2> QED BY <2>2, <2>3, <2>4 DEF WalkInv, NothingIsMissing
  <1>11. NothingIsAlien'
    <2>1. SUFFICES ASSUME ~cut
                   PROVE  Rightful(tree, entries) /\ \A path \in PathsOf(entries) : ~ToCome(path)'
      BY <1>1 DEF NothingIsAlien
    <2>2. Rightful(tree, entries) /\ \A path \in PathsOf(entries) : ~ToCome(path)
      BY <2>1 DEF WalkInv, NothingIsAlien
    <2>3. \A path \in PathsOf(entries) : path \in Seq(Names)
      <3>1. \A i \in 1 .. Len(entries) : entries[i].path \in Seq(Names)
        BY <1>3, <2>2, PathsAre DEF Rightful
      <3> QED BY <3>1 DEF PathsOf
    <2> QED BY <1>5, <1>6, <2>2, <2>3
  <1>12. Blame'
    BY <1>1, <1>3 DEF Blame
  <1>13. Started' /\ Ordered'
    <2>1. (~cut => entries \in Seq(Entry)) /\ ~Informs /\ ~OperandRefused
      BY DEF WalkInv, Started
    <2>2. at \in {"enter", "open"}
      OBVIOUS
    <2> HIDE DEF at
    <2> QED BY <1>1, <1>2, <1>3, <2>1, <2>2 DEF Started, Entry, Ordered
  <1> QED BY <1>7, <1>8, <1>9, <1>10, <1>11, <1>12, <1>13 DEF WalkInv

LEMMA NameIsRead ==
  ASSUME IInv, WalkInv, NextEntry
  PROVE  WalkInv'
  <1>1. pc = "read" /\ stack # << >>
    BY DEF NextEntry, IInv, Control, Inside
  <1>2. PICK n \in Top.left : SkipEntry(n) \/ TakeEntry(n) \/ EntryFails(n)
    BY DEF NextEntry
  <1> DEFINE c == ChildOf(n)
  <1>3. CASE SkipEntry(n)
    <2>1. /\ tree' = tree /\ walked' = walked /\ argv' = argv /\ entries' = entries /\ status' = status
          /\ ret' = ret /\ pc' = "read" /\ cut' = cut /\ stale' \in {stale, FALSE} /\ line' = line /\ rules' = rules
          /\ Skipped(n) /\ Took(n)
      BY <1>1, <1>3 DEF SkipEntry, mainVars
    <2> QED BY <1>1, <2>1, NameIsPassed
  <1>4. CASE TakeEntry(n)
    <2>1. fs.kind[c.ino] \in {"dir", "file", "other"}
      <3>1. c.ino \in Inodes
        BY <1>1, ChildIsCandidate DEF IInv
      <3>2. fs.kind[c.ino] # "link"
        BY <1>4 DEF TakeEntry, Skipped
      <3> QED BY <3>1, <3>2, KindsOfInodes DEF IInv, Kinds
    <2>2. CASE fs.kind[c.ino] \in {"dir", "file"}
      BY <1>1, <1>4, <2>2, NameIsFollowed
    <2>3. CASE fs.kind[c.ino] = "other"
      <3>1. /\ tree' = tree /\ walked' = walked /\ argv' = argv /\ entries' = entries /\ status' = status
            /\ ret' = ret /\ pc' = "read" /\ cut' = cut /\ stale' \in {stale, FALSE} /\ line' = line
            /\ rules' = rules /\ Took(n) /\ c.len < PathMax
        BY <1>4, <2>3 DEF TakeEntry, mainVars
      <3> QED BY <1>1, <2>3, <3>1, NameIsPassed
    <2> QED BY <2>1, <2>2, <2>3
  <1>5. CASE EntryFails(n)
    <2>1. /\ tree' = tree /\ walked' = walked /\ argv' = argv /\ entries' = entries /\ status' = status
          /\ cut' = cut /\ ret' = 2 /\ pc' = "return" /\ PopRules(Depth)
          /\ stack' = SubSeq(stack, 1, Len(stack) - 1) /\ n # ".git"
          /\ (c.len >= PathMax /\ faults' = faults) \/ Fault
      BY <1>5 DEF EntryFails, Leave, LeaveFrame, mainVars
    <2>2. rules' \in Seq(Rule)
      BY <2>1, PoppedRules DEF IInv
    <2>3. faults \in Nat
      BY BoundsAssumption DEF IInv, Typed
    <2>4. faults' \in 0 .. faults /\ (faults' < faults \/ c.len >= PathMax)
      BY <2>1, <2>3 DEF Fault
    <2>5. ~cut => ret # 0 \/ faults' < faults \/ BeyondLimits
      BY <1>1, <2>1, <2>4, NamingBeyond
    <2>6. pc \in {"enter", "return"} \cup Inside
      BY <1>1 DEF Inside
    <2> QED BY <1>1, <2>1, <2>2, <2>4, <2>5, <2>6, WalkFails
  <1> QED BY <1>2, <1>3, <1>4, <1>5

\* The other failures of the walk.
LEMMA WalkBreaks ==
  ASSUME IInv, WalkInv, EnterFails \/ IgnoreFails \/ LineFails \/ FileFails
  PROVE  WalkInv'
  <1>1. /\ tree' = tree /\ walked' = walked /\ argv' = argv /\ entries' = entries /\ status' = status
        /\ cut' = cut /\ ret' # 0 /\ pc' = "return" /\ pc \in {"enter"} \cup Inside
        /\ pc # "enter" => stack' = SubSeq(stack, 1, Len(stack) - 1)
        /\ pc = "enter" => stack' = stack
        /\ rules' = rules \/ PopRules(Depth)
    BY DEF EnterFails, IgnoreFails, LineFails, FileFails, AbandonIgnore, LeaveFrame, mainVars, walkVars, Inside
  <1>2. pc # "enter" => stack # << >>
    BY <1>1 DEF IInv, Control
  <1>3. rules' \in Seq(Rule)
    BY <1>1, PoppedRules DEF IInv, Typed
  <1>4. faults \in Nat
    BY BoundsAssumption DEF IInv, Typed
  <1>5. faults' \in 0 .. faults /\ (~cut => faults' < faults \/ BeyondLimits)
    <2>1. CASE Fault
      BY <1>4, <2>1 DEF Fault
    <2>2. CASE pc = "enter" /\ (TooDeep \/ Cyclic) /\ UNCHANGED faults
      BY <1>4, <2>2, EnteringBeyond
    <2>3. CASE pc = "ignore" /\ IgnoreTooLong /\ UNCHANGED faults
      BY <1>4, <2>3, IgnoringBeyond
    <2> QED BY <2>1, <2>2, <2>3 DEF EnterFails, IgnoreFails, LineFails, FileFails
  <1>6. pc \in {"enter", "return"} \cup Inside
    BY <1>1
  <1> QED BY <1>1, <1>2, <1>3, <1>5, <1>6, WalkFails

\* A file is opened and read.
LEMMA FileIsRead ==
  ASSUME IInv, WalkInv, OpenFile \/ Interrupted \/ EndOfFile \/ \E n \in ReadSizes : ReadBytes(n)
  PROVE  WalkInv'
  <1>1. /\ tree' = tree /\ walked' = walked /\ argv' = argv /\ entries' = entries /\ status' = status
        /\ cut' = cut /\ ret' = ret /\ stack' = stack /\ rules' = rules /\ line' = line /\ cand' = cand
        /\ pc \in {"open", "hash", "add"} /\ pc' \in {"open", "hash", "add"}
    BY DEF OpenFile, Interrupted, EndOfFile, ReadBytes, mainVars, walkVars
  <1>2. /\ Inodes' = Inodes /\ (BeyondLimits' <=> BeyondLimits) /\ (Informs' <=> Informs)
        /\ (OperandRefused' <=> OperandRefused)
    BY <1>1, SameTree, SameLimits
  <1>3. status = -1 /\ ret = 0
    BY <1>1 DEF IInv, Control, Inside
  <1>4. \A path : ToCome(path)' <=> ToCome(path)
    BY <1>1, AwaitedBy DEF ToCome
  <1>5. OnPath'
    BY <1>1 DEF WalkInv, OnPath
  <1>6. RulesRead'
    <2>1. Read(tree, stack, pc, line) = Read(tree, stack, pc', line)
      BY <1>1 DEF Read
    <2> QED BY <1>1, <2>1 DEF WalkInv, RulesRead
  <1>7. Rightly'
    BY <1>1 DEF WalkInv, Rightly
  <1>8. NothingIsMissing'
    BY <1>1, <1>4 DEF WalkInv, NothingIsMissing, Going
  <1>9. NothingIsAlien'
    BY <1>1, <1>4 DEF WalkInv, NothingIsAlien
  <1>10. Blame'
    BY <1>1, <1>3 DEF Blame
  <1>11. Started' /\ Ordered'
    <2>1. (~cut => entries \in Seq(Entry)) /\ ~Informs /\ ~OperandRefused
      BY <1>1 DEF WalkInv, Started
    <2> QED BY <1>1, <1>2, <1>3, <2>1 DEF Started, Entry, Ordered
  <1> QED BY <1>5, <1>6, <1>7, <1>8, <1>9, <1>10, <1>11 DEF WalkInv

LEMMA NothingAfterCut == ASSUME cut', OnPath', Started' PROVE WalkInv'
  BY DEF WalkInv, RulesRead, Rightly, NothingIsMissing, Going, NothingIsAlien, Blame, Ordered

LEMMA FileIsListed ==
  ASSUME IInv, WalkInv, AddEntry, ~cut
  PROVE  WalkInv'
  <1> DEFINE e == [path |-> cand.rel, file |-> cand.ino]
  <1>1. /\ tree' = tree /\ walked' = walked /\ argv' = argv /\ status' = status
        /\ cut' = cut /\ ret' = ret /\ stack' = stack /\ rules' = rules /\ line' = line /\ stale' = FALSE
        /\ pc = "add" /\ pc' = "read" /\ entries' = Append(entries, e)
    BY DEF AddEntry, mainVars, walkVars
  <1>2. /\ Inodes' = Inodes /\ (BeyondLimits' <=> BeyondLimits) /\ (Informs' <=> Informs)
        /\ (OperandRefused' <=> OperandRefused)
    BY <1>1, SameTree, SameLimits
  <1>3. /\ status = -1 /\ ret = 0 /\ tree \in DOMAIN Trees /\ stack # << >> /\ Len(stack) \in Nat \ {0}
        /\ cand.rel \in Seq(Names) /\ cand.ino \in Inodes /\ cand.ino # Nothing
        /\ cand.len < PathMax /\ cand.len \in Nat /\ PathMax \in Nat
    <2>1. status = -1 /\ ret = 0 /\ stack # << >>
      BY <1>1 DEF IInv, Control, Inside
    <2>2. cand \in Candidate /\ PathMax \in Nat
      BY BoundsAssumption DEF IInv, Typed
    <2> QED BY <2>1, <2>2, OfTheWalk DEF IInv, Candidate
  <1>4. /\ Len(cand.rel) = Len(stack) /\ cand.ino = InodeIn(tree, cand.rel)
        /\ Trees[tree].kind[cand.ino] = "file" /\ cand.len = LenOnDisk(Len(walked), cand.rel)
        /\ \A i \in 1 .. Len(stack) : On(stack[i], i, cand.rel)
    BY <1>1 DEF WalkInv, OnPath, Hand
  <1>5. KindAt(tree, cand.rel) = "file"
    BY <1>4 DEF KindAt
  <1>6. /\ entries \in Seq(Entry) /\ e \in Entry /\ ~Informs /\ ~OperandRefused
    <2>1. (~cut => entries \in Seq(Entry)) /\ ~Informs /\ ~OperandRefused
      BY <1>1 DEF WalkInv, Started
    <2> QED BY <1>3, <2>1 DEF Entry
  <1>7. e.path = cand.rel /\ e.file = cand.ino
    OBVIOUS
  <1> HIDE DEF e
  <1>8. /\ entries' \in Seq(Entry) /\ Len(entries') = Len(entries) + 1 /\ entries'[Len(entries) + 1] = e
        /\ \A i \in 1 .. Len(entries) : entries'[i] = entries[i]
        /\ Len(entries) \in Nat
    BY <1>1, <1>6, Longer
  <1>9. \A path : path \in PathsOf(entries') <=> path \in PathsOf(entries) \/ path = cand.rel
    <2>1. ASSUME NEW i \in 1 .. Len(entries') PROVE entries'[i].path \in PathsOf(entries) \/ entries'[i].path = cand.rel
      <3>1. i \in 1 .. Len(entries) \/ i = Len(entries) + 1
        BY <1>8
      <3> QED BY <1>7, <1>8, <3>1 DEF PathsOf
    <2>2. ASSUME NEW i \in 1 .. Len(entries) PROVE entries[i].path \in PathsOf(entries')
      <3>1. i \in 1 .. Len(entries')
        BY <1>8
      <3> QED BY <1>8, <3>1 DEF PathsOf
    <2>3. cand.rel \in PathsOf(entries')
      <3>1. Len(entries) + 1 \in 1 .. Len(entries')
        BY <1>8
      <3> QED BY <1>7, <1>8, <3>1 DEF PathsOf
    <2> QED BY <2>1, <2>2, <2>3 DEF PathsOf
  <1>10. \A path : /\ ToCome(path) <=> IsPrefix(cand.rel, path) \/ AheadOf(stack, path)
                   /\ ToCome(path)' <=> AheadOf(stack, path)
    BY <1>1, AwaitedBy DEF ToCome
  <1>11. OnPath'
    BY <1>1 DEF WalkInv, OnPath
  <1>12. RulesRead'
    <2>1. Read(tree, stack, "add", line) = Read(tree, stack, "read", line)
      BY DEF Read
    <2> QED BY <1>1, <2>1 DEF WalkInv, RulesRead
  <1>13. Rightly'
    BY <1>1 DEF WalkInv, Rightly
  <1>14. NothingIsMissing'
    <2>1. SUFFICES ASSUME ~cut
                   PROVE  /\ ToCome(<< >>)' \/ Len(walked) + IgnoreLen < PathMax
                          /\ \A path \in PathsIn[tree] :
                               ToCome(path)' \/ Settled(tree, Len(walked), entries', path)
      BY <1>1 DEF NothingIsMissing, Going
    <2>2. Going
      BY <1>1, <1>3, <2>1 DEF Going
    <2>3. ASSUME NEW path \in Seq(Names), IsPrefix(cand.rel, path)
          PROVE  Settled(tree, Len(walked), entries', path)
      <3>1. ~WalkedDir(tree, cand.rel)
        BY <1>5 DEF WalkedDir
      <3>2. CASE path = cand.rel
        <4>1. ~Unnameable(tree, Len(walked), path)
          BY <1>3, <1>4, <3>2 DEF Unnameable
        <4>2. path \in PathsOf(entries')
          BY <1>9, <3>2
        <4> QED BY <3>1, <3>2, <4>1, <4>2 DEF Settled, Unwalkable
      <3>3. CASE path # cand.rel
        <4>1. Len(cand.rel) # 0
          BY <1>3, <1>4
        <4> QED BY <1>3, <2>3, <3>1, <3>3, <4>1, NotReachedBelow
      <3> QED BY <3>2, <3>3
    <2>4. ~IsPrefix(cand.rel, << >>)
      <3>1. << >> \in Seq(Names) /\ Len(<< >>) = 0 /\ ~(Len(cand.rel) <= 0)
        BY <1>3, <1>4
      <3> QED BY <1>3, <3>1, PrefixMeans
    <2>5. ToCome(<< >>)' \/ Len(walked) + IgnoreLen < PathMax
      BY <1>10, <2>2, <2>4 DEF WalkInv, NothingIsMissing
    <2>6. ASSUME NEW path \in PathsIn[tree] PROVE ToCome(path)' \/ Settled(tree, Len(walked), entries', path)
      <3>1. path \in Seq(Names)
        BY <1>3, PathsAre
      <3>2. CASE ToCome(path)
        BY <1>10, <2>3, <3>1, <3>2
      <3>3. CASE ~ToCome(path)
        <4>1. Settled(tree, Len(walked), entries, path)
          BY <2>2, <3>3 DEF WalkInv, NothingIsMissing
        <4> QED BY <1>9, <4>1 DEF Settled
      <3> QED BY <3>2, <3>3
    <2> QED BY <2>5, <2>6
  <1>15. NothingIsAlien'
    <2>1. SUFFICES ASSUME ~cut
                   PROVE  Rightful(tree, entries') /\ \A path \in PathsOf(entries') : ~ToCome(path)'
      BY <1>1 DEF NothingIsAlien
    <2>2. Rightful(tree, entries) /\ \A path \in PathsOf(entries) : ~ToCome(path)
      BY <2>1 DEF WalkInv, NothingIsAlien
    <2>3. cand.rel \notin PathsOf(entries)
      <3>1. IsPrefix(cand.rel, cand.rel)
        BY <1>3, PrefixMeans, PrefixOfAll
      <3> QED BY <1>10, <2>2, <3>1
    <2>4. ~AheadOf(stack, cand.rel)
      BY <1>4, OnIsNotAhead DEF AheadOf
    <2>5. cand.rel \in PathsIn[tree] /\ Listed(tree, cand.rel)
      <3>1. Listed(tree, cand.rel)
        BY <1>1, <1>3, <2>1 DEF WalkInv, Rightly
      <3>2. Len(stack) <= MaxDepth /\ MaxDepth \in Nat
        BY BoundsAssumption DEF IInv, FramesInStep
      <3>3. Len(cand.rel) \in 1 .. MaxDepth
        BY <1>3, <1>4, <3>2
      <3> QED BY <1>3, <1>4, <3>1, <3>3, PathsAre
    <2>6. ASSUME NEW i \in 1 .. Len(entries')
          PROVE  /\ entries'[i].path \in PathsIn[tree] /\ Listed(tree, entries'[i].path)
                 /\ entries'[i].file = InodeIn(tree, entries'[i].path)
      <3>1. CASE i = Len(entries) + 1
        BY <1>4, <1>7, <1>8, <2>5, <3>1
      <3>2. CASE i # Len(entries) + 1
        <4>1. i \in 1 .. Len(entries)
          BY <1>8, <3>2
        <4> QED BY <1>8, <2>2, <4>1 DEF Rightful
      <3> QED BY <3>1, <3>2
    <2>7. ASSUME NEW i \in 1 .. Len(entries'), NEW j \in 1 .. Len(entries'),
                 entries'[i].path = entries'[j].path
          PROVE  i = j
      <3>1. /\ i \in 1 .. Len(entries) \/ i = Len(entries) + 1
            /\ j \in 1 .. Len(entries) \/ j = Len(entries) + 1
        BY <1>8
      <3>2. CASE i \in 1 .. Len(entries) /\ j \in 1 .. Len(entries)
        BY <1>8, <2>2, <2>7, <3>2 DEF Rightful
      <3>3. CASE i \in 1 .. Len(entries) /\ j = Len(entries) + 1
        <4>1. entries[i].path = cand.rel
          BY <1>7, <1>8, <2>7, <3>3
        <4> QED BY <2>3, <3>3, <4>1 DEF PathsOf
      <3>4. CASE j \in 1 .. Len(entries) /\ i = Len(entries) + 1
        <4>1. entries[j].path = cand.rel
          BY <1>7, <1>8, <2>7, <3>4
        <4> QED BY <2>3, <3>4, <4>1 DEF PathsOf
      <3> QED BY <3>1, <3>2, <3>3, <3>4
    <2>8. Rightful(tree, entries')
      BY <2>6, <2>7 DEF Rightful
    <2>9. \A path \in PathsOf(entries') : ~ToCome(path)'
      BY <1>9, <1>10, <2>2, <2>4
    <2> QED BY <2>8, <2>9
  <1>16. Blame'
    BY <1>1, <1>3 DEF Blame
  <1>17. Started' /\ Ordered'
    BY <1>1, <1>2, <1>3, <1>6, <1>8 DEF Started, Entry, Ordered
  <1> QED BY <1>11, <1>12, <1>13, <1>14, <1>15, <1>16, <1>17 DEF WalkInv

LEMMA FileIsAdded ==
  ASSUME IInv, WalkInv, AddEntry
  PROVE  WalkInv'
  <1>1. CASE ~cut
    BY <1>1, FileIsListed
  <1>2. CASE cut
    <2>1. /\ tree' = tree /\ walked' = walked /\ argv' = argv /\ status' = status
          /\ cut' = cut /\ stack' = stack /\ stale' = FALSE /\ pc = "add" /\ pc' = "read"
      BY DEF AddEntry, mainVars, walkVars
    <2>2. (Informs' <=> Informs) /\ (OperandRefused' <=> OperandRefused)
      BY <2>1, SameLimits
    <2>3. status = -1 /\ ~Informs /\ ~OperandRefused
      BY <2>1 DEF IInv, Control, WalkInv, Started
    <2>4. OnPath'
      BY <2>1 DEF WalkInv, OnPath
    <2>5. Started'
      BY <1>2, <2>1, <2>2, <2>3 DEF Started
    <2> QED BY <1>2, <2>1, <2>4, <2>5, NothingAfterCut
  <1> QED BY <1>1, <1>2

-----------------------------------------------------------------------------
(* The order of the paths *)

LEMMA RanksAreNumbers ==
  ASSUME NEW p \in Seq(Names), NEW q \in Seq(Names), NEW i \in 1 .. Len(p), i \in 1 .. Len(q)
  PROVE  /\ Rank(p, i) \in Nat
         /\ Rank(p, i) = Rank(q, i) => p[i] = q[i] /\ (i < Len(p) <=> i < Len(q))
         /\ p[i] = q[i] /\ i < Len(p) /\ i < Len(q) => Rank(p, i) = Rank(q, i)
  <1> DEFINE a == i < Len(p)
             b == i < Len(q)
  <1>1. a \in BOOLEAN /\ b \in BOOLEAN
    OBVIOUS
  <1>2. p[i] \in Names /\ q[i] \in Names
    OBVIOUS
  <1>3. Rank(p, i) = Order[<<p[i], a>>] /\ Rank(q, i) = Order[<<q[i], b>>]
    BY DEF Rank
  <1>4. a /\ b => a = TRUE /\ b = TRUE
    OBVIOUS
  <1>5. a = b => (i < Len(p) <=> i < Len(q))
    OBVIOUS
  <1>6. i < Len(p) /\ i < Len(q) => a /\ b
    OBVIOUS
  <1> HIDE DEF a, b
  <1>7. <<p[i], a>> \in Names \X BOOLEAN /\ <<q[i], b>> \in Names \X BOOLEAN
    BY <1>1, <1>2
  <1>8. Rank(p, i) \in Nat
    BY <1>3, <1>7, BoundsAssumption
  <1>9. Rank(p, i) = Rank(q, i) => <<p[i], a>> = <<q[i], b>>
    BY <1>3, <1>7, BoundsAssumption
  <1>10. <<p[i], a>> = <<q[i], b>> => p[i] = q[i] /\ a = b
    OBVIOUS
  <1>11. p[i] = q[i] /\ a = TRUE /\ b = TRUE => Rank(p, i) = Rank(q, i)
    BY <1>3
  <1> QED BY <1>4, <1>5, <1>6, <1>8, <1>9, <1>10, <1>11

LEMMA PathBeforeAt ==
  ASSUME NEW p \in Seq(Names), NEW q \in Seq(Names)
  PROVE  PathBefore(p, q) <=>
           \E i \in 1 .. Len(p) : /\ i \in 1 .. Len(q) /\ Rank(p, i) < Rank(q, i)
                                  /\ \A j \in 1 .. i - 1 : p[j] = q[j]
  <1>1. DOMAIN p \cap DOMAIN q = {i \in 1 .. Len(p) : i \in 1 .. Len(q)}
    OBVIOUS
  <1> QED BY <1>1 DEF PathBefore

\* Before the place where two paths differ in rank they have the same ranks.
LEMMA SameRanksBefore ==
  ASSUME NEW p \in Seq(Names), NEW q \in Seq(Names), NEW i \in 1 .. Len(p), i \in 1 .. Len(q),
         \A j \in 1 .. i - 1 : p[j] = q[j], NEW j \in 1 .. i - 1
  PROVE  j \in 1 .. Len(p) /\ j \in 1 .. Len(q) /\ Rank(p, j) = Rank(q, j) /\ Rank(p, j) \in Nat
  <1>1. j \in 1 .. Len(p) /\ j \in 1 .. Len(q) /\ j < Len(p) /\ j < Len(q)
    OBVIOUS
  <1> QED BY <1>1, RanksAreNumbers

LEMMA PathBeforeIsStrict ==
  ASSUME NEW p \in Seq(Names), NEW q \in Seq(Names), PathBefore(p, q)
  PROVE  ~PathBefore(q, p)
  <1>1. SUFFICES ASSUME PathBefore(q, p) PROVE FALSE
    OBVIOUS
  <1>2. PICK i \in 1 .. Len(p) : /\ i \in 1 .. Len(q) /\ Rank(p, i) < Rank(q, i)
                                 /\ \A j \in 1 .. i - 1 : p[j] = q[j]
    BY PathBeforeAt
  <1>3. PICK l \in 1 .. Len(q) : /\ l \in 1 .. Len(p) /\ Rank(q, l) < Rank(p, l)
                                 /\ \A j \in 1 .. l - 1 : q[j] = p[j]
    BY <1>1, PathBeforeAt
  <1>4. Rank(p, i) \in Nat /\ Rank(q, i) \in Nat /\ Rank(p, l) \in Nat /\ Rank(q, l) \in Nat
    BY <1>2, <1>3, RanksAreNumbers
  <1>5. CASE i = l
    BY <1>2, <1>3, <1>4, <1>5
  <1>6. CASE i < l
    <2>1. i \in 1 .. l - 1
      BY <1>6
    <2>2. Rank(q, i) = Rank(p, i)
      BY <1>3, <2>1, SameRanksBefore
    <2> QED BY <1>2, <1>4, <2>2
  <1>7. CASE l < i
    <2>1. l \in 1 .. i - 1
      BY <1>7
    <2>2. Rank(p, l) = Rank(q, l)
      BY <1>2, <2>1, SameRanksBefore, SMTT(30)
    <2> QED BY <1>3, <1>4, <2>2
  <1> QED BY <1>5, <1>6, <1>7

LEMMA PathBeforeIsTransitive ==
  ASSUME NEW p \in Seq(Names), NEW q \in Seq(Names), NEW r \in Seq(Names), PathBefore(p, q), PathBefore(q, r)
  PROVE  PathBefore(p, r)
  <1>1. PICK i \in 1 .. Len(p) : /\ i \in 1 .. Len(q) /\ Rank(p, i) < Rank(q, i)
                                 /\ \A j \in 1 .. i - 1 : p[j] = q[j]
    BY PathBeforeAt
  <1>2. PICK l \in 1 .. Len(q) : /\ l \in 1 .. Len(r) /\ Rank(q, l) < Rank(r, l)
                                 /\ \A j \in 1 .. l - 1 : q[j] = r[j]
    BY PathBeforeAt
  <1>3. Rank(p, i) \in Nat /\ Rank(q, i) \in Nat /\ Rank(q, l) \in Nat /\ Rank(r, l) \in Nat
    BY <1>1, <1>2, RanksAreNumbers
  <1>4. CASE i = l
    <2>1. Rank(p, i) < Rank(r, i) /\ i \in 1 .. Len(r) /\ \A j \in 1 .. i - 1 : p[j] = r[j]
      BY <1>1, <1>2, <1>3, <1>4
    <2> QED BY <2>1, PathBeforeAt
  <1>5. CASE i < l
    <2>1. i \in 1 .. l - 1 /\ i \in 1 .. Len(r)
      BY <1>2, <1>5
    <2>2. Rank(q, i) = Rank(r, i)
      <3>1. l \in 1 .. Len(q) /\ l \in 1 .. Len(r) /\ \A j \in 1 .. l - 1 : q[j] = r[j]
        BY <1>2
      <3>2. q[i] = r[i] /\ i < Len(q) /\ i < Len(r) /\ i \in 1 .. Len(q)
        BY <1>1, <1>5, <2>1, <3>1
      <3> QED BY <2>1, <3>2, RanksAreNumbers
    <2>3. \A j \in 1 .. i - 1 : j \in 1 .. l - 1
      BY <1>5
    <2>4. \A j \in 1 .. i - 1 : p[j] = r[j]
      BY <1>1, <1>2, <2>3
    <2> QED BY <1>1, <2>1, <2>2, <2>4, PathBeforeAt
  <1>6. CASE l < i
    <2>1. l \in 1 .. i - 1 /\ l \in 1 .. Len(p)
      BY <1>1, <1>6
    <2>2. Rank(p, l) = Rank(q, l)
      BY <1>1, <2>1, SameRanksBefore, SMTT(30)
    <2>3. \A j \in 1 .. l - 1 : j \in 1 .. i - 1
      BY <1>6
    <2>4. \A j \in 1 .. l - 1 : p[j] = r[j]
      BY <1>1, <1>2, <2>3
    <2> QED BY <1>2, <2>1, <2>2, <2>4, PathBeforeAt
  <1> QED BY <1>4, <1>5, <1>6

LEMMA PathBeforeIsTotal ==
  ASSUME NEW p \in Seq(Names), NEW q \in Seq(Names), p # q, Len(p) # 0, Len(q) # 0
  PROVE  PathBefore(p, q) \/ PathBefore(q, p)
  <1> DEFINE D == {i \in 1 .. Len(p) : i \in 1 .. Len(q) /\ Rank(p, i) # Rank(q, i)}
  <1>1. D # {}
    <2>1. SUFFICES ASSUME D = {} PROVE FALSE
      OBVIOUS
    <2>2. \A i \in 1 .. Len(p) : i \in 1 .. Len(q) => p[i] = q[i] /\ (i < Len(p) <=> i < Len(q))
      BY <2>1, RanksAreNumbers
    <2>3. Len(p) = Len(q)
      <3>1. Len(p) \in Nat \ {0} /\ Len(q) \in Nat \ {0}
        OBVIOUS
      <3>2. CASE Len(p) < Len(q)
        <4>1. Len(p) \in 1 .. Len(p) /\ Len(p) \in 1 .. Len(q)
          BY <3>1, <3>2
        <4> QED BY <2>2, <3>1, <3>2, <4>1
      <3>3. CASE Len(q) < Len(p)
        <4>1. Len(q) \in 1 .. Len(p) /\ Len(q) \in 1 .. Len(q)
          BY <3>1, <3>3
        <4> QED BY <2>2, <3>1, <3>3, <4>1
      <3> QED BY <3>1, <3>2, <3>3
    <2>4. \A i \in 1 .. Len(p) : p[i] = q[i]
      BY <2>2, <2>3
    <2> QED BY <2>3, <2>4
  <1>2. D \subseteq Nat
    OBVIOUS
  <1> HIDE DEF D
  <1>3. PICK i \in D : \A j \in D : i <= j
    BY <1>1, <1>2, LeastNatural
  <1>4. i \in 1 .. Len(p) /\ i \in 1 .. Len(q) /\ Rank(p, i) # Rank(q, i)
    BY <1>3 DEF D
  <1>5. ASSUME NEW j \in 1 .. i - 1 PROVE p[j] = q[j]
    <2>1. j \in 1 .. Len(p) /\ j \in 1 .. Len(q) /\ ~(i <= j)
      BY <1>4
    <2>2. Rank(p, j) = Rank(q, j)
      BY <1>3, <2>1 DEF D
    <2> QED BY <2>1, <2>2, RanksAreNumbers
  <1>6. Rank(p, i) \in Nat /\ Rank(q, i) \in Nat
    BY <1>4, RanksAreNumbers
  <1>7. Rank(p, i) < Rank(q, i) \/ Rank(q, i) < Rank(p, i)
    BY <1>4, <1>6
  <1> QED BY <1>4, <1>5, <1>7, PathBeforeAt

-----------------------------------------------------------------------------
(* Sorting what is all different *)

\* A strict order of n places, as a set of pairs.
StrictOrder(C, n) ==
  /\ \A m, k \in 1 .. n : <<m, k>> \in C => <<k, m>> \notin C
  /\ \A l, m, k \in 1 .. n : <<l, m>> \in C /\ <<m, k>> \in C => <<l, k>> \in C
  /\ \A m, k \in 1 .. n : m # k => <<m, k>> \in C \/ <<k, m>> \in C

UpTo(C, n, k) == {m \in 1 .. n : <<m, k>> \in C \/ m = k}
PlaceIn(C, n, k) == Cardinality(UpTo(C, n, k))

LEMMA PlacesGrow ==
  ASSUME NEW C, NEW n \in Nat, StrictOrder(C, n), NEW m \in 1 .. n, NEW k \in 1 .. n, <<m, k>> \in C
  PROVE  PlaceIn(C, n, m) < PlaceIn(C, n, k)
  <1> DEFINE S == UpTo(C, n, m)
             T == UpTo(C, n, k)
  <1>1. S \in SUBSET T
    BY DEF UpTo, StrictOrder
  <1>2. k \in T /\ k \notin S
    BY DEF UpTo, StrictOrder
  <1>3. T \in SUBSET (1 .. n) /\ IsFiniteSet(1 .. n)
    BY FS_Interval DEF UpTo
  <1> HIDE DEF S, T
  <1>4. IsFiniteSet(T) /\ IsFiniteSet(S)
    BY <1>1, <1>3, FS_Subset
  <1>5. Cardinality(S) <= Cardinality(T) /\ Cardinality(S) # Cardinality(T)
    BY <1>1, <1>2, <1>4, FS_Subset
  <1>6. Cardinality(S) \in Nat /\ Cardinality(T) \in Nat
    BY <1>4, FS_CardinalityType
  <1> QED BY <1>5, <1>6 DEF PlaceIn, S, T

LEMMA PlacesAreFull ==
  ASSUME NEW C, NEW n \in Nat, StrictOrder(C, n)
  PROVE  /\ \A k \in 1 .. n : PlaceIn(C, n, k) \in 1 .. n
         /\ \A m, k \in 1 .. n : PlaceIn(C, n, m) = PlaceIn(C, n, k) => m = k
         /\ \A r \in 1 .. n : \E k \in 1 .. n : PlaceIn(C, n, k) = r
  <1> DEFINE f == [k \in 1 .. n |-> PlaceIn(C, n, k)]
  <1>1. IsFiniteSet(1 .. n) /\ Cardinality(1 .. n) = n
    BY FS_Interval
  <1>2. ASSUME NEW k \in 1 .. n PROVE PlaceIn(C, n, k) \in 1 .. n
    <2> DEFINE S == UpTo(C, n, k)
    <2>1. S \in SUBSET (1 .. n) /\ k \in S
      BY DEF UpTo
    <2> HIDE DEF S
    <2>2. IsFiniteSet(S) /\ Cardinality(S) <= n
      BY <1>1, <2>1, FS_Subset
    <2>3. Cardinality(S) \in Nat /\ Cardinality(S) # 0
      BY <2>1, <2>2, FS_CardinalityType, FS_EmptySet
    <2>4. Cardinality(S) \in 1 .. n
      BY <2>2, <2>3
    <2> QED BY <2>4 DEF PlaceIn, S
  <1>3. ASSUME NEW m \in 1 .. n, NEW k \in 1 .. n, m # k PROVE PlaceIn(C, n, m) # PlaceIn(C, n, k)
    <2>1. <<m, k>> \in C \/ <<k, m>> \in C
      BY <1>3 DEF StrictOrder
    <2>2. PlaceIn(C, n, m) < PlaceIn(C, n, k) \/ PlaceIn(C, n, k) < PlaceIn(C, n, m)
      BY <2>1, PlacesGrow
    <2>3. PlaceIn(C, n, m) \in Int /\ PlaceIn(C, n, k) \in Int
      BY <1>2
    <2> QED BY <2>2, <2>3
  <1>4. f \in [1 .. n -> 1 .. n] /\ \A k \in 1 .. n : f[k] = PlaceIn(C, n, k)
    BY <1>2
  <1> HIDE DEF f
  <1>5. f \in Injection(1 .. n, 1 .. n)
    BY <1>3, <1>4 DEF Injection, IsInjective
  <1>6. f \in Surjection(1 .. n, 1 .. n)
    BY <1>1, <1>5, FS_Injection
  <1>7. \A r \in 1 .. n : \E k \in 1 .. n : f[k] = r
    BY <1>6 DEF Surjection
  <1> QED BY <1>2, <1>3, <1>4, <1>7

\* The files are all different: in the order of their paths each has its place.
LEMMA SortingOrders ==
  ASSUME NEW k \in DOMAIN Trees, NEW F, NEW es \in Seq([path : Seq(Names), file : F]), Rightful(k, es),
         NEW t, t = Sorted(es)
  PROVE  /\ t \in Seq([path : Seq(Names), file : F]) /\ PathsOf(t) = PathsOf(es)
         /\ Rightful(k, t) /\ InOrder(t)
  <1> DEFINE R == [path : Seq(Names), file : F]
             n == Len(es)
             before(m, l) == PathBefore(es[m].path, es[l].path)
             C == {x \in (1 .. n) \X (1 .. n) : before(x[1], x[2])}
             place(l) == Cardinality({m \in DOMAIN es : \/ PathBefore(es[m].path, es[l].path)
                                                        \/ es[m].path = es[l].path /\ m <= l})
             p == [r \in 1 .. n |-> CHOOSE l \in DOMAIN es : place(l) = r]
  <1>1. n \in Nat /\ DOMAIN es = 1 .. n
    OBVIOUS
  <1>2. \A i \in 1 .. n : /\ es[i] \in [path : Seq(Names), file : F]
                          /\ es[i].path \in Seq(Names) /\ Len(es[i].path) # 0
    <2>1. \A i \in 1 .. n : es[i].path \in PathsIn[k]
      BY DEF Rightful
    <2>2. \A i \in 1 .. n : es[i] \in R
      <3>1. es \in Seq(R)
        OBVIOUS
      <3> HIDE DEF R
      <3> QED BY <3>1
    <2>3. \A i \in 1 .. n : Len(es[i].path) \in 1 .. MaxDepth
      BY <2>1, PathsAre
    <2> QED BY <2>2, <2>3
  <1>3. \A i, j \in 1 .. n : es[i].path = es[j].path => i = j
    BY DEF Rightful
  <1>4. \A i, j \in 1 .. n : <<i, j>> \in C <=> PathBefore(es[i].path, es[j].path)
    OBVIOUS
  <1>5. Sorted(es) = [r \in 1 .. n |-> es[p[r]]]
    BY <1>1 DEF Sorted
  <1>6. \A l \in 1 .. n : place(l) = PlaceIn(C, n, l)
    <2>1. SUFFICES ASSUME NEW l \in 1 .. n PROVE place(l) = PlaceIn(C, n, l)
      OBVIOUS
    <2> DEFINE S == {m \in DOMAIN es : \/ PathBefore(es[m].path, es[l].path)
                                       \/ es[m].path = es[l].path /\ m <= l}
    <2>2. \A m \in 1 .. n : m \in S <=> m \in UpTo(C, n, l)
      <3> HIDE DEF C
      <3>1. \A m \in 1 .. n : es[m].path = es[l].path /\ m <= l <=> m = l
        BY <1>1, <1>3
      <3> QED BY <1>1, <1>4, <3>1 DEF UpTo
    <2>3. S \subseteq 1 .. n /\ UpTo(C, n, l) \subseteq 1 .. n
      BY <1>1 DEF UpTo
    <2>4. S = UpTo(C, n, l)
      BY <2>2, <2>3
    <2> QED BY <2>4 DEF PlaceIn
  <1>7. ASSUME NEW r \in 1 .. n, \E l \in 1 .. n : place(l) = r
        PROVE  p[r] \in 1 .. n /\ place(p[r]) = r
    <2>1. p[r] = CHOOSE l \in DOMAIN es : place(l) = r
      OBVIOUS
    <2> HIDE DEF place
    <2> QED BY <1>1, <1>7, <2>1
  <1> HIDE DEF place, C, p
  <1>8. StrictOrder(C, n)
    <2>1. ASSUME NEW m \in 1 .. n, NEW l \in 1 .. n
          PROVE  /\ <<m, l>> \in C => <<l, m>> \notin C
                 /\ m # l => <<m, l>> \in C \/ <<l, m>> \in C
      <3>1. <<m, l>> \in C => <<l, m>> \notin C
        BY <1>2, <1>4, PathBeforeIsStrict
      <3>2. ASSUME m # l PROVE <<m, l>> \in C \/ <<l, m>> \in C
        <4>1. es[m].path # es[l].path
          BY <1>3, <3>2
        <4> QED BY <1>2, <1>4, <4>1, PathBeforeIsTotal
      <3> QED BY <3>1, <3>2
    <2>2. ASSUME NEW h \in 1 .. n, NEW m \in 1 .. n, NEW l \in 1 .. n, <<h, m>> \in C, <<m, l>> \in C
          PROVE  <<h, l>> \in C
      BY <1>2, <1>4, <2>2, PathBeforeIsTransitive
    <2> QED BY <2>1, <2>2 DEF StrictOrder
  <1>9. ASSUME NEW r \in 1 .. n PROVE p[r] \in 1 .. n /\ PlaceIn(C, n, p[r]) = r /\ t[r] = es[p[r]]
    <2>1. \E l \in 1 .. n : place(l) = r
      BY <1>1, <1>6, <1>8, PlacesAreFull
    <2>2. p[r] \in 1 .. n /\ place(p[r]) = r
      BY <1>7, <2>1
    <2> QED BY <1>5, <1>6, <2>2
  <1>10. t = [r \in 1 .. n |-> t[r]] /\ \A r \in 1 .. n : t[r] \in [path : Seq(Names), file : F]
    BY <1>2, <1>5, <1>9
  <1>11. t \in Seq([path : Seq(Names), file : F]) /\ Len(t) = n
    BY <1>1, <1>10
  <1>12. ASSUME NEW i \in 1 .. n PROVE \E r \in 1 .. n : t[r] = es[i]
    <2>1. PlaceIn(C, n, i) \in 1 .. n
      BY <1>1, <1>8, PlacesAreFull
    <2>2. PICK r \in 1 .. n : r = PlaceIn(C, n, i)
      BY <2>1
    <2>3. p[r] = i
      <3>1. p[r] \in 1 .. n /\ PlaceIn(C, n, p[r]) = PlaceIn(C, n, i)
        BY <1>9, <2>2
      <3> QED BY <1>1, <1>8, <3>1, PlacesAreFull
    <2> QED BY <1>9, <2>3
  <1>13. PathsOf(t) = PathsOf(es)
    <2>1. ASSUME NEW r \in 1 .. Len(t) PROVE t[r].path \in PathsOf(es)
      BY <1>9, <1>11 DEF PathsOf
    <2>2. ASSUME NEW i \in 1 .. Len(es) PROVE es[i].path \in PathsOf(t)
      BY <1>11, <1>12 DEF PathsOf
    <2> QED BY <2>1, <2>2 DEF PathsOf
  <1>14. Rightful(k, t)
    <2>1. ASSUME NEW r \in 1 .. Len(t)
          PROVE  /\ t[r].path \in PathsIn[k] /\ Listed(k, t[r].path)
                 /\ t[r].file = InodeIn(k, t[r].path)
      BY <1>9, <1>11, SMTT(30) DEF Rightful
    <2>2. ASSUME NEW q \in 1 .. Len(t), NEW r \in 1 .. Len(t), t[q].path = t[r].path PROVE q = r
      <3>1. p[q] = p[r]
        <4>1. q \in 1 .. n /\ r \in 1 .. n
          BY <1>11
        <4>2. p[q] \in 1 .. n /\ p[r] \in 1 .. n /\ es[p[q]].path = es[p[r]].path
          BY <1>9, <2>2, <4>1
        <4> QED BY <1>3, <4>2
      <3> QED BY <1>9, <1>11, <3>1
    <2> QED BY <2>1, <2>2 DEF Rightful
  <1>15. InOrder(t)
    <2>1. ASSUME NEW q \in 1 .. n, NEW r \in 1 .. n, q < r PROVE PathBefore(t[q].path, t[r].path)
      <3>1. p[q] \in 1 .. n /\ p[r] \in 1 .. n /\ PlaceIn(C, n, p[q]) = q /\ PlaceIn(C, n, p[r]) = r
        BY <1>9
      <3>2. p[q] # p[r]
        BY <2>1, <3>1
      <3>3. <<p[r], p[q]>> \notin C
        <4>1. SUFFICES ASSUME <<p[r], p[q]>> \in C PROVE FALSE
          OBVIOUS
        <4>2. PlaceIn(C, n, p[r]) < PlaceIn(C, n, p[q])
          BY <1>1, <1>8, <3>1, <4>1, PlacesGrow
        <4> QED BY <2>1, <3>1, <4>2
      <3>4. <<p[q], p[r]>> \in C
        BY <1>8, <3>1, <3>2, <3>3 DEF StrictOrder
      <3> QED BY <1>4, <1>9, <3>1, <3>4
    <2> QED BY <1>11, <2>1 DEF InOrder
  <1> QED BY <1>11, <1>13, <1>14, <1>15

\* qsort() puts the list in order and changes nothing else of it.
LEMMA ListIsSorted ==
  ASSUME IInv, WalkInv, Sort
  PROVE  WalkInv'
  <1>1. /\ tree' = tree /\ walked' = walked /\ argv' = argv /\ status' = status
        /\ cut' = cut /\ ret' = ret /\ stack' = stack /\ rules' = rules /\ line' = line /\ stale' = stale
        /\ pc = "return" /\ ret = 0 /\ stack = << >> /\ pc' = "leaves" /\ entries' = Sorted(entries)
    BY DEF Sort, mainVars, walkVars
  <1>2. /\ Inodes' = Inodes /\ (BeyondLimits' <=> BeyondLimits) /\ (Informs' <=> Informs)
        /\ (OperandRefused' <=> OperandRefused)
    BY <1>1, SameTree, SameLimits
  <1>3. status = -1 /\ tree \in DOMAIN Trees
    BY <1>1 DEF IInv, Control, Typed
  <1>4. (~cut => entries \in Seq(Entry)) /\ ~Informs /\ ~OperandRefused /\ ~stale
    BY <1>1 DEF WalkInv, Started
  <1>5. \A path : ~ToCome(path) /\ ~ToCome(path)'
    <2>1. \A path : ~AheadOf(stack, path)
      BY <1>1 DEF AheadOf
    <2> QED BY <1>1, <2>1, AwaitedBy DEF ToCome
  <1>6. OnPath'
    BY <1>1 DEF WalkInv, OnPath
  <1>7. ASSUME ~cut
        PROVE  /\ entries' \in Seq(Entry) /\ PathsOf(entries') = PathsOf(entries)
               /\ Rightful(tree, entries') /\ InOrder(entries')
    <2>1. Rightful(tree, entries) /\ entries \in Seq([path : Seq(Names), file : Inodes])
      BY <1>4, <1>7 DEF WalkInv, NothingIsAlien, Entry
    <2> QED BY <1>1, <1>3, <2>1, SortingOrders DEF Entry
  <1>8. Started'
    BY <1>1, <1>2, <1>3, <1>4, <1>7 DEF Started, Entry
  <1>9. CASE cut
    BY <1>1, <1>6, <1>8, <1>9, NothingAfterCut
  <1>10. CASE ~cut
    <2>1. RulesRead'
      <3>1. Read(tree, stack, "return", line) = Read(tree, stack, "leaves", line)
        BY DEF Read
      <3> QED BY <1>1, <3>1 DEF WalkInv, RulesRead
    <2>2. Rightly'
      BY <1>1 DEF WalkInv, Rightly
    <2>3. NothingIsMissing'
      BY <1>1, <1>5, <1>7, <1>10 DEF WalkInv, NothingIsMissing, Going, Settled
    <2>4. NothingIsAlien'
      BY <1>1, <1>5, <1>7, <1>10 DEF WalkInv, NothingIsAlien
    <2>5. Blame'
      BY <1>1, <1>3 DEF Blame
    <2>6. Ordered'
      BY <1>7, <1>10 DEF Ordered
    <2> QED BY <1>6, <1>8, <2>1, <2>2, <2>3, <2>4, <2>5, <2>6 DEF WalkInv
  <1> QED BY <1>9, <1>10

\* After the walk: the list stays, and the status comes.
LEMMA WalkEnds ==
  ASSUME IInv, WalkInv, tree' = tree, walked' = walked, argv' = argv, entries' = entries, cut' = cut,
         ret' = ret, stale' = stale, stack' = stack, rules' = rules, line' = line,
         stack = << >>, pc \in {"return", "leaves", "merkle"}, pc' \in {"merkle", "done"},
         pc' = "merkle" => status' = status /\ pc # "return",
         pc' = "done" => status' \in {0, 2},
         status' = 0 => pc = "merkle" /\ printed' = Lines,
         faults' <= faults, faults' \in Nat,
         status' = 2 => faults' < faults \/ ret # 0
  PROVE  WalkInv'
  <1>1. /\ Inodes' = Inodes /\ (BeyondLimits' <=> BeyondLimits) /\ (Informs' <=> Informs)
        /\ (OperandRefused' <=> OperandRefused) /\ Lines' = Lines
    BY SameTree, SameLimits DEF Lines
  <1>2. /\ pc \notin {"args", "done", "trim", "enter", "open", "hash", "add", "ignore", "lines"}
        /\ status = -1 /\ faults \in Nat /\ faults <= MaxFaults /\ MaxFaults \in Nat /\ Len(stack) = 0
    BY BoundsAssumption DEF IInv, Control, Typed
  <1>3. (~cut => entries \in Seq(Entry)) /\ ~Informs /\ ~OperandRefused
    BY <1>2 DEF WalkInv, Started
  <1>4. \A path : ~ToCome(path) /\ ~ToCome(path)'
    <2>1. \A path : ~AheadOf(stack, path)
      BY <1>2 DEF AheadOf
    <2> QED BY <1>2, <2>1, AwaitedBy DEF ToCome
  <1>5. OnPath'
    BY <1>2 DEF WalkInv, OnPath
  <1>6. RulesRead'
    <2>1. Read(tree, stack, pc, line) = Read(tree, stack, pc', line)
      BY <1>2 DEF Read
    <2> QED BY <2>1 DEF WalkInv, RulesRead
  <1>7. Rightly'
    BY <1>2 DEF Rightly
  <1>8. NothingIsMissing'
    <2>1. SUFFICES ASSUME Going' PROVE NothingIsMissing'
      BY DEF NothingIsMissing
    <2>2. Going
      BY <1>2, <2>1 DEF Going
    <2> QED BY <1>4, <2>2 DEF WalkInv, NothingIsMissing
  <1>9. NothingIsAlien'
    BY <1>4 DEF WalkInv, NothingIsAlien
  <1>10. Blame'
    <2>1. SUFFICES ASSUME ~cut, ret # 0 \/ (status' = 2 /\ ~OperandRefused)
                   PROVE  faults' < MaxFaults \/ BeyondLimits
      BY <1>1 DEF Blame
    <2>2. CASE ret # 0
      BY <1>2, <2>1, <2>2 DEF WalkInv, Blame
    <2>3. CASE ret = 0
      BY <1>2, <2>1, <2>3
    <2> QED BY <2>2, <2>3
  <1>11. Started'
    <2>1. stale => ret # 0
      BY <1>2 DEF WalkInv, Started
    <2>2. pc' = "done" /\ status' = 0 => ret = 0
      BY DEF WalkInv, Started
    <2>3. pc' = "merkle" => ret = 0
      BY DEF WalkInv, Started
    <2> QED BY <1>1, <1>2, <1>3, <2>1, <2>2, <2>3 DEF Started, Entry
  <1>12. Ordered'
    BY <1>2, <1>3 DEF WalkInv, Ordered
  <1> QED BY <1>5, <1>6, <1>7, <1>8, <1>9, <1>10, <1>11, <1>12 DEF WalkInv

LEMMA WalkIsOver ==
  ASSUME IInv, WalkInv,
         WalkFailed \/ HashLeaves \/ PairLevel \/ MerkleFails \/ PrintAll \/ PrintFails
  PROVE  WalkInv'
  <1>1. /\ tree' = tree /\ walked' = walked /\ argv' = argv /\ entries' = entries /\ cut' = cut
        /\ ret' = ret /\ stale' = stale /\ stack' = stack /\ rules' = rules /\ line' = line
        /\ pc \in {"return", "leaves", "merkle"} /\ pc' \in {"merkle", "done"}
    BY DEF WalkFailed, HashLeaves, PairLevel, MerkleFails, PrintAll, PrintFails, Exit, walkVars
  <1>2. stack = << >>
    BY <1>1 DEF WalkFailed, HashLeaves, PairLevel, MerkleFails, PrintAll, PrintFails, IInv, Control, Outside
  <1>3. status = -1 /\ faults \in Nat
    BY <1>1, BoundsAssumption DEF IInv, Control, Typed
  <1>4. /\ pc' = "merkle" => status' = status /\ pc # "return"
        /\ pc' = "done" => status' \in {0, 2}
        /\ status' = 0 => pc = "merkle" /\ printed' = Lines
    BY <1>3 DEF WalkFailed, HashLeaves, PairLevel, MerkleFails, PrintAll, PrintFails, Exit
  <1>5. faults' <= faults /\ faults' \in Nat /\ (status' = 2 => faults' < faults \/ ret # 0)
    <2>1. CASE MerkleFails \/ PrintFails
      BY <1>3, <2>1 DEF MerkleFails, PrintFails, Fault
    <2>2. CASE WalkFailed \/ HashLeaves \/ PairLevel \/ PrintAll
      BY <1>3, <2>2 DEF WalkFailed, HashLeaves, PairLevel, PrintAll, Exit
    <2> QED BY <2>1, <2>2
  <1> QED BY <1>1, <1>2, <1>3, <1>4, <1>5, WalkEnds

LEMMA WalkStutters == ASSUME WalkInv, UNCHANGED vars PROVE WalkInv'
  <1>1. /\ tree' = tree /\ walked' = walked /\ argv' = argv /\ entries' = entries /\ cut' = cut /\ pc' = pc
        /\ ret' = ret /\ stale' = stale /\ stack' = stack /\ rules' = rules /\ line' = line /\ cand' = cand
        /\ status' = status /\ faults' = faults /\ printed' = printed
    BY DEF vars, mainVars, walkVars
  <1>2. /\ Inodes' = Inodes /\ (BeyondLimits' <=> BeyondLimits) /\ (Informs' <=> Informs)
        /\ (OperandRefused' <=> OperandRefused) /\ Lines' = Lines
    BY <1>1, SameTree, SameLimits DEF Lines
  <1>3. \A path : ToCome(path)' <=> ToCome(path)
    BY <1>1 DEF ToCome
  <1>4. OnPath' /\ RulesRead' /\ Rightly'
    BY <1>1 DEF WalkInv, OnPath, RulesRead, Rightly
  <1>5. NothingIsMissing' /\ NothingIsAlien'
    BY <1>1, <1>2, <1>3 DEF WalkInv, NothingIsMissing, NothingIsAlien, Going
  <1>6. Blame' /\ Ordered'
    BY <1>1, <1>2 DEF WalkInv, Blame, Ordered
  <1>7. Started'
    BY <1>1, <1>2 DEF WalkInv, Started, Entry
  <1> QED BY <1>4, <1>5, <1>6, <1>7 DEF WalkInv

LEMMA WalkBegins == Init => WalkInv
  <1> SUFFICES ASSUME Init PROVE WalkInv
    OBVIOUS
  <1>1. /\ pc = "args" /\ stack = << >> /\ rules = << >> /\ entries = << >> /\ ret = 0 /\ status = -1
        /\ ~stale /\ ~cut /\ Len(<< >>) = 0
    BY DEF Init
  <1>2. OnPath /\ Rightly
    BY <1>1 DEF OnPath, Frames, Rightly
  <1>3. RulesRead
    BY <1>1, InitHolds, NothingYet DEF RulesRead, IInv
  <1>4. NothingIsMissing
    BY <1>1 DEF NothingIsMissing, ToCome, Awaited
  <1>5. NothingIsAlien
    BY <1>1 DEF NothingIsAlien, Rightful, PathsOf
  <1>6. Blame /\ Ordered
    BY <1>1 DEF Blame, Ordered
  <1>7. Started
    <2>1. << >> \in Seq(Entry)
      OBVIOUS
    <2> QED BY <1>1, <2>1 DEF Started
  <1> QED BY <1>2, <1>3, <1>4, <1>5, <1>6, <1>7 DEF WalkInv

LEMMA WalkInvStep == IInv /\ WalkInv /\ [Next]_vars => WalkInv'
  <1> SUFFICES ASSUME IInv, WalkInv, [Next]_vars PROVE WalkInv'
    OBVIOUS
  <1>1. CASE Inform \/ RefuseOperand \/ StartTrim \/ Trim \/ RootFails
    BY <1>1, WalkIsReady
  <1>2. CASE StartWalk
    BY <1>2, WalkStarts
  <1>3. CASE Enter
    BY <1>3, WalkEnters
  <1>4. CASE Return
    BY <1>4, WalkReturns
  <1>5. CASE EnterFails \/ IgnoreFails \/ LineFails \/ FileFails
    BY <1>5, WalkBreaks
  <1>6. CASE OpenIgnore
    BY <1>6, IgnoreOpens
  <1>7. CASE NoIgnore
    BY <1>7, IgnoreIsNone
  <1>8. CASE ReadLine
    BY <1>8, LineIsRead
  <1>9. CASE LinesEnd
    BY <1>9, LinesAreRead
  <1>10. CASE NextEntry
    BY <1>10, NameIsRead
  <1>11. CASE NamesEnd
    BY <1>11, WalkLeaves
  <1>12. CASE OpenFile \/ Interrupted \/ EndOfFile \/ \E n \in ReadSizes : ReadBytes(n)
    BY <1>12, FileIsRead
  <1>13. CASE AddEntry
    BY <1>13, FileIsAdded
  <1>14. CASE Sort
    BY <1>14, ListIsSorted
  <1>15. CASE WalkFailed \/ HashLeaves \/ PairLevel \/ MerkleFails \/ PrintAll \/ PrintFails
    BY <1>15, WalkIsOver
  <1>16. CASE UNCHANGED vars
    BY <1>16, WalkStutters
  <1> QED
    BY <1>1, <1>2, <1>3, <1>4, <1>5, <1>6, <1>7, <1>8, <1>9, <1>10, <1>11, <1>12, <1>13, <1>14, <1>15, <1>16
    DEF Next, Terminated

LEMMA WalkInvAlways == Spec => []WalkInv
  BY IInvAlways, WalkBegins, WalkInvStep, PTL DEF Spec

LEMMA WalkedAlways == Spec => []IsSequence(walked)
  <1>1. Init => IsSequence(walked)
    <2>1. << >> \in Seq({})
      OBVIOUS
    <2> QED BY <2>1 DEF Init, IsSequence
  <1>2. IInv /\ IInv' /\ IsSequence(walked) /\ [Next]_vars => IsSequence(walked)'
    <2> SUFFICES ASSUME IInv, IInv', IsSequence(walked), [Next]_vars PROVE IsSequence(walked')
      BY DEF IsSequence
    <2>1. CASE pc' = "trim"
      BY <2>1 DEF IInv, Typed, IsSequence
    <2>2. CASE RootFails \/ StartWalk
      <3>1. walked' = walked \/ walked' = <<".">>
        BY <2>2 DEF RootFails, StartWalk, Trimmed
      <3>2. <<".">> \in Seq({"."})
        OBVIOUS
      <3> QED BY <3>1, <3>2 DEF IsSequence
    <2>3. CASE pc' # "trim" /\ ~RootFails /\ ~StartWalk
      <3>1. CASE Inform \/ RefuseOperand \/ StartTrim \/ Trim
        BY <2>3, <3>1 DEF Inform, RefuseOperand, StartTrim, Trim, Exit
      <3>2. CASE Enter \/ EnterFails \/ Return \/ IgnoreFails \/ OpenIgnore \/ NoIgnore \/ ReadLine \/ LinesEnd \/ LineFails
        BY <3>2 DEF Enter, EnterFails, Return, IgnoreFails, OpenIgnore, NoIgnore, ReadLine, LinesEnd, LineFails, mainVars
      <3>3. CASE NextEntry \/ NamesEnd
        BY <3>3 DEF NextEntry, SkipEntry, TakeEntry, EntryFails, NamesEnd, mainVars
      <3>4. CASE OpenFile \/ Interrupted \/ EndOfFile \/ FileFails \/ AddEntry \/ \E n \in ReadSizes : ReadBytes(n)
        BY <3>4 DEF OpenFile, Interrupted, EndOfFile, FileFails, AddEntry, ReadBytes, mainVars
      <3>5. CASE WalkFailed \/ Sort \/ HashLeaves \/ PairLevel \/ MerkleFails \/ PrintAll \/ PrintFails
        BY <3>5 DEF WalkFailed, Sort, HashLeaves, PairLevel, MerkleFails, PrintAll, PrintFails, mainVars
      <3>6. CASE UNCHANGED vars
        BY <3>6 DEF vars, mainVars
      <3>7. CASE Terminated
        BY <3>7 DEF Terminated, vars, mainVars
      <3> QED BY <2>3, <3>1, <3>2, <3>3, <3>4, <3>5, <3>6, <3>7 DEF Next
    <2> QED BY <2>1, <2>2, <2>3
  <1> QED BY <1>1, <1>2, IInvAlways, IInvStep, PTL DEF Spec

\* When main() has succeeded with a list, nothing is to come any more.
LEMMA AllIsSettled ==
  ASSUME IInv, WalkInv, status = 0, ~Informs, ~cut
  PROVE  /\ ~OperandRefused /\ printed = Lines /\ entries \in Seq(Entry)
         /\ Len(walked) + IgnoreLen < PathMax
         /\ \A path \in PathsIn[tree] : Settled(tree, Len(walked), entries, path)
         /\ Rightful(tree, entries) /\ InOrder(entries)
  <1>1. pc = "done" /\ stack = << >> /\ Len(stack) = 0
    BY DEF IInv, Control, Outside
  <1>2. ~OperandRefused /\ ret = 0 /\ printed = Lines /\ entries \in Seq(Entry)
    BY <1>1 DEF WalkInv, Started
  <1>3. \A path : ~ToCome(path)
    <2>1. \A path : ~AheadOf(stack, path)
      BY <1>1 DEF AheadOf
    <2> QED BY <1>1, <2>1, AwaitedBy DEF ToCome
  <1>4. Going
    BY <1>2 DEF Going
  <1>5. InOrder(entries)
    BY <1>1 DEF WalkInv, Ordered
  <1> QED BY <1>2, <1>3, <1>4, <1>5 DEF WalkInv, NothingIsMissing, NothingIsAlien

\* Whatever the order in which readdir() gives the names, on success the list
\* is the one that the tree and its .gitignore files define: each regular file
\* below walked directories that the last matching rule does not exclude,
\* once, with its own content, in bytewise order of the paths.
THEOREM ListIsOfTheTree == Spec => []ManifestIsExact
  <1>1. IInv /\ WalkInv => ManifestIsExact
    <2> SUFFICES ASSUME IInv, WalkInv, status = 0, ~Informs, ~cut
                 PROVE  /\ printed = Lines
                        /\ {entries[i].path : i \in DOMAIN entries} = {path \in PathsIn[tree] : Listed(tree, path)}
                        /\ \A i \in DOMAIN entries : entries[i].file = InodeIn(tree, entries[i].path)
                        /\ \A i, j \in DOMAIN entries : i < j => PathBefore(entries[i].path, entries[j].path)
      BY DEF ManifestIsExact
    <2>1. DOMAIN entries = 1 .. Len(entries) /\ printed = Lines
      BY AllIsSettled
    <2>2. Rightful(tree, entries) /\ InOrder(entries)
      BY AllIsSettled
    <2>3. ASSUME NEW path \in PathsIn[tree], Listed(tree, path) PROVE path \in PathsOf(entries)
      BY <2>3, AllIsSettled DEF Settled
    <2>4. ASSUME NEW path \in PathsOf(entries) PROVE path \in PathsIn[tree] /\ Listed(tree, path)
      BY <2>2 DEF Rightful, PathsOf
    <2>5. PathsOf(entries) = {path \in PathsIn[tree] : Listed(tree, path)}
      BY <2>3, <2>4
    <2>6. PathsOf(entries) = {entries[i].path : i \in DOMAIN entries}
      BY <2>1 DEF PathsOf
    <2> QED BY <2>1, <2>2, <2>5, <2>6 DEF Rightful, InOrder
  <1> QED BY <1>1, IInvAlways, WalkInvAlways, PTL

\* The exit status says what happened: 0 only if no directory that should be
\* walked was beyond the limits, 2 only if the operand was refused, a call
\* failed or the limits were in the way; an errno left behind by a call that
\* was interrupted and tried again makes no failure of a success.
THEOREM StatusTellsTheTruth == Spec => []StatusIsHonest
  <1>1. IInv /\ WalkInv /\ IsSequence(walked) => StatusIsHonest
    <2> SUFFICES ASSUME IInv, WalkInv, IsSequence(walked), pc = "done", ~cut
                 PROVE  /\ status = 0 => Informs \/ (~OperandRefused /\ ~BeyondLimits)
                        /\ status = 2 => ~Informs /\ (OperandRefused \/ faults < MaxFaults \/ BeyondLimits)
      BY DEF StatusIsHonest
    <2>1. ASSUME status = 0, ~Informs PROVE ~OperandRefused /\ ~BeyondLimits
      <3>1. Len(walked) + IgnoreLen < PathMax /\ ~OperandRefused
        BY <2>1, AllIsSettled
      <3>2. \A path \in PathsIn[tree] : ~Unwalkable(tree, Len(walked), path) /\ ~Unnameable(tree, Len(walked), path)
        BY <2>1, AllIsSettled DEF Settled
      <3>3. ~(Len(walked) + IgnoreLen >= PathMax)
        <4>1. Len(walked) \in Nat
          BY LengthOfSequence
        <4> QED BY <3>1, <4>1, BoundsAssumption DEF IgnoreLen
      <3> QED BY <3>1, <3>2, <3>3 DEF BeyondLimits
    <2>2. status = 2 => ~Informs /\ (OperandRefused \/ faults < MaxFaults \/ BeyondLimits)
      BY DEF WalkInv, Started, Blame
    <2> QED BY <2>1, <2>2
  <1> QED BY <1>1, IInvAlways, WalkInvAlways, WalkedAlways, PTL
=============================================================================
