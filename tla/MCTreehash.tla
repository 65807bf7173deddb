----------------------------- MODULE MCTreehash -----------------------------
(* Small file systems for Treehash: names of two lengths, one level more   *)
(* than may be walked, every kind of line in a .gitignore.                 *)
EXTENDS Treehash, TLC

Pattern(pat) == [blank |-> FALSE, bang |-> FALSE, slash |-> FALSE, root |-> FALSE, pat |-> pat]
Comment == [Pattern(<<"a">>) EXCEPT !.blank = TRUE]
Bang(l) == [l EXCEPT !.bang = TRUE]
Slash(l) == [l EXCEPT !.slash = TRUE]
Anchor(l) == [l EXCEPT !.root = TRUE]

\* A file system from the children of each directory, the lines of each
\* .gitignore and the inodes that are links or special; other inodes are files.
Tree(kids, lines, links, others, size) ==
  LET inodes == DOMAIN kids \cup UNION {{kids[d][n] : n \in DOMAIN kids[d]} : d \in DOMAIN kids}
  IN [kind |-> [i \in inodes |-> IF i \in DOMAIN kids THEN "dir" ELSE IF i \in links THEN "link"
                                 ELSE IF i \in others THEN "other" ELSE "file"],
      kids |-> [i \in inodes |-> IF i \in DOMAIN kids THEN kids[i] ELSE << >>],
      lines |-> [i \in inodes |-> IF i \in DOMAIN lines THEN lines[i] ELSE << >>],
      size |-> [i \in inodes |-> IF i \in DOMAIN kids THEN 0 ELSE size]]

\* One file of a given size.
OneFile(size) == Tree("root" :> ("a" :> "f1"), << >>, {}, {}, size)

\* An excluded name, taken back deeper down, in a directory next to another.
Negated ==
  Tree("root" :> (".gitignore" :> "g0" @@ "a" :> "d1" @@ "b" :> "d2")
       @@ "d1" :> (".gitignore" :> "g1" @@ "b" :> "f1")
       @@ "d2" :> ("c" :> "f2"),
       "g0" :> <<Pattern(<<"c">>), Comment, Pattern(<<"*">>), Bang(Slash(Pattern(<<"*">>)))>>
       @@ "g1" :> <<Bang(Pattern(<<"b">>)), Bang(Pattern(<< >>))>>, {}, {}, 1)

\* Anchored rules and rules for directories only; special files.
Anchored ==
  Tree("root" :> (".gitignore" :> "g0" @@ "a" :> "d1" @@ "b" :> "f1" @@ "c" :> "s1")
       @@ "d1" :> ("a" :> "f2" @@ "b" :> "d2" @@ "c" :> "l1")
       @@ "d2" :> ("a" :> "f3"),
       "g0" :> <<Anchor(Pattern(<<"b">>)), Slash(Pattern(<<"b">>)), Bang(Pattern(<<"a", "b">>)),
                 Anchor(Slash(Pattern(<< >>)))>>, {"l1"}, {"s1"}, 1)

\* A directory mounted below itself, and one under two names, which is no cycle.
Mounted(excluded) ==
  Tree("root" :> (".gitignore" :> "g0" @@ "a" :> "d1" @@ "b" :> "d1")
       @@ "d1" :> ("c" :> IF excluded = "twice" THEN "f1" ELSE "root"),
       "g0" :> IF excluded = "excluded" THEN <<Pattern(<<"c">>)>> ELSE << >>, {}, {}, 1)

\* A chain of directories, the last one level too deep or not.
Chain(deep) ==
  Tree("root" :> ("a" :> "d1") @@ "d1" :> ("a" :> "d2")
       @@ (IF deep THEN "d2" :> ("a" :> "d3" @@ "b" :> "f1") @@ "d3" :> << >> ELSE "d2" :> << >>),
       << >>, {}, {}, 1)

\* A long name: of a file in the root, or in the third directory, or of a directory.
Long(where) ==
  Tree(CASE where = "root" -> "root" :> ("long" :> "f1")
         [] where = "deep" -> "root" :> ("a" :> "d1") @@ "d1" :> ("a" :> "d2") @@ "d2" :> ("long" :> "f1")
         [] where = "dir" -> "root" :> ("long" :> "d1") @@ "d1" :> << >>
         [] where = "excluded" -> "root" :> (".gitignore" :> "g0" @@ "long" :> "d1") @@ "d1" :> << >>,
       "g0" :> <<Pattern(<<"long">>)>>, {}, {}, 1)

\* Five leaves, in any order that readdir() likes; .git is passed over, and
\* "a-" comes before "a/a".
Wide ==
  Tree("root" :> ("a" :> "d1" @@ "a-" :> "f1" @@ "c" :> "f2" @@ ".git" :> "d2")
       @@ "d1" :> ("a" :> "f3" @@ "b" :> "f4" @@ "c" :> "f5")
       @@ "d2" :> ("a" :> "f6"), << >>, {}, {}, 1)

\* A .gitignore that is a directory, and one that is a link.
OddIgnore ==
  Tree("root" :> (".gitignore" :> "d1" @@ "a" :> "f1" @@ "b" :> "l1")
       @@ "d1" :> ("a" :> "f2" @@ ".gitignore" :> "l2"), << >>, {"l1", "l2"}, {}, 1)

EmptyTree == Tree("root" :> << >>, << >>, {}, {}, 1)

TheTrees ==
  <<Negated, Anchored, Mounted("cycle"), Mounted("excluded"), Mounted("twice"), Chain(TRUE),
    Chain(FALSE), Long("root"), Long("deep"), Long("dir"), Long("excluded"), Wide, OddIgnore,
    EmptyTree>>
  \o [i \in 1 .. 10 |-> OneFile(<<0, 1, 55, 56, 63, 64, 65, 119, 120, 128>>[i])]

TheNameLen == "a" :> 1 @@ "a-" :> 2 @@ "b" :> 1 @@ "c" :> 1 @@ "long" :> 12 @@ ".git" :> 4 @@ ".gitignore" :> 10

\* A hyphen is less than a slash.
Bytewise ==
  <<<<".git", FALSE>>, <<".git", TRUE>>, <<".gitignore", FALSE>>, <<".gitignore", TRUE>>,
    <<"a", FALSE>>, <<"a-", FALSE>>, <<"a-", TRUE>>, <<"a", TRUE>>, <<"b", FALSE>>, <<"b", TRUE>>,
    <<"c", FALSE>>, <<"c", TRUE>>, <<"long", FALSE>>, <<"long", TRUE>>>>
TheOrder == [x \in ToSet(Bytewise) |-> CHOOSE k \in DOMAIN Bytewise : Bytewise[k] = x]

Letters(n) == [i \in 1 .. n |-> "n"]
TheOperands ==
  {<<"n">>, <<"/", "n", "/", ".">>, <<"/", "/">>, <<"/", ".">>, << >>, <<"n", "/", ".", ".">>, <<"n", ".", ".">>,
   Letters(6), Letters(18)}

TheArguments ==
  {<<o>> : o \in TheOperands}
  \cup {<< >>, <<Help>>, <<Version>>, <<<<"-", "x">>>>, <<Help, Version>>, <<<<"n">>, Help>>, <<<<"n">>, <<"n">>>>}
=============================================================================
