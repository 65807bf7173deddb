---------------------------- MODULE IgnoreRules -----------------------------
(***************************************************************************)
(* The rules that treehash reads from .gitignore files.                    *)
(*                                                                         *)
(* A path is a sequence of names.  A line of a .gitignore file is abstract *)
(* too: whether it is blank or a comment, its marks ("!" in front, "/" at  *)
(* the end, "/" in front), and its pattern as a sequence of names and "*". *)
(***************************************************************************)
EXTENDS Integers, Sequences, SequencesExt, FiniteSetsExt

\* load_gitignore(): the line makes no rule.  What is left of "!", "/" and
\* "!/" is empty.
MakesNoRule(line) == line.blank \/ line.pat = << >>

\* load_gitignore(): the rule of a line of the file in directory dir.
RuleOf(line, dir, depth) ==
  [depth |-> depth, dir |-> dir, negated |-> line.bang, dirOnly |-> line.slash,
   anchored |-> line.root \/ Len(line.pat) > 1, pat |-> line.pat]

\* fnmatch(3) of one name, and of a path with FNM_PATHNAME.
NameMatches(p, name) == p \in {"*", name}
Fnmatch(pat, rel) == Len(pat) = Len(rel) /\ \A i \in 1 .. Len(pat) : NameMatches(pat[i], rel[i])

\* match_rule(): the part of the path below the directory of the rule, which
\* is empty for a path that is not below it.
Below(dir, path) == IF IsPrefix(dir, path) THEN SubSeq(path, Len(dir) + 1, Len(path)) ELSE << >>

\* match_rule()
MatchRule(rule, path, isDir) ==
  LET rel == Below(rule.dir, path)
  IN /\ rule.dirOnly => isDir
     /\ rel # << >>
     /\ \/ Fnmatch(rule.pat, rel)
        \/ ~rule.anchored /\ Fnmatch(rule.pat, <<rel[Len(rel)]>>)

\* A path that a rule excludes stays excluded.
IsPathIgnored_Mutant(rules, path, isDir) ==
  \E i \in DOMAIN rules : MatchRule(rules[i], path, isDir) /\ ~rules[i].negated

\* is_path_ignored(): each rule that matches overrides those before it.
IsPathIgnored(rules, path, isDir) ==
  LET matching == {i \in DOMAIN rules : MatchRule(rules[i], path, isDir)}
  IN matching # {} /\ ~rules[Max(matching)].negated
=============================================================================
