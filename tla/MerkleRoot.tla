----------------------------- MODULE MerkleRoot -----------------------------
(***************************************************************************)
(* The reduction of treehash's leaves to a root, and what it should be.    *)
(*                                                                         *)
(* A digest is the term it was computed from: a leaf is <<line>>, an inner *)
(* node <<left, right>>.  The terms are as good as digests because two     *)
(* different terms have different preimages: those of inner nodes have 64  *)
(* bytes, those of leaves at least 68, and SHA-256 is taken to be free of  *)
(* collisions.                                                             *)
(***************************************************************************)
EXTENDS Integers, Sequences, FiniteSets, FiniteSetsExt

Leaf(line) == <<line>>

EmptyRoot == << >>       \* the digest of the empty string

\* A node without a neighbour is hashed with itself.
Paired_Mutant(level) ==
  [i \in 1 .. (Len(level) + 1) \div 2 |-> <<level[2 * i - 1], level[IF 2 * i <= Len(level) THEN 2 * i ELSE 2 * i - 1]>>]

\* One pass of the loop of compute_merkle_root(): neighbours are hashed
\* together, a node without a neighbour is taken over as it is.
Paired(level) ==
  [i \in 1 .. (Len(level) + 1) \div 2 |->
     IF 2 * i <= Len(level) THEN <<level[2 * i - 1], level[2 * i]>> ELSE level[2 * i - 1]]

-----------------------------------------------------------------------------
(***************************************************************************)
(* The reference, from the other end: a list of leaves is split at the     *)
(* largest power of two below its length, as the logs of Certificate       *)
(* Transparency do (RFC 6962).                                             *)
(***************************************************************************)
\* Nothing odd divides it but one.
IsPower(k) == \A d, q \in 1 .. k : d * q = k /\ d # 1 => d % 2 = 0
SplitAt(n) == Max({k \in 1 .. n - 1 : IsPower(k)})

\* tree[n][i] is the tree of the n leaves from the i-th on.
Balanced(leaves) ==
  LET tree[n \in 1 .. Len(leaves)] ==
        [i \in 1 .. Len(leaves) - n + 1 |->
           IF n = 1 THEN leaves[i]
           ELSE <<tree[SplitAt(n)][i], tree[n - SplitAt(n)][i + SplitAt(n)]>>]
  IN IF leaves = << >> THEN EmptyRoot ELSE tree[Len(leaves)][1]
=============================================================================
