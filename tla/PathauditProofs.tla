-------------------------- MODULE PathauditProofs --------------------------
(***************************************************************************)
(* Theorems about Pathaudit, for every value of PATH, every file system,   *)
(* every limit and every fault.                                            *)
(***************************************************************************)
EXTENDS Pathaudit, FiniteSetTheorems, SequenceTheorems, WellFoundedInduction, TLAPS

(* What was seen of the file system is not seen differently later. *)
Remembered == \A x \in DOMAIN fs : x \in DOMAIN fs' /\ fs'[x] = fs[x]

LEMMA WhatIsSeenStays ==
  ASSUME NEW text, NEW o \in Found(text), Looked(text, o)
  PROVE  /\ Remembered
         /\ text \in DOMAIN fs' /\ fs'[text] = o
         /\ \A x \in DOMAIN fs' : x # text => x \in DOMAIN fs
         /\ text = <<>> /\ text \notin DOMAIN fs => o.kind # "error"
BY DEF Found, Looked, Remembered

-----------------------------------------------------------------------------
(* The components are the fields, joined and in order. *)

Root == [text : Seq(Nat), index : Nat, at : Nat]

(* The first field that belongs to no component yet. *)
Cursor == IF roots = <<>> THEN 1 ELSE LastField(roots[Len(roots)]) + 1

(* What was seen of a text and of its beginnings, when it was joined. *)
Joined(text, seen) ==
  /\ \A n \in 1 .. Len(text) - 1 :
       SubSeq(text, 1, n) \in DOMAIN seen /\ seen[SubSeq(text, 1, n)].kind = "ENOENT"
  /\ Len(text) > 1 => text \in DOMAIN seen /\ seen[text].kind \in {"ENOTDIR", "error"}

Piece(r) ==
  /\ roots[r].index = r /\ roots[r].at \in 1 .. Len(fields)
  /\ LastField(roots[r]) \in roots[r].at .. Len(fields) /\ LastField(roots[r]) < Cursor
  /\ roots[r].at = IF r = 1 THEN 1 ELSE LastField(roots[r - 1]) + 1
  /\ roots[r].text = TextOf(roots[r].at, LastField(roots[r]))
  /\ \A m \in roots[r].at .. LastField(roots[r]) - 1 : tied[m]
  /\ LastField(roots[r]) = Len(fields) \/ ~tied[LastField(roots[r])]
  /\ Joined(roots[r].text, fs)

(* The separators before j were restored, as each text up to them was      *)
(* merely missing.                                                         *)
JoinInv ==
  /\ j \in i .. Len(fields) /\ fields[i] # Empty
  /\ \A k \in i .. Len(fields) : tied[k] <=> k < j
  /\ \A m \in i .. j : /\ SubSeq(fields, i, m) \in DOMAIN fs
                       /\ fs[SubSeq(fields, i, m)].kind = "ENOENT"

ComponentsInv ==
  /\ roots \in Seq(Root) /\ Cursor \in 1 .. Len(fields) + 1
  /\ \A r \in DOMAIN roots : Piece(r)
  /\ pc \in {"load", "split", "join"} => i = Cursor
  /\ pc \in {"load", "split"} => \A k \in i .. Len(fields) : ~tied[k]
  /\ pc = "join" => JoinInv
  /\ pc \notin {"load", "split", "join", "done"} => Cursor = Len(fields) + 1

SplitInv ==
  /\ fields \in Seq(Nat) /\ tied \in [1 .. Len(fields) -> BOOLEAN]
  /\ mode = "roots" => pc \notin {"split", "join"}
  /\ pc = "load" => roots = <<>> /\ i = 1 /\ \A k \in 1 .. Len(fields) : ~tied[k]
  /\ mode # "roots" => ComponentsInv

(* A text that is a piece of the fields, and the last field of it. *)
LEMMA TextsAreTexts ==
  ASSUME fields \in Seq(Nat), NEW a \in 1 .. Len(fields), NEW b \in a .. Len(fields),
         fields[a] = Empty => a = b
  PROVE  /\ TextOf(a, b) \in Seq(Nat)
         /\ a + (IF TextOf(a, b) = <<>> THEN 0 ELSE Len(TextOf(a, b)) - 1) = b
         /\ a # b => TextOf(a, b) = SubSeq(fields, a, b)
         /\ Len(TextOf(a, b)) > 1 => a # b
<1>1. /\ SubSeq(fields, a, b) \in Seq(Nat)
      /\ Len(SubSeq(fields, a, b)) = b - a + 1
  OBVIOUS
<1>2. CASE a = b /\ fields[a] = Empty
  BY <1>2 DEF TextOf
<1>3. CASE a # b \/ fields[a] # Empty
  <2>1. TextOf(a, b) = SubSeq(fields, a, b)
    BY <1>3 DEF TextOf
  <2>2. SubSeq(fields, a, b) # <<>>
    BY <1>1
  <2> QED
    BY <1>1, <2>1, <2>2
<1> QED
  BY <1>2, <1>3

(* The beginnings of a piece are pieces. *)
LEMMA BeginningsOfPieces ==
  ASSUME fields \in Seq(Nat), NEW a \in 1 .. Len(fields), NEW b \in a .. Len(fields),
         NEW n \in 1 .. Len(SubSeq(fields, a, b)) - 1
  PROVE  /\ a + n - 1 \in a .. b - 1
         /\ SubSeq(SubSeq(fields, a, b), 1, n) = SubSeq(fields, a, a + n - 1)
OBVIOUS

(* Every component is one more piece, from the cursor on. *)
LEMMA OneMorePiece ==
  ASSUME SplitInv, mode # "roots", pc \in {"split", "join"},
         NEW last \in i .. Len(fields), i \in 1 .. Len(fields),
         fields[i] = Empty => i = last,
         UNCHANGED <<mode, fields>>, Remembered,
         roots' = Component(TextOf(i, last)), i' = last + 1, pc' = "split",
         tied' \in [1 .. Len(fields) -> BOOLEAN],
         \A k \in 1 .. i - 1 : tied'[k] = tied[k],
         \A k \in i .. last - 1 : tied'[k],
         \A k \in last .. Len(fields) : ~tied'[k],
         last # i => Joined(SubSeq(fields, i, last), fs')
  PROVE  SplitInv'
<1> DEFINE text == TextOf(i, last)
           n == Len(roots) + 1
           new == [text |-> text, index |-> n, at |-> i]
<1>1. /\ text \in Seq(Nat)
      /\ i + (IF text = <<>> THEN 0 ELSE Len(text) - 1) = last
      /\ i # last => text = SubSeq(fields, i, last)
      /\ Len(text) > 1 => i # last
  BY TextsAreTexts DEF SplitInv
<1>2. roots \in Seq(Root) /\ i = Cursor /\ \A r \in DOMAIN roots : Piece(r)
  BY DEF SplitInv, ComponentsInv
<1>3. roots' = Append(roots, new)
  BY DEF Component
<1>4. new \in Root
  BY <1>1, <1>2 DEF Root
<1>5. /\ roots' \in Seq(Root) /\ Len(roots') = n /\ DOMAIN roots' = 1 .. n
      /\ roots'[n] = new /\ n \in Nat \ {0} /\ DOMAIN roots = 1 .. n - 1
      /\ \A r \in DOMAIN roots : roots'[r] = roots[r] /\ r \in 1 .. n - 1
  <2> HIDE DEF new
  <2>1. roots \in Seq(Root) /\ Len(roots) \in Nat /\ roots' = Append(roots, new)
    BY <1>2, <1>3
  <2>2. n \in Nat \ {0} /\ DOMAIN roots = 1 .. n - 1
    BY <2>1
  <2>3. roots' \in Seq(Root) /\ Len(roots') = n /\ roots'[n] = new
    BY <1>4, <2>1
  <2>4. DOMAIN roots' = 1 .. n
    BY <2>3
  <2>5. \A r \in DOMAIN roots : roots'[r] = roots[r]
    BY <2>1
  <2> QED
    BY <2>2, <2>3, <2>4, <2>5
<1>6. \A r \in DOMAIN roots : LastField(roots'[r]) = LastField(roots[r])
  BY <1>5 DEF LastField
<1>7. LastField(roots'[n]) = last
  BY <1>1, <1>5 DEF LastField
<1>8. Cursor' = last + 1
  <2>1. roots' # <<>>
    BY <1>5
  <2> QED
    BY <1>5, <1>7, <2>1 DEF Cursor
<1>9. \A a, b : TextOf(a, b)' = TextOf(a, b)
  BY DEF TextOf
<1>10. \A t : Joined(t, fs) => Joined(t, fs')
  BY DEF Joined, Remembered
<1>11. ASSUME NEW r \in DOMAIN roots
       PROVE  Piece(r)'
  <2>1. Piece(r) /\ r \in 1 .. n - 1
    BY <1>2, <1>5
  <2>2. LastField(roots[r]) < i
    BY <1>2, <2>1 DEF Piece
  <2>3. /\ roots'[r].index = r /\ roots'[r].at \in 1 .. Len(fields')
        /\ LastField(roots'[r]) \in roots'[r].at .. Len(fields') /\ LastField(roots'[r]) < Cursor'
    BY <1>5, <1>6, <1>8, <2>1, <2>2 DEF Piece
  <2>4. r # 1 => LastField(roots'[r - 1]) = LastField(roots[r - 1])
    <3>1. r # 1 => r - 1 \in DOMAIN roots
      BY <1>5, <2>1
    <3> QED
      BY <1>6, <3>1
  <2>5. roots'[r].at = IF r = 1 THEN 1 ELSE LastField(roots'[r - 1]) + 1
    <3>1. roots'[r].at = roots[r].at
      BY <1>5
    <3>2. roots[r].at = IF r = 1 THEN 1 ELSE LastField(roots[r - 1]) + 1
      BY <2>1 DEF Piece
    <3> QED
      BY <2>4, <3>1, <3>2
  <2>6. roots'[r].text = TextOf(roots[r].at, LastField(roots[r]))'
    <3>1. roots'[r] = roots[r] /\ roots[r].text = TextOf(roots[r].at, LastField(roots[r]))
      BY <1>5, <2>1 DEF Piece
    <3> QED
      BY <3>1 DEF TextOf
  <2>7. \A m \in roots'[r].at .. LastField(roots'[r]) - 1 : tied'[m]
    <3>1. \A m \in roots[r].at .. LastField(roots[r]) - 1 : m \in 1 .. i - 1
      BY <2>1, <2>2 DEF Piece
    <3> QED
      BY <1>5, <1>6, <2>1, <3>1 DEF Piece
  <2>8. LastField(roots'[r]) = Len(fields') \/ ~tied'[LastField(roots'[r])]
    <3>1. LastField(roots[r]) \in 1 .. i - 1
      BY <2>1, <2>2 DEF Piece
    <3> QED
      BY <1>6, <2>1, <3>1 DEF Piece
  <2>9. Joined(roots'[r].text, fs')
    <3>1. Joined(roots[r].text, fs)
      BY <2>1 DEF Piece
    <3>2. roots'[r].text = roots[r].text
      BY <1>5
    <3>3. Joined(roots[r].text, fs')
      BY <1>10, <3>1, SMTT(30)
    <3> QED
      BY <3>2, <3>3
  <2> QED
    BY <2>3, <2>5, <2>6, <2>7, <2>8, <2>9 DEF Piece
<1>12. ASSUME NEW q, q = n
       PROVE  Piece(q)'
  <2>1. q \in Nat \ {0} /\ roots'[q].index = q /\ roots'[q].at = i /\ roots'[q].text = text
    BY <1>5, <1>12
  <2>2. i = IF q = 1 THEN 1 ELSE LastField(roots'[q - 1]) + 1
    <3>1. CASE q = 1
      <4>1. roots = <<>>
        BY <1>2, <1>12, <3>1
      <4> QED
        BY <1>2, <3>1, <4>1 DEF Cursor
    <3>2. CASE q # 1
      <4>1. roots # <<>> /\ q - 1 = Len(roots) /\ q - 1 \in DOMAIN roots
        BY <1>2, <1>5, <1>12, <3>2
      <4> QED
        BY <1>2, <1>6, <3>2, <4>1 DEF Cursor
    <3> QED
      BY <3>1, <3>2
  <2>3. Joined(text, fs')
    <3>1. CASE Len(text) > 1
      BY <1>1, <3>1
    <3>2. CASE ~(Len(text) > 1)
      BY <1>1, <3>2 DEF Joined
    <3> QED
      BY <3>1, <3>2
  <2>4. Joined(roots'[q].text, fs')
    BY <2>1, <2>3 DEF Joined
  <2>5. roots'[q].text = TextOf(roots[q].at, LastField(roots[q]))'
    <3>1. roots'[q].at = i /\ LastField(roots'[q]) = last
      BY <1>7, <1>12, <2>1
    <3>2. roots'[q].text = TextOf(i, last)
      BY <2>1
    <3> QED
      BY <3>1, <3>2 DEF TextOf
  <2>6. /\ roots'[q].at \in 1 .. Len(fields') /\ LastField(roots'[q]) < Cursor'
        /\ LastField(roots'[q]) \in roots'[q].at .. Len(fields')
        /\ \A m \in roots'[q].at .. LastField(roots'[q]) - 1 : tied'[m]
        /\ LastField(roots'[q]) = Len(fields') \/ ~tied'[LastField(roots'[q])]
    BY <1>7, <1>8, <1>12, <2>1
  <2>7. roots'[q].at = IF q = 1 THEN 1 ELSE LastField(roots'[q - 1]) + 1
    BY <2>1, <2>2
  <2> QED
    BY <2>1, <2>4, <2>5, <2>6, <2>7 DEF Piece
<1>13. \A r \in DOMAIN roots' : Piece(r)'
  <2>1. \A r \in DOMAIN roots' : r \in DOMAIN roots \/ r = n
    BY <1>5
  <2> HIDE DEF n
  <2> QED
    BY <1>11, <1>12, <2>1
<1>14. ComponentsInv'
  BY <1>5, <1>8, <1>13 DEF ComponentsInv
<1> QED
  BY <1>14 DEF SplitInv

(* Pieces stay what they are when the fields behind the cursor change. *)
LEMMA PiecesStay ==
  ASSUME NEW r \in DOMAIN roots, Piece(r), UNCHANGED <<fields, roots>>, Remembered,
         Cursor' = Cursor, Cursor \in Nat, Len(fields) \in Nat,
         \A k \in 1 .. Cursor - 1 : tied'[k] = tied[k]
  PROVE  Piece(r)'
<1>1. /\ LastField(roots'[r]) = LastField(roots[r])
      /\ LastField(roots'[r - 1]) = LastField(roots[r - 1])
  BY DEF LastField
<1>2. \A m \in roots[r].at .. LastField(roots[r]) : tied'[m] = tied[m]
  BY DEF Piece
<1>3. Joined(roots[r].text, fs')
  <2>1. Joined(roots[r].text, fs)
    BY DEF Piece
  <2> QED
    BY <2>1 DEF Joined, Remembered
<1>4. TextOf(roots[r].at, LastField(roots[r]))' = TextOf(roots[r].at, LastField(roots[r]))
  BY <1>1 DEF TextOf
<1>5. /\ roots'[r].index = r /\ roots'[r].at \in 1 .. Len(fields')
      /\ LastField(roots'[r]) \in roots'[r].at .. Len(fields') /\ LastField(roots'[r]) < Cursor'
      /\ roots'[r].at = IF r = 1 THEN 1 ELSE LastField(roots'[r - 1]) + 1
      /\ roots'[r].text = TextOf(roots[r].at, LastField(roots[r]))'
  BY <1>1, <1>4 DEF Piece
<1>6. /\ \A m \in roots'[r].at .. LastField(roots'[r]) - 1 : tied'[m]
      /\ LastField(roots'[r]) = Len(fields') \/ ~tied'[LastField(roots'[r])]
  BY <1>1, <1>2 DEF Piece
<1> QED
  BY <1>3, <1>5, <1>6 DEF Piece

LEMMA SplitStep ==
  ASSUME SplitInv, Split
  PROVE  SplitInv'
<1>1. /\ pc = "split" /\ mode # "roots" /\ i \in 1 .. Len(fields)
      /\ fields \in Seq(Nat) /\ UNCHANGED <<mode, fields, tied>>
      /\ tied \in [1 .. Len(fields) -> BOOLEAN] /\ ComponentsInv
      /\ i = Cursor /\ \A k \in i .. Len(fields) : ~tied[k]
  BY DEF Split, SplitInv, ComponentsInv, invocation
<1>2. CASE fields[i] = Empty
  <2>1. TextOf(i, i) = <<>>
    BY <1>2 DEF TextOf
  <2>2. roots' = Component(TextOf(i, i)) /\ i' = i + 1 /\ pc' = "split" /\ UNCHANGED fs
    BY <1>1, <1>2, <2>1 DEF Split
  <2>3. Remembered
    BY <2>2 DEF Remembered
  <2> QED
    BY <1>1, <2>2, <2>3, OneMorePiece
<1>3. CASE fields[i] # Empty
  <2>1. PICK o \in Found(TextOf(i, i)) :
          /\ Looked(TextOf(i, i), o)
          /\ \/ /\ o.kind # "ENOENT" /\ roots' = Component(TextOf(i, i))
                /\ i' = i + 1 /\ UNCHANGED <<pc, j>>
             \/ o.kind = "ENOENT" /\ pc' = "join" /\ j' = i /\ UNCHANGED <<i, roots>>
    BY <1>3 DEF Split
  <2>2. Remembered /\ TextOf(i, i) \in DOMAIN fs' /\ fs'[TextOf(i, i)] = o
    BY <2>1, WhatIsSeenStays
  <2>3. CASE roots' = Component(TextOf(i, i)) /\ i' = i + 1 /\ UNCHANGED pc
    BY <1>1, <2>2, <2>3, OneMorePiece
  <2>4. CASE o.kind = "ENOENT" /\ pc' = "join" /\ j' = i /\ UNCHANGED <<i, roots>>
    <3>1. TextOf(i, i) = SubSeq(fields, i, i)
      BY <1>3 DEF TextOf
    <3>2. JoinInv'
      <4>1. j' \in i' .. Len(fields') /\ fields'[i'] # Empty
        BY <1>1, <1>3, <2>4
      <4>2. \A k \in i' .. Len(fields') : tied'[k] <=> k < j'
        BY <1>1, <2>4
      <4>3. \A m \in i' .. j' : m = i
        BY <1>1, <2>4
      <4>4. \A m \in i' .. j' : /\ SubSeq(fields', i', m) \in DOMAIN fs'
                                /\ fs'[SubSeq(fields', i', m)].kind = "ENOENT"
        BY <1>1, <2>2, <2>4, <3>1, <4>3
      <4> QED
        BY <4>1, <4>2, <4>4 DEF JoinInv
    <3>3. Cursor' = Cursor
      BY <2>4 DEF Cursor, LastField
    <3>4. \A r \in DOMAIN roots : Piece(r)'
      BY <1>1, <2>2, <2>4, <3>3, PiecesStay DEF ComponentsInv
    <3>5. ComponentsInv'
      BY <1>1, <2>4, <3>2, <3>3, <3>4 DEF ComponentsInv
    <3> QED
      BY <1>1, <2>4, <3>5 DEF SplitInv
  <2> QED
    BY <2>1, <2>3, <2>4
<1> QED
  BY <1>2, <1>3

LEMMA JoinStep ==
  ASSUME SplitInv, Join
  PROVE  SplitInv'
<1>1. /\ pc = "join" /\ mode # "roots" /\ JoinInv /\ i = Cursor /\ i \in 1 .. Len(fields) + 1
      /\ fields \in Seq(Nat) /\ UNCHANGED <<mode, fields>>
      /\ tied \in [1 .. Len(fields) -> BOOLEAN] /\ ComponentsInv
  BY DEF Join, SplitInv, ComponentsInv, invocation
<1>2. /\ Len(fields) \in Nat /\ i \in 1 .. Len(fields) /\ j \in i .. Len(fields)
      /\ fields[i] # Empty /\ \A k \in i .. Len(fields) : tied[k] <=> k < j
  BY <1>1 DEF JoinInv
<1>3. ASSUME NEW last \in {j - 1, j}, GiveUp(last), Remembered
      PROVE  SplitInv'
  <2>1. /\ tied' \in [1 .. Len(fields) -> BOOLEAN]
        /\ \A k \in 1 .. i - 1 : tied'[k] = tied[k]
        /\ \A k \in i .. Len(fields) : ~tied'[k]
    <3>1. tied' = [k \in DOMAIN tied |-> tied[k] /\ k \notin i .. last]
      BY <1>3 DEF GiveUp, Untied
    <3>2. /\ DOMAIN tied = 1 .. Len(fields)
          /\ \A k \in 1 .. Len(fields) : tied'[k] = (tied[k] /\ k \notin i .. last)
      BY <1>1, <3>1
    <3>3. tied' \in [1 .. Len(fields) -> BOOLEAN]
      BY <1>1, <3>1, <3>2
    <3>4. ASSUME NEW k \in 1 .. i - 1 PROVE tied'[k] = tied[k]
      <4>1. k \in 1 .. Len(fields) /\ k \notin i .. last
        BY <1>2
      <4>2. tied[k] \in BOOLEAN
        BY <1>1, <4>1
      <4> QED
        BY <3>2, <4>1, <4>2
    <3>5. ASSUME NEW k \in i .. Len(fields) PROVE ~tied'[k]
      <4>1. k \in 1 .. Len(fields)
        BY <1>2
      <4>2. CASE k \in i .. last
        BY <3>2, <4>1, <4>2
      <4>3. CASE k \notin i .. last
        <5>1. ~(k < j)
          BY <1>2, <4>3
        <5>2. ~tied[k]
          BY <1>2, <5>1
        <5> QED
          BY <3>2, <4>1, <5>2
      <4> QED
        BY <4>2, <4>3
    <3> QED
      BY <3>3, <3>4, <3>5
  <2>2. roots' = Component(TextOf(i, i)) /\ i' = i + 1 /\ pc' = "split"
    BY <1>3 DEF GiveUp
  <2> QED
    BY <1>1, <1>2, <1>3, <2>1, <2>2, OneMorePiece
<1>4. CASE GiveUp(j - 1) /\ UNCHANGED fs
  BY <1>3, <1>4 DEF Remembered
<1>5. ASSUME j # Len(fields), NEW o \in Found(TextOf(i, j + 1)), Looked(TextOf(i, j + 1), o),
             \/ o.kind \in {"file", "dir", "shut"} /\ GiveUp(j)
             \/ /\ o.kind = "ENOENT" /\ tied' = [tied EXCEPT ![j] = TRUE] /\ j' = j + 1
                /\ UNCHANGED <<pc, i, roots>>
             \/ /\ o.kind \in {"ENOTDIR", "error"} /\ tied' = [tied EXCEPT ![j] = TRUE]
                /\ roots' = Component(TextOf(i, j + 1)) /\ i' = j + 2 /\ pc' = "split"
                /\ UNCHANGED j
      PROVE  SplitInv'
  <2>1. j + 1 \in i .. Len(fields) /\ j \in 1 .. Len(fields) /\ i # j + 1
    BY <1>2, <1>5
  <2>2. Remembered /\ TextOf(i, j + 1) \in DOMAIN fs' /\ fs'[TextOf(i, j + 1)] = o
    BY <1>5, WhatIsSeenStays
  <2>3. TextOf(i, j + 1) = SubSeq(fields, i, j + 1)
    BY <2>1 DEF TextOf
  <2>4. \A m \in i .. j : /\ SubSeq(fields, i, m) \in DOMAIN fs'
                          /\ fs'[SubSeq(fields, i, m)].kind = "ENOENT"
    BY <1>1, <2>2 DEF JoinInv, Remembered
  <2>5. CASE GiveUp(j)
    BY <1>3, <2>2, <2>5
  <2>6. CASE /\ o.kind = "ENOENT" /\ tied' = [tied EXCEPT ![j] = TRUE] /\ j' = j + 1
             /\ UNCHANGED <<pc, i, roots>>
    <3>1. /\ tied' \in [1 .. Len(fields) -> BOOLEAN] /\ \A k \in 1 .. i - 1 : tied'[k] = tied[k]
          /\ \A k \in i .. Len(fields) : tied'[k] <=> k < j + 1
      <4>1. \A k \in 1 .. Len(fields) : tied'[k] = IF k = j THEN TRUE ELSE tied[k]
        BY <1>1, <2>6
      <4>2. tied' \in [1 .. Len(fields) -> BOOLEAN]
        BY <1>1, <2>6
      <4>3. \A k \in 1 .. i - 1 : k \in 1 .. Len(fields) /\ k # j
        BY <1>2
      <4>4. ASSUME NEW k \in i .. Len(fields) PROVE tied'[k] <=> k < j + 1
        <5>1. k \in 1 .. Len(fields) /\ (k < j + 1 <=> k = j \/ k < j)
          BY <1>2
        <5>2. tied[k] <=> k < j
          BY <1>2
        <5> QED
          BY <4>1, <5>1, <5>2
      <4>5. \A k \in 1 .. i - 1 : tied'[k] = tied[k]
        BY <4>1, <4>3
      <4> QED
        BY <4>2, <4>4, <4>5
    <3>2. \A m \in i .. j + 1 : m \in i .. j \/ m = j + 1
      BY <1>2
    <3>3. \A m \in i .. j + 1 : /\ SubSeq(fields, i, m) \in DOMAIN fs'
                                /\ fs'[SubSeq(fields, i, m)].kind = "ENOENT"
      BY <2>2, <2>3, <2>4, <2>6, <3>2
    <3>4. JoinInv'
      BY <1>1, <1>2, <2>1, <2>6, <3>1, <3>3 DEF JoinInv
    <3>5. Cursor' = Cursor
      BY <2>6 DEF Cursor, LastField
    <3>6. \A r \in DOMAIN roots : Piece(r)'
      <4>1. \A r \in DOMAIN roots : Piece(r)
        BY <1>1 DEF ComponentsInv
      <4>2. UNCHANGED <<fields, roots>> /\ Cursor \in Nat /\ Cursor = i /\ Len(fields) \in Nat
        BY <1>1, <1>2, <2>6
      <4> QED
        BY <2>2, <3>1, <3>5, <4>1, <4>2, PiecesStay
    <3>7. ComponentsInv'
      BY <1>1, <2>6, <3>4, <3>5, <3>6 DEF ComponentsInv
    <3> QED
      BY <1>1, <2>6, <3>1, <3>7 DEF SplitInv
  <2>7. CASE /\ o.kind \in {"ENOTDIR", "error"} /\ tied' = [tied EXCEPT ![j] = TRUE]
             /\ roots' = Component(TextOf(i, j + 1)) /\ i' = j + 2 /\ pc' = "split"
    <3>1. /\ tied' \in [1 .. Len(fields) -> BOOLEAN] /\ \A k \in 1 .. i - 1 : tied'[k] = tied[k]
          /\ \A k \in i .. j : tied'[k]
          /\ \A k \in j + 1 .. Len(fields) : ~tied'[k]
      <4>1. \A k \in 1 .. Len(fields) : tied'[k] = IF k = j THEN TRUE ELSE tied[k]
        BY <1>1, <2>7
      <4>2. tied' \in [1 .. Len(fields) -> BOOLEAN]
        BY <1>1, <2>7
      <4>3. \A k \in 1 .. i - 1 : k \in 1 .. Len(fields) /\ k # j
        BY <1>2
      <4>4. ASSUME NEW k \in i .. j PROVE tied'[k]
        <5>1. k \in 1 .. Len(fields) /\ k \in i .. Len(fields) /\ (k = j \/ k < j)
          BY <1>2
        <5>2. k # j => tied[k]
          BY <1>2, <5>1
        <5> QED
          BY <4>1, <5>1, <5>2
      <4>5. ASSUME NEW k \in j + 1 .. Len(fields) PROVE ~tied'[k]
        <5>1. k \in 1 .. Len(fields) /\ k \in i .. Len(fields) /\ k # j /\ ~(k < j)
          BY <1>2
        <5>2. ~tied[k]
          BY <1>2, <5>1
        <5> QED
          BY <4>1, <5>1, <5>2
      <4>6. \A k \in 1 .. i - 1 : tied'[k] = tied[k]
        BY <4>1, <4>3
      <4> QED
        BY <4>2, <4>4, <4>5, <4>6
    <3>2. Joined(SubSeq(fields, i, j + 1), fs')
      <4> DEFINE text == SubSeq(fields, i, j + 1)
      <4>1. \A n \in 1 .. Len(text) - 1 : /\ i + n - 1 \in i .. j
                                          /\ SubSeq(text, 1, n) = SubSeq(fields, i, i + n - 1)
        BY <1>1, <1>2, <2>1, BeginningsOfPieces
      <4>2. text \in DOMAIN fs' /\ fs'[text].kind \in {"ENOTDIR", "error"}
        BY <2>2, <2>3, <2>7
      <4>3. \A n \in 1 .. Len(text) - 1 :
              SubSeq(text, 1, n) \in DOMAIN fs' /\ fs'[SubSeq(text, 1, n)].kind = "ENOENT"
        BY <2>4, <4>1
      <4> HIDE DEF text
      <4>4. Joined(text, fs')
        BY <1>1, <4>2, <4>3 DEF Joined
      <4> QED
        BY <1>1, <4>4 DEF text
    <3>3. PICK last \in i .. Len(fields) : last = j + 1
      BY <2>1
    <3>4. last - 1 = j /\ last + 1 = j + 2
      BY <1>2, <3>3
    <3>5. /\ roots' = Component(TextOf(i, last)) /\ i' = last + 1 /\ pc' = "split"
          /\ Joined(SubSeq(fields, i, last), fs')
          /\ \A k \in i .. last - 1 : tied'[k]
          /\ \A k \in last .. Len(fields) : ~tied'[k]
      BY <2>7, <3>1, <3>2, <3>3, <3>4
    <3> QED
      BY <1>1, <1>2, <2>2, <3>1, <3>5, OneMorePiece
  <2> QED
    BY <1>5, <2>5, <2>6, <2>7
<1> QED
  BY <1>4, <1>5 DEF Join

(* Afterwards only the file system becomes known. *)
LEMMA PiecesKept ==
  ASSUME SplitInv, UNCHANGED <<mode, fields, tied, roots>>, Remembered,
         pc' \notin {"load", "split", "join"}, pc = "done" => pc' = "done",
         pc \notin {"split", "join", "load"} \/ pc' = "done" \/ mode = "roots"
           \/ i = Len(fields) + 1
  PROVE  SplitInv'
<1>1. CASE mode = "roots"
  BY <1>1 DEF SplitInv
<1>2. CASE mode # "roots"
  <2>1. ComponentsInv
    BY <1>2 DEF SplitInv
  <2>2. Cursor' = Cursor /\ Cursor \in Nat
    BY <2>1 DEF Cursor, ComponentsInv
  <2>3. \A r \in DOMAIN roots : Piece(r)'
    <3>1. Len(fields) \in Nat
      BY DEF SplitInv
    <3> QED
      BY <2>1, <2>2, <3>1, PiecesStay DEF ComponentsInv
  <2>4. pc' # "done" => Cursor = Len(fields) + 1
    BY <1>2, <2>1 DEF ComponentsInv
  <2>5. ComponentsInv'
    BY <2>1, <2>2, <2>3, <2>4 DEF ComponentsInv
  <2> QED
    BY <1>2, <2>5 DEF SplitInv
<1> QED
  BY <1>1, <1>2

(* What loading and the steps after the splitting leave alone. *)
LEMMA LoadKeepsPieces ==
  ASSUME SplitInv, Load
  PROVE  SplitInv'
<1>1. pc = "load" /\ UNCHANGED <<mode, fields, tied, loops, disk>>
  BY DEF Load, Fail, OutOfMemory, invocation
<1>2. Remembered
  BY <1>1 DEF Remembered, disk
<1>3. CASE pc' = "done" /\ UNCHANGED roots
  BY <1>1, <1>2, <1>3, PiecesKept
<1>4. CASE mode # "roots" /\ pc' = "split" /\ UNCHANGED roots
  <2>1. roots = <<>> /\ i = 1 /\ \A k \in 1 .. Len(fields) : ~tied[k]
    BY <1>1 DEF SplitInv
  <2>2. Cursor' = 1 /\ i' = 1 /\ DOMAIN roots' = {} /\ roots' \in Seq(Root)
    BY <1>1, <1>4, <2>1 DEF Cursor, loops
  <2>3. ComponentsInv'
    BY <1>1, <1>4, <2>1, <2>2 DEF ComponentsInv, SplitInv
  <2> QED
    BY <1>1, <1>4, <2>3 DEF SplitInv
<1>5. CASE mode = "roots" /\ pc' = "classify"
  BY <1>1, <1>5 DEF SplitInv
<1> QED
  BY <1>1, <1>3, <1>4, <1>5 DEF Load, Fail, OutOfMemory

(* The rest of a run leaves the components alone, and forgets nothing. *)
LaterActions ==
  \/ Classify \/ ClassifyEnds \/ NoMemory \/ Query \/ QueryEnds
  \/ ScanOpen \/ (\E c \in Commands : ScanEntry(c)) \/ ScanEnds \/ AllScanned
  \/ Sort \/ Emit

LEMMA LaterSteps ==
  ASSUME LaterActions
  PROVE  /\ UNCHANGED <<mode, fields, tied, roots>> /\ Remembered
         /\ pc \notin {"load", "split", "join", "done"}
         /\ pc' \notin {"load", "split", "join"}
<1>1. CASE Classify
  <2>1. CASE UNCHANGED fs
    BY <1>1, <2>1 DEF Classify, Fail, invocation, Remembered
  <2>2. CASE ~UNCHANGED fs
    <3>1. PICK o \in Found(roots[i].text) : Looked(roots[i].text, o)
      BY <1>1, <2>2 DEF Classify
    <3>2. Remembered
      BY <3>1, WhatIsSeenStays
    <3> QED
      BY <1>1, <3>2 DEF Classify, Fail, invocation
  <2> QED
    BY <2>1, <2>2
<1>2. CASE Query
  <2>1. PICK o \in Found(roots[i].text) : Looked(roots[i].text, o)
    BY <1>2 DEF Query
  <2>2. Remembered
    BY <2>1, WhatIsSeenStays
  <2> QED
    BY <1>2, <2>2 DEF Query, Fail, invocation
<1>3. CASE ClassifyEnds \/ NoMemory \/ QueryEnds \/ ScanOpen \/ ScanEnds \/ AllScanned
  BY <1>3 DEF ClassifyEnds, NoMemory, QueryEnds, ScanOpen, ScanEnds, AllScanned,
     OutOfMemory, Fail, invocation, disk, Remembered
<1>4. CASE \E c \in Commands : ScanEntry(c)
  BY <1>4 DEF ScanEntry, Fail, invocation, Remembered
<1>5. CASE Sort \/ Emit
  BY <1>5 DEF Sort, Emit, invocation, disk, Remembered
<1> QED
  BY <1>1, <1>2, <1>3, <1>4, <1>5 DEF LaterActions

LEMMA SplitInvAlways == Spec => []SplitInv
<1>1. Init => SplitInv
  <2>1. SUFFICES ASSUME Init PROVE SplitInv
    OBVIOUS
  <2>2. /\ fields \in Seq(Nat) /\ tied = [k \in DOMAIN fields |-> FALSE]
        /\ pc = "load" /\ roots = <<>> /\ i = 1
    BY <2>1, PathauditAssumption DEF Init
  <2>3. Cursor = 1 /\ DOMAIN roots = {} /\ roots \in Seq(Root)
    BY <2>2 DEF Cursor
  <2>4. tied \in [1 .. Len(fields) -> BOOLEAN] /\ \A k \in 1 .. Len(fields) : ~tied[k]
    BY <2>2
  <2>5. ComponentsInv
    BY <2>2, <2>3, <2>4 DEF ComponentsInv
  <2> QED
    BY <2>2, <2>4, <2>5 DEF SplitInv
<1>2. SplitInv /\ [Next]_vars => SplitInv'
  <2>1. SUFFICES ASSUME SplitInv, [Next]_vars PROVE SplitInv'
    OBVIOUS
  <2>2. CASE Load \/ Split \/ Join
    BY <2>1, <2>2, LoadKeepsPieces, SplitStep, JoinStep
  <2>3. CASE SplitEnds
    <3>1. /\ pc = "split" /\ i \notin DOMAIN fields /\ pc' \in {"classify", "query"}
          /\ UNCHANGED <<mode, fields, tied, roots, fs>>
      BY <2>3 DEF SplitEnds, invocation, disk
    <3>2. mode # "roots" => i = Len(fields) + 1
      <4>1. mode # "roots" => i \in 1 .. Len(fields) + 1
        BY <2>1, <3>1 DEF SplitInv, ComponentsInv
      <4>2. fields \in Seq(Nat)
        BY <2>1 DEF SplitInv
      <4> QED
        BY <3>1, <4>1, <4>2
    <3>3. Remembered
      BY <3>1 DEF Remembered
    <3> QED
      BY <2>1, <3>1, <3>2, <3>3, PiecesKept
  <2>4. CASE LaterActions
    BY <2>1, <2>4, LaterSteps, PiecesKept
  <2>5. CASE Terminated \/ UNCHANGED vars
    <3>1. UNCHANGED <<mode, fields, tied, roots, i, j, fs, pc>>
      BY <2>5 DEF Terminated, vars, invocation, loops, disk
    <3>2. Cursor' = Cursor
      BY <3>1 DEF Cursor
    <3>3. \A r : Piece(r)' <=> Piece(r)
      BY <3>1, <3>2 DEF Piece, TextOf
    <3>4. JoinInv' <=> JoinInv
      BY <3>1 DEF JoinInv
    <3>5. ComponentsInv' <=> ComponentsInv
      BY <3>1, <3>2, <3>3, <3>4 DEF ComponentsInv
    <3> QED
      BY <2>1, <3>1, <3>5 DEF SplitInv
  <2> QED
    BY <2>1, <2>2, <2>3, <2>4, <2>5 DEF Next, LaterActions
<1> QED
  BY <1>1, <1>2, PTL DEF Spec

(* A component's pointer, read as a C string, is its text. *)
LEMMA PiecesAreCStrings ==
  ASSUME SplitInv, NEW r, Piece(r)
  PROVE  CString(roots[r].at) = roots[r].text
<1> DEFINE a == roots[r].at
           b == LastField(roots[r])
           ends == {m \in a .. Len(fields) : m = Len(fields) \/ ~tied[m]}
<1>1. /\ a \in 1 .. Len(fields) /\ b \in a .. Len(fields) /\ Len(fields) \in Nat
      /\ \A m \in a .. b - 1 : tied[m]
      /\ b = Len(fields) \/ ~tied[b]
      /\ roots[r].text = TextOf(a, b)
  BY DEF Piece, SplitInv
<1> HIDE DEF a, b
<1>2. b \in ends /\ \A m \in ends : b <= m
  <2>1. b \in ends
    BY <1>1
  <2>2. \A m \in ends : m \notin a .. b - 1
    BY <1>1
  <2>3. \A m \in ends : m \in Nat /\ a <= m
    BY <1>1
  <2> QED
    BY <1>1, <2>1, <2>2, <2>3
<1>3. \A m \in ends : m \in Nat
  BY <1>1
<1>4. (CHOOSE m \in ends : \A n \in ends : m <= n) = b
  <2> HIDE DEF ends
  <2>1. \A m \in ends : (\A n \in ends : m <= n) => m = b
    BY <1>1, <1>2, <1>3
  <2> QED
    BY <1>2, <2>1
<1> QED
  BY <1>1, <1>4 DEF CString, a

(* The components are the fields of PATH in order, none lost and none      *)
(* twice, each a C string of its own and joined only if the whole can be   *)
(* said to fail while its beginnings are merely missing: path_components_  *)
(* load() and coalesce_inspection_path_fragments() never skip a separator. *)
THEOREM ComponentsCoverPath == Spec => []SplitCoversPath
<1>1. SplitInv => SplitCoversPath
  <2>1. SUFFICES ASSUME SplitInv, mode # "roots", roots # <<>> PROVE SplitCoversPath
    BY DEF SplitCoversPath
  <2>2. roots \in Seq(Root) /\ \A r \in DOMAIN roots : Piece(r)
    BY <2>1 DEF SplitInv, ComponentsInv
  <2>3. roots[1].at = 1
    <3>1. 1 \in DOMAIN roots
      BY <2>1, <2>2
    <3> QED
      BY <2>2, <3>1 DEF Piece
  <2>4. pc \notin {"split", "join", "done"} => LastField(roots[Len(roots)]) = Len(fields)
    <3>1. SUFFICES ASSUME pc \notin {"split", "join", "done"}
          PROVE LastField(roots[Len(roots)]) = Len(fields)
      OBVIOUS
    <3>2. Cursor = Len(fields) + 1 /\ Len(fields) \in Nat
      BY <2>1, <3>1 DEF SplitInv, ComponentsInv
    <3>3. Len(roots) \in DOMAIN roots
      BY <2>1, <2>2
    <3>4. LastField(roots[Len(roots)]) \in Int
      BY <2>2, <3>2, <3>3 DEF Piece
    <3> QED
      BY <2>1, <3>2, <3>4 DEF Cursor
  <2>5. \A r \in DOMAIN roots : CString(roots[r].at) = roots[r].text
    BY <2>1, <2>2, PiecesAreCStrings
  <2>6. ASSUME NEW r \in DOMAIN roots
        PROVE  /\ roots[r].index = r
               /\ r # 1 => roots[r].at = LastField(roots[r - 1]) + 1
               /\ \A n \in 1 .. Len(roots[r].text) - 1 :
                    fs[SubSeq(roots[r].text, 1, n)].kind = "ENOENT"
               /\ Len(roots[r].text) > 1 => fs[roots[r].text].kind \in {"ENOTDIR", "error"}
    BY <2>2 DEF Piece, Joined
  <2> QED
    BY <2>3, <2>4, <2>5, <2>6 DEF SplitCoversPath
<1> QED
  BY <1>1, SplitInvAlways, PTL

-----------------------------------------------------------------------------
(* Everything was inspected, or nothing is printed. *)

Good(text, seen) == text \in DOMAIN seen => seen[text].kind # "error"

(* What was looked at could be inspected; the empty text, which is the     *)
(* current directory, always can.                                          *)
RejectInv ==
  /\ i \in Nat \ {0} /\ \E n \in Nat : DOMAIN roots = 1 .. n
  /\ pc = "load" => i = 1
  /\ Good(<<>>, fs)
  /\ pc \in {"classify", "query"} => \A r \in DOMAIN roots : r < i => Good(roots[r].text, fs)
  /\ pc \in {"scan", "entries", "sort", "emit"} \/ Completed =>
       \A r \in DOMAIN roots : Good(roots[r].text, fs)
  /\ status # 2 => \A x \in DOMAIN exe : exe[x] # Uninspected
  /\ pc # "done" => out = <<>> /\ status = 0
  /\ status = 2 /\ reason # "STDOUT_WRITE" => out = <<>>

(* Looking at a text changes what is known of this one only. *)
LEMMA LookingIsLocal ==
  ASSUME NEW text, NEW o \in Found(text), Looked(text, o), Good(<<>>, fs)
  PROVE  /\ Good(<<>>, fs')
         /\ o.kind # "error" => Good(text, fs')
         /\ \A x : Good(x, fs) /\ x # text => Good(x, fs')
         /\ o.kind # "error" => \A x : Good(x, fs) => Good(x, fs')
BY DEF Found, Looked, Good

(* A failure keeps the invariant, whatever was looked at. *)
LEMMA FailKeepsReject ==
  ASSUME RejectInv, NEW why, Fail(why), Good(<<>>, fs'), pc # "done"
  PROVE  RejectInv'
BY DEF RejectInv, Fail, Completed, loops

(* So does a step that looks at nothing new, within one part of the run. *)
LEMMA QuietKeepsReject ==
  ASSUME RejectInv, UNCHANGED <<roots, disk, result>>, i' \in Nat \ {0}, pc # "done",
         pc' \in {"split", "join", "classify", "query", "scan", "entries", "sort", "emit"},
         pc' \in {"classify", "query"} =>
           \/ \A r \in DOMAIN roots : r >= i'
           \/ pc' = pc /\ UNCHANGED i,
         pc' \in {"scan", "entries", "sort", "emit"} =>
           \/ pc \in {"scan", "entries", "sort", "emit"}
           \/ pc \in {"classify", "query"} /\ i \notin DOMAIN roots
  PROVE  RejectInv'
<1>1. UNCHANGED <<fs, exe, out, status, reason>>
  BY DEF disk, result
<1>2. \A x : Good(x, fs') <=> Good(x, fs)
  BY <1>1 DEF Good
<1>3. pc' \in {"classify", "query"} => \A r \in DOMAIN roots : r < i' => Good(roots[r].text, fs)
  <2>1. SUFFICES ASSUME pc' \in {"classify", "query"}, NEW r \in DOMAIN roots, r < i'
                 PROVE  Good(roots[r].text, fs)
    OBVIOUS
  <2>2. r \in Nat /\ i' \in Nat
    BY DEF RejectInv
  <2> QED
    BY <2>1, <2>2 DEF RejectInv
<1>4. pc' \in {"scan", "entries", "sort", "emit"} => \A r \in DOMAIN roots : Good(roots[r].text, fs)
  <2>1. SUFFICES ASSUME pc' \in {"scan", "entries", "sort", "emit"}, NEW r \in DOMAIN roots
                 PROVE  Good(roots[r].text, fs)
    OBVIOUS
  <2>2. CASE pc \in {"scan", "entries", "sort", "emit"}
    BY <2>1, <2>2 DEF RejectInv
  <2>3. CASE pc \in {"classify", "query"} /\ i \notin DOMAIN roots
    <3>1. r < i
      BY <2>1, <2>3 DEF RejectInv
    <3> QED
      BY <2>1, <2>3, <3>1 DEF RejectInv
  <2> QED
    BY <2>1, <2>2, <2>3
<1>5. \A r : Good(roots'[r].text, fs') <=> Good(roots[r].text, fs)
  BY <1>1 DEF Good
<1> QED
  BY <1>1, <1>2, <1>3, <1>4, <1>5 DEF RejectInv, Completed

LEMMA RejectLoad ==
  ASSUME RejectInv, SplitInv, Load
  PROVE  RejectInv'
<1>1. UNCHANGED <<disk, fs, exe>> /\ pc = "load" /\ i = 1
  BY DEF Load, disk, RejectInv
<1>2. Good(<<>>, fs')
  BY <1>1 DEF Good, RejectInv
<1>3. CASE \E why : Fail(why)
  BY <1>1, <1>2, <1>3, FailKeepsReject
<1>4. CASE pc' = "split" /\ UNCHANGED <<roots, loops, result>>
  BY <1>1, <1>4, QuietKeepsReject DEF loops
<1>5. CASE /\ pc' = "classify" /\ UNCHANGED <<loops, result>>
           /\ roots' = Sorted([k \in DOMAIN fields |->
                                 [text |-> TextOf(k, k), index |-> k, at |-> k]],
                              RootBefore)
  <2>1. DOMAIN roots' = 1 .. Len(fields) /\ Len(fields) \in Nat
    BY <1>5 DEF Sorted, SplitInv
  <2>2. i' = 1 /\ UNCHANGED <<out, status, reason>>
    BY <1>1, <1>5 DEF loops, result
  <2>3. \A r \in DOMAIN roots' : ~(r < i')
    BY <2>1, <2>2
  <2> QED
    BY <1>1, <1>2, <1>5, <2>1, <2>2, <2>3 DEF RejectInv, Completed
<1> QED
  BY <1>3, <1>4, <1>5 DEF Load, OutOfMemory

LEMMA RejectSplit ==
  ASSUME RejectInv, SplitInv, Split \/ Join
  PROVE  RejectInv'
<1>1. /\ pc \in {"split", "join"} /\ pc' \in {"split", "join"} /\ i \in Nat \ {0}
      /\ UNCHANGED <<exe, out, status, reason>> /\ out = <<>> /\ status = 0
      /\ mode # "roots" /\ roots \in Seq(Root)
  BY DEF Split, Join, GiveUp, RejectInv, result, SplitInv, ComponentsInv
<1>2. i' \in Nat \ {0}
  <2>1. CASE Split
    BY <1>1, <2>1 DEF Split
  <2>2. CASE Join
    <3>1. fields \in Seq(Nat) /\ j \in i .. Len(fields)
      BY <1>1, <2>2 DEF Join, SplitInv, ComponentsInv, JoinInv
    <3> QED
      BY <1>1, <2>2, <3>1, SMTT(30) DEF Join, GiveUp
  <2> QED
    BY <2>1, <2>2
<1>3. \E n \in Nat : DOMAIN roots' = 1 .. n
  <2>1. UNCHANGED roots \/ \E c : roots' = Append(roots, c)
    BY DEF Split, Join, GiveUp, Component
  <2>2. \A c : DOMAIN Append(roots, c) = 1 .. Len(roots) + 1 /\ Len(roots) + 1 \in Nat
    BY <1>1
  <2>3. DOMAIN roots = 1 .. Len(roots) /\ Len(roots) \in Nat
    BY <1>1
  <2> QED
    BY <2>1, <2>2, <2>3
<1>4. Good(<<>>, fs')
  <2>1. CASE UNCHANGED fs
    BY <2>1 DEF RejectInv, Good
  <2>2. CASE \E text : \E o \in Found(text) : Looked(text, o)
    BY <2>2, LookingIsLocal DEF RejectInv
  <2> QED
    BY <2>1, <2>2 DEF Split, Join
<1> QED
  BY <1>1, <1>2, <1>3, <1>4 DEF RejectInv, Completed

LEMMA RejectClassify ==
  ASSUME RejectInv, Classify
  PROVE  RejectInv'
<1> DEFINE text == roots[i].text
<1>1. /\ pc = "classify" /\ i \in DOMAIN roots /\ UNCHANGED exe
      /\ i \in Nat \ {0} /\ out = <<>> /\ status = 0 /\ Good(<<>>, fs)
      /\ \A r \in DOMAIN roots : r < i => Good(roots[r].text, fs)
      /\ \E n \in Nat : DOMAIN roots = 1 .. n
  BY DEF Classify, RejectInv
<1>2. CASE text = <<>> /\ i' = i + 1 /\ UNCHANGED <<pc, roots, fs, result>>
  <2>1. \A x : Good(x, fs') <=> Good(x, fs)
    BY <1>2 DEF Good
  <2>2. \A r \in DOMAIN roots : r < i' => r < i \/ r = i
    BY <1>1, <1>2
  <2>3. \A r \in DOMAIN roots : r < i' => Good(roots[r].text, fs)
    BY <1>1, <1>2, <2>2
  <2>4. \A r : Good(roots'[r].text, fs') <=> Good(roots[r].text, fs)
    BY <1>2 DEF Good
  <2> QED
    BY <1>1, <1>2, <2>1, <2>3, <2>4 DEF RejectInv, Completed, result
<1>3. ASSUME NEW o \in Found(text), Looked(text, o), o.kind = "error", Fail("INSPECTION_ERROR")
      PROVE  RejectInv'
  <2>1. Good(<<>>, fs')
    BY <1>1, <1>3, LookingIsLocal
  <2> QED
    BY <1>1, <1>3, <2>1, FailKeepsReject
<1>4. ASSUME NEW o \in Found(text), Looked(text, o), o.kind # "error",
             i' = i + 1, UNCHANGED <<pc, roots, result>>
      PROVE  RejectInv'
  <2>1. Good(text, fs')
    BY <1>1, <1>4, LookingIsLocal
  <2>2. Good(<<>>, fs') /\ \A x : Good(x, fs) => Good(x, fs')
    BY <1>1, <1>4, LookingIsLocal
  <2>3. \A r \in DOMAIN roots : r < i + 1 => r < i \/ r = i
    BY <1>1
  <2>4. \A r \in DOMAIN roots' : r < i' => Good(roots'[r].text, fs')
    BY <1>1, <1>4, <2>1, <2>2, <2>3
  <2> QED
    BY <1>1, <1>4, <2>2, <2>4 DEF RejectInv, Completed, result
<1> QED
  BY <1>1, <1>2, <1>3, <1>4 DEF Classify


LEMMA RejectQuery ==
  ASSUME RejectInv, Query
  PROVE  RejectInv'
<1> DEFINE text == roots[i].text
<1>1. /\ pc = "query" /\ i \in DOMAIN roots
      /\ i \in Nat \ {0} /\ out = <<>> /\ status = 0 /\ Good(<<>>, fs)
      /\ \A r \in DOMAIN roots : r < i => Good(roots[r].text, fs)
      /\ \E n \in Nat : DOMAIN roots = 1 .. n
      /\ \A x \in DOMAIN exe : exe[x] # Uninspected
  BY DEF Query, RejectInv
<1>2. PICK o \in Found(text) :
        /\ Looked(text, o)
        /\ \E e : /\ Tried(text, command, e)
                  /\ \/ Fail("INSPECTION_ERROR")
                     \/ /\ e # Uninspected /\ o.kind # "error" /\ i' = i + 1
                        /\ UNCHANGED <<pc, roots, result>>
  BY DEF Query, Unsafe
<1>3. Good(<<>>, fs') /\ (o.kind # "error" => Good(text, fs') /\ \A x : Good(x, fs) => Good(x, fs'))
  BY <1>1, <1>2, LookingIsLocal
<1>4. CASE Fail("INSPECTION_ERROR")
  BY <1>1, <1>3, <1>4, FailKeepsReject
<1>5. ASSUME NEW e, Tried(text, command, e), e # Uninspected, o.kind # "error", i' = i + 1,
             UNCHANGED <<pc, roots, result>>
      PROVE  RejectInv'
  <2>1. \A r \in DOMAIN roots : r < i + 1 => r < i \/ r = i
    BY <1>1
  <2>2. \A r \in DOMAIN roots' : r < i' => Good(roots'[r].text, fs')
    BY <1>1, <1>3, <1>5, <2>1
  <2>3. \A x \in DOMAIN exe' : exe'[x] # Uninspected
    BY <1>1, <1>2, <1>5 DEF Tried
  <2> QED
    BY <1>1, <1>3, <1>5, <2>2, <2>3 DEF RejectInv, Completed, result
<1> QED
  BY <1>2, <1>4, <1>5

LEMMA RejectEntry ==
  ASSUME RejectInv, NEW c \in Commands, ScanEntry(c)
  PROVE  RejectInv'
<1>1. /\ pc = "entries" /\ UNCHANGED fs /\ out = <<>> /\ status = 0 /\ Good(<<>>, fs)
      /\ \A r \in DOMAIN roots : Good(roots[r].text, fs)
      /\ \A x \in DOMAIN exe : exe[x] # Uninspected
  BY DEF ScanEntry, RejectInv
<1>2. PICK e : /\ Tried(roots[i].text, c, e)
               /\ \/ Fail("INSPECTION_ERROR")
                  \/ /\ e # Uninspected /\ UNCHANGED <<roots, i, out>>
                     /\ \/ pc' = "done" /\ status' = 2
                        \/ UNCHANGED <<pc, status, reason>>
  BY DEF ScanEntry, Unsafe, loops
<1>3. CASE Fail("INSPECTION_ERROR")
  BY <1>1, <1>3, FailKeepsReject
<1>4. CASE e # Uninspected /\ UNCHANGED <<roots, i, out>>
           /\ ((pc' = "done" /\ status' = 2) \/ UNCHANGED <<pc, status, reason>>)
  <2>1. \A x \in DOMAIN exe' : exe'[x] # Uninspected
    BY <1>1, <1>2, <1>4 DEF Tried
  <2> QED
    BY <1>1, <1>4, <2>1 DEF RejectInv, Completed
<1> QED
  BY <1>2, <1>3, <1>4

LEMMA RejectInvAlways == Spec => []RejectInv
<1>1. Init => RejectInv
  BY DEF Init, RejectInv, Good, Completed
<1>2. RejectInv /\ SplitInv /\ [Next]_vars => RejectInv'
  <2>1. SUFFICES ASSUME RejectInv, SplitInv, [Next]_vars PROVE RejectInv'
    OBVIOUS
  <2>2. CASE SplitEnds
    <3>1. /\ pc = "split" /\ pc' \in {"classify", "query"} /\ i' = 1
          /\ UNCHANGED <<roots, disk, result>>
      BY <2>2 DEF SplitEnds
    <3>2. \A r \in DOMAIN roots : r >= i'
      BY <2>1, <3>1 DEF RejectInv
    <3> QED
      BY <2>1, <3>1, <3>2, QuietKeepsReject
  <2>3. CASE ClassifyEnds \/ QueryEnds \/ AllScanned
    BY <2>1, <2>3, QuietKeepsReject DEF ClassifyEnds, QueryEnds, AllScanned, loops, RejectInv
  <2>4. CASE ScanOpen \/ Sort
    <3>1. i \in Nat \ {0}
      BY <2>1 DEF RejectInv
    <3>2. /\ pc \in {"scan", "sort"} /\ pc' \in {"scan", "entries", "emit"} /\ i' \in {i, i + 1}
          /\ UNCHANGED <<roots, disk, result>>
      BY <2>4 DEF ScanOpen, Sort, loops
    <3>3. i' \in Nat \ {0}
      BY <3>1, <3>2
    <3> QED
      BY <2>1, <3>2, <3>3, QuietKeepsReject
  <2>5. CASE ScanEnds
    <3>1. pc = "entries" /\ UNCHANGED disk
      BY <2>5 DEF ScanEnds
    <3>2. CASE Fail("INSPECTION_ERROR")
      <4>1. Good(<<>>, fs')
        BY <2>1, <3>1 DEF RejectInv, disk
      <4> QED
        BY <2>1, <3>1, <3>2, <4>1, FailKeepsReject
    <3>3. CASE pc' = "scan" /\ i' = i + 1 /\ UNCHANGED <<roots, result>>
      <4>1. i' \in Nat \ {0}
        BY <2>1, <3>3 DEF RejectInv
      <4> QED
        BY <2>1, <3>1, <3>3, <4>1, QuietKeepsReject
    <3> QED
      BY <2>5, <3>2, <3>3 DEF ScanEnds
  <2>6. CASE NoMemory
    <3>1. pc # "done" /\ UNCHANGED disk /\ Fail("OUT_OF_MEMORY")
      BY <2>6 DEF NoMemory, OutOfMemory
    <3>2. Good(<<>>, fs')
      BY <2>1, <3>1 DEF RejectInv, disk
    <3> QED
      BY <2>1, <3>1, <3>2, FailKeepsReject
  <2>7. CASE Emit
    <3>1. /\ pc = "emit" /\ pc' = "done" /\ UNCHANGED <<i, roots, fs, exe>>
          /\ status' \in {0, 1} \/ (status' = 2 /\ reason' = "STDOUT_WRITE")
      BY <2>7 DEF Emit, loops, disk
    <3> QED
      BY <2>1, <3>1 DEF RejectInv, Completed
  <2>8. CASE Terminated \/ UNCHANGED vars
    BY <2>1, <2>8 DEF Terminated, vars, loops, disk, result, RejectInv, Completed
  <2> QED
    BY <2>1, <2>2, <2>3, <2>4, <2>5, <2>6, <2>7, <2>8, RejectLoad, RejectSplit,
       RejectClassify, RejectQuery, RejectEntry DEF Next
<1> QED
  BY <1>1, <1>2, SplitInvAlways, PTL DEF Spec

(* Either everything was inspected or nothing is printed: no component and *)
(* no candidate that classify_root(), classify_command_component() or      *)
(* try_command_match() counts as not inspectable is passed over.           *)
THEOREM NothingUninspectedIsPassedOver == Spec => []RejectClosed
<1>1. RejectInv => RejectClosed
  BY DEF RejectInv, RejectClosed, Completed, Good
<1> QED
  BY <1>1, RejectInvAlways, PTL

-----------------------------------------------------------------------------
(* The open-addressing tables. *)

(* The order of the naturals, as a set of pairs, is well-founded. *)
LEMMA NaturalOrder ==
  \E R : /\ IsWellFoundedOn(R, Nat)
         /\ \A m, n \in Nat : n < m => <<n, m>> \in R
<1>1. \A m, n \in Nat : n < m => <<n, m>> \in OpToRel(<, Nat)
  BY DEF OpToRel
<1> QED
  BY <1>1, NatLessThanWellFounded, Zenon

(* A set of naturals that is not empty has a least member. *)
LEMMA LeastNatural ==
  ASSUME NEW S, S \subseteq Nat, S # {}
  PROVE  \E m \in S : \A n \in S : m <= n
<1>1. PICK R : /\ IsWellFoundedOn(R, Nat)
               /\ \A m, n \in Nat : n < m => <<n, m>> \in R
  BY NaturalOrder
<1>2. PICK m \in S : \A n \in S : ~(<<n, m>> \in R)
  BY <1>1, WFMin
<1>3. ASSUME NEW n \in S PROVE m <= n
  <2>1. m \in Nat /\ n \in Nat
    OBVIOUS
  <2>2. ~(n < m)
    BY <1>1, <1>2, <2>1
  <2> QED
    BY <2>1, <2>2
<1> QED
  BY <1>3

(* A set that contains zero and with each number the next one has them all. *)
LEMMA EveryNatural ==
  ASSUME NEW S, 0 \in S, \A n \in Nat : n \in S => n + 1 \in S
  PROVE  Nat \subseteq S
<1>1. SUFFICES ASSUME Nat \ S # {} PROVE FALSE
  OBVIOUS
<1>2. PICK m \in Nat \ S : \A n \in Nat \ S : m <= n
  <2>1. Nat \ S \subseteq Nat
    OBVIOUS
  <2> QED
    BY <1>1, <2>1, LeastNatural
<1>3. m # 0 /\ m - 1 \in Nat /\ ~(m <= m - 1)
  BY <1>2
<1>4. m - 1 \in S
  BY <1>2, <1>3
<1>5. (m - 1) + 1 = m
  BY <1>2
<1> QED
  BY <1>2, <1>3, <1>4, <1>5

LEMMA RemainderIsUnique ==
  ASSUME NEW c \in Nat \ {0}, NEW q \in Nat, NEW s \in 0 .. c - 1
  PROVE  ((c * q) + s) % c = s
<1> DEFINE x == (c * q) + s
           d == x \div c
           e == x % c
<1>1. x \in Nat
  OBVIOUS
<1>2. d \in Int /\ e \in 0 .. c - 1 /\ (c * d) + e = x
  <2> HIDE DEF x
  <2> QED
    BY <1>1
<1>3. (c * d) + e = (c * q) + s
  BY <1>2
<1> HIDE DEF d, e
<1>4. e = s
  BY <1>2, <1>3
<1> QED
  BY <1>4 DEF e

(* A probe comes to every slot. *)
LEMMA ProbesReachEverySlot ==
  ASSUME NEW c \in Nat \ {0}, NEW h \in Nat, NEW s \in 0 .. c - 1
  PROVE  \E k \in 0 .. c - 1 : (h + k) % c = s
<1> DEFINE r == h % c
           q == h \div c
<1>1. r \in 0 .. c - 1 /\ q \in Nat /\ h = (c * q) + r
  OBVIOUS
<1> HIDE DEF r, q
<1>2. CASE r <= s
  <2>1. s - r \in 0 .. c - 1 /\ h + (s - r) = (c * q) + s
    BY <1>1, <1>2
  <2> QED
    BY <1>1, <2>1, RemainderIsUnique
<1>3. CASE s < r
  <2>1. (s - r) + c \in 0 .. c - 1
    BY <1>1, <1>3
  <2>2. h + ((s - r) + c) = ((c * q) + c) + s
    BY <1>1
  <2>3. (c * q) + c = c * (q + 1) /\ q + 1 \in Nat
    BY <1>1
  <2>4. h + ((s - r) + c) = (c * (q + 1)) + s
    BY <2>2, <2>3
  <2> QED
    BY <2>1, <2>3, <2>4, RemainderIsUnique
<1> QED
  BY <1>1, <1>2, <1>3

(* The first n items have been entered in the table: the probe of each     *)
(* comes to it before it comes to a vacant slot, and no slot but theirs is *)
(* used.                                                                   *)
Used(t) == {s \in 0 .. t.cap - 1 : t.slots[s] # Vacant}

Placed(t, key, n) ==
  \E k \in 0 .. t.cap - 1 :
    /\ t.slots[SlotAt(t, key, k)] = n
    /\ \A l \in 0 .. k - 1 : t.slots[SlotAt(t, key, l)] # Vacant

IsTable(t, keys, n) ==
  /\ t = [cap |-> t.cap, slots |-> t.slots] /\ t.cap \in Nat \ {0}
  /\ t.slots \in [0 .. t.cap - 1 -> 0 .. n]
  /\ \A m \in 1 .. n : Placed(t, keys[m], m)
  /\ Cardinality(Used(t)) <= n

LEMMA SlotsAreSlots ==
  ASSUME NEW t, t.cap \in Nat \ {0}, NEW key, Hash(key) \in Nat, NEW k \in 0 .. t.cap - 1
  PROVE  SlotAt(t, key, k) \in 0 .. t.cap - 1
BY DEF SlotAt

LEMMA CountingSlots ==
  ASSUME NEW t, t.cap \in Nat
  PROVE  /\ IsFiniteSet(0 .. t.cap - 1) /\ Cardinality(0 .. t.cap - 1) = t.cap
         /\ IsFiniteSet(Used(t)) /\ Cardinality(Used(t)) \in Nat
<1>1. IsFiniteSet(0 .. t.cap - 1) /\ Cardinality(0 .. t.cap - 1) = t.cap
  <2>1. 0 \in Int /\ t.cap - 1 \in Int
    OBVIOUS
  <2>2. /\ IsFiniteSet(0 .. t.cap - 1)
        /\ Cardinality(0 .. t.cap - 1)
             = IF 0 > t.cap - 1 THEN 0 ELSE ((t.cap - 1) - 0) + 1
    BY <2>1, FS_Interval
  <2> QED
    BY <2>2
<1>2. Used(t) \in SUBSET (0 .. t.cap - 1)
  BY DEF Used
<1>3. IsFiniteSet(Used(t))
  BY <1>1, <1>2, FS_Subset
<1> QED
  BY <1>1, <1>3, FS_CardinalityType

LEMMA ThereIsAVacancy ==
  ASSUME NEW t, NEW keys, NEW n \in Nat, IsTable(t, keys, n), n < t.cap
  PROVE  \E s \in 0 .. t.cap - 1 : t.slots[s] = Vacant
<1>1. Cardinality(Used(t)) # t.cap
  BY CountingSlots DEF IsTable
<1>2. Used(t) # 0 .. t.cap - 1
  BY <1>1, CountingSlots DEF IsTable
<1> QED
  BY <1>2 DEF Used

(* A probe for a key stops: at the first slot that is vacant or wanted. *)
LEMMA ProbesStop ==
  ASSUME NEW t, t.cap \in Nat \ {0}, NEW key, NEW wanted, Stops(t, key, wanted) # {}
  PROVE  \E k \in 0 .. t.cap - 1 :
           /\ Slot(t, key, wanted) = SlotAt(t, key, k)
           /\ t.slots[SlotAt(t, key, k)] \in wanted \cup {Vacant}
           /\ \A l \in 0 .. k - 1 : t.slots[SlotAt(t, key, l)] \notin wanted \cup {Vacant}
<1> DEFINE stops == Stops(t, key, wanted)
           k == CHOOSE x \in stops : \A m \in stops : x <= m
<1>1. stops \subseteq Nat
  BY DEF Stops
<1>2. k \in stops /\ \A m \in stops : k <= m
  <2>1. \E x \in stops : \A m \in stops : x <= m
    BY <1>1, LeastNatural
  <2> HIDE DEF stops
  <2> QED
    BY <2>1
<1>3. Slot(t, key, wanted) = SlotAt(t, key, k)
  BY DEF Slot
<1> HIDE DEF k
<1>4. k \in 0 .. t.cap - 1 /\ t.slots[SlotAt(t, key, k)] \in wanted \cup {Vacant}
  BY <1>2 DEF Stops
<1>5. ASSUME NEW l \in 0 .. k - 1
      PROVE  t.slots[SlotAt(t, key, l)] \notin wanted \cup {Vacant}
  <2>1. l \in 0 .. t.cap - 1 /\ ~(k <= l)
    BY <1>4
  <2>2. l \notin stops
    BY <1>2, <2>1
  <2> QED
    BY <2>1, <2>2 DEF Stops
<1> QED
  BY <1>3, <1>4, <1>5

LEMMA ProbesOfTablesStop ==
  ASSUME NEW t, NEW keys, NEW n \in Nat, IsTable(t, keys, n), n < t.cap,
         NEW key, Hash(key) \in Nat, NEW wanted
  PROVE  Stops(t, key, wanted) # {}
<1>1. PICK s \in 0 .. t.cap - 1 : t.slots[s] = Vacant
  BY ThereIsAVacancy
<1>2. PICK k \in 0 .. t.cap - 1 : (Hash(key) + k) % t.cap = s
  BY ProbesReachEverySlot DEF IsTable
<1> QED
  BY <1>1, <1>2 DEF Stops, SlotAt

(* The next item takes the first vacant slot of its probe. *)
LEMMA PlacingKeepsTables ==
  ASSUME NEW t, NEW keys, NEW n \in Nat, IsTable(t, keys, n), n < t.cap,
         Hash(keys[n + 1]) \in Nat, \A m \in 1 .. n : Hash(keys[m]) \in Nat
  PROVE  /\ IsTable(Place(t, keys[n + 1], n + 1), keys, n + 1)
         /\ Place(t, keys[n + 1], n + 1).cap = t.cap
<1> DEFINE key == keys[n + 1]
           u == Place(t, key, n + 1)
           x == Slot(t, key, {})
<1>1. /\ t = [cap |-> t.cap, slots |-> t.slots] /\ t.cap \in Nat \ {0}
      /\ t.slots \in [0 .. t.cap - 1 -> 0 .. n]
      /\ \A m \in 1 .. n : Placed(t, keys[m], m)
      /\ Cardinality(Used(t)) <= n
  BY DEF IsTable
<1>2. Stops(t, key, {}) # {}
  BY ProbesOfTablesStop
<1>3. PICK k \in 0 .. t.cap - 1 :
        /\ x = SlotAt(t, key, k) /\ t.slots[x] = Vacant
        /\ \A l \in 0 .. k - 1 : t.slots[SlotAt(t, key, l)] # Vacant
  <2>1. \E k \in 0 .. t.cap - 1 :
          /\ x = SlotAt(t, key, k)
          /\ t.slots[SlotAt(t, key, k)] \in {} \cup {Vacant}
          /\ \A l \in 0 .. k - 1 : t.slots[SlotAt(t, key, l)] \notin {} \cup {Vacant}
    BY <1>1, <1>2, ProbesStop
  <2> HIDE DEF x
  <2> QED
    BY <2>1
<1>4. x \in 0 .. t.cap - 1
  BY <1>1, <1>3, SlotsAreSlots
<1>5. /\ u = [cap |-> u.cap, slots |-> u.slots] /\ u.cap = t.cap
      /\ u.slots = [t.slots EXCEPT ![x] = n + 1]
  <2>1. u = [t EXCEPT !.slots[x] = n + 1]
    BY DEF Place
  <2> HIDE DEF u, x
  <2> QED
    BY <1>1, <2>1
<1> HIDE DEF u, x, key
<1>6. /\ u.slots[x] = n + 1
      /\ \A s \in 0 .. t.cap - 1 : s # x => u.slots[s] = t.slots[s]
  BY <1>1, <1>4, <1>5
<1>7. u.slots \in [0 .. u.cap - 1 -> 0 .. n + 1]
  <2>1. 0 .. n \subseteq 0 .. n + 1 /\ n + 1 \in 0 .. n + 1
    OBVIOUS
  <2> QED
    BY <1>1, <1>4, <1>5, <2>1
<1>8. \A s \in 0 .. t.cap - 1 : t.slots[s] # Vacant => u.slots[s] = t.slots[s]
  BY <1>3, <1>6
<1>9. \A y, l : SlotAt(u, y, l) = SlotAt(t, y, l)
  BY <1>5 DEF SlotAt
<1>10. ASSUME NEW m \in 1 .. n
       PROVE  Placed(u, keys[m], m)
  <2>1. PICK h \in 0 .. t.cap - 1 :
          /\ t.slots[SlotAt(t, keys[m], h)] = m
          /\ \A l \in 0 .. h - 1 : t.slots[SlotAt(t, keys[m], l)] # Vacant
    BY <1>1 DEF Placed
  <2>2. \A l \in 0 .. h : SlotAt(t, keys[m], l) \in 0 .. t.cap - 1
    <3>1. \A l \in 0 .. h : l \in 0 .. t.cap - 1
      BY <1>1
    <3> QED
      BY <1>1, <3>1, SlotsAreSlots
  <2>3. m # Vacant /\ h \in 0 .. h /\ \A l \in 0 .. h - 1 : l \in 0 .. h
    BY DEF Vacant
  <2>4. u.slots[SlotAt(t, keys[m], h)] = m
    BY <1>8, <2>1, <2>2, <2>3
  <2>5. \A l \in 0 .. h - 1 : u.slots[SlotAt(t, keys[m], l)] # Vacant
    BY <1>8, <2>1, <2>2, <2>3
  <2> QED
    BY <1>5, <1>9, <2>4, <2>5 DEF Placed
<1>11. Placed(u, key, n + 1)
  <2>1. \A l \in 0 .. k - 1 : SlotAt(t, key, l) \in 0 .. t.cap - 1
    <3>1. \A l \in 0 .. k - 1 : l \in 0 .. t.cap - 1
      BY <1>1
    <3> QED
      BY <1>1, <3>1, SlotsAreSlots DEF key
  <2>2. \A l \in 0 .. k - 1 : u.slots[SlotAt(t, key, l)] # Vacant
    BY <1>3, <1>8, <2>1
  <2> QED
    BY <1>3, <1>5, <1>6, <1>9, <2>2 DEF Placed
<1>12. \A m \in 1 .. n + 1 : Placed(u, keys[m], m)
  <2>1. \A m \in 1 .. n + 1 : m \in 1 .. n \/ m = n + 1
    OBVIOUS
  <2> QED
    BY <1>10, <1>11, <2>1 DEF key
<1>13. Cardinality(Used(u)) <= n + 1
  <2>1. Used(u) = Used(t) \cup {x}
    <3>1. n + 1 # Vacant
      BY DEF Vacant
    <3> QED
      BY <1>3, <1>4, <1>5, <1>6, <3>1 DEF Used
  <2>2. IsFiniteSet(Used(t)) /\ Cardinality(Used(t)) \in Nat
    BY <1>1, CountingSlots
  <2>3. Cardinality(Used(u)) = IF x \in Used(t) THEN Cardinality(Used(t))
                               ELSE Cardinality(Used(t)) + 1
    BY <2>1, <2>2, FS_AddElement
  <2> QED
    BY <1>1, <2>2, <2>3
<1> QED
  BY <1>1, <1>5, <1>7, <1>12, <1>13 DEF IsTable, u, key

(* An item is found by its key, if the key is no other's. *)
LEMMA LookupFinds ==
  ASSUME NEW t, NEW keys, NEW n \in Nat, IsTable(t, keys, n), NEW m \in 1 .. n,
         Hash(keys[m]) \in Nat, NEW wanted, m \in wanted, \A w \in wanted : w = m
  PROVE  Lookup(t, keys[m], wanted) = m
<1>1. /\ t.cap \in Nat \ {0} /\ t.slots \in [0 .. t.cap - 1 -> 0 .. n]
      /\ Placed(t, keys[m], m)
  BY DEF IsTable
<1>2. PICK h \in 0 .. t.cap - 1 :
        /\ t.slots[SlotAt(t, keys[m], h)] = m
        /\ \A l \in 0 .. h - 1 : t.slots[SlotAt(t, keys[m], l)] # Vacant
  BY <1>1 DEF Placed
<1>3. Stops(t, keys[m], wanted) # {}
  BY <1>2 DEF Stops
<1>4. PICK k \in 0 .. t.cap - 1 :
        /\ Slot(t, keys[m], wanted) = SlotAt(t, keys[m], k)
        /\ t.slots[SlotAt(t, keys[m], k)] \in wanted \cup {Vacant}
        /\ \A l \in 0 .. k - 1 : t.slots[SlotAt(t, keys[m], l)] \notin wanted \cup {Vacant}
  BY <1>1, <1>3, ProbesStop
<1>5. ~(h < k)
  <2>1. h < k => h \in 0 .. k - 1
    OBVIOUS
  <2> QED
    BY <1>2, <1>4, <2>1
<1>6. t.slots[SlotAt(t, keys[m], k)] # Vacant
  <2>1. k = h \/ k \in 0 .. h - 1
    BY <1>5
  <2>2. m # Vacant
    BY DEF Vacant
  <2> QED
    BY <1>2, <2>1, <2>2
<1>7. t.slots[SlotAt(t, keys[m], k)] = m
  BY <1>4, <1>6
<1> QED
  BY <1>1, <1>4, <1>7 DEF Lookup

(* What is found is wanted. *)
LEMMA LookupAnswers ==
  ASSUME NEW t, NEW keys, NEW n \in Nat, IsTable(t, keys, n), n < t.cap,
         NEW key, Hash(key) \in Nat, NEW wanted
  PROVE  Lookup(t, key, wanted) \in wanted \cup {Vacant}
<1>1. t.cap \in Nat \ {0}
  BY DEF IsTable
<1>2. Stops(t, key, wanted) # {}
  BY ProbesOfTablesStop
<1>3. t.slots[Slot(t, key, wanted)] \in wanted \cup {Vacant}
  BY <1>1, <1>2, ProbesStop
<1> QED
  BY <1>1, <1>3 DEF Lookup

(* The tables that the loops of a rehash go through, up to the n-th item. *)
Entering(f, keys, cap, n) ==
  f = [m \in 0 .. n |-> IF m = 0 THEN Blank(cap) ELSE Place(f[m - 1], keys[m], m)]

LEMMA EnteringIsPossible ==
  ASSUME NEW keys, NEW cap, NEW n \in Nat
  PROVE  \E f : Entering(f, keys, cap, n)
<1> DEFINE S == {m \in Nat : \E f : Entering(f, keys, cap, m)}
<1>1. 0 \in S
  <2> DEFINE f == [m \in 0 .. 0 |-> Blank(cap)]
  <2>1. f = [m \in 0 .. 0 |-> IF m = 0 THEN Blank(cap) ELSE Place(f[m - 1], keys[m], m)]
    OBVIOUS
  <2> HIDE DEF f
  <2> QED
    BY <2>1 DEF Entering
<1>2. ASSUME NEW m \in Nat, m \in S PROVE m + 1 \in S
  <2>1. PICK f : Entering(f, keys, cap, m)
    BY <1>2
  <2> DEFINE Enter(g, l) == IF l = 0 THEN Blank(cap) ELSE Place(g[l - 1], keys[l], l)
             g == [l \in 0 .. m + 1 |-> IF l = m + 1 THEN Enter(f, m + 1) ELSE f[l]]
  <2>2. f = [l \in 0 .. m |-> Enter(f, l)]
    BY <2>1 DEF Entering
  <2> HIDE DEF Enter
  <2>3. ASSUME NEW l \in 0 .. m + 1 PROVE g[l] = Enter(g, l)
    <3>1. l # 0 => l - 1 \in 0 .. m + 1 /\ l - 1 # m + 1
      OBVIOUS
    <3>2. l # 0 => g[l - 1] = f[l - 1]
      BY <3>1
    <3>3. Enter(g, l) = Enter(f, l)
      BY <3>2 DEF Enter
    <3>4. l # m + 1 => l \in 0 .. m
      OBVIOUS
    <3>5. l # m + 1 => f[l] = Enter(f, l)
      BY <2>2, <3>4
    <3> QED
      BY <3>3, <3>5
  <2>4. g = [l \in 0 .. m + 1 |-> Enter(g, l)]
    BY <2>3
  <2>5. Entering(g, keys, cap, m + 1)
    BY <2>4 DEF Entering, Enter
  <2> HIDE DEF g
  <2> QED
    BY <2>5
<1> HIDE DEF S
<1>3. Nat \subseteq S
  BY <1>1, <1>2, EveryNatural
<1> QED
  BY <1>3 DEF S

LEMMA RehashedIsEntered ==
  ASSUME NEW keys, NEW cap, Len(keys) \in Nat
  PROVE  \E f : /\ Rehashed(keys, cap) = f[Len(keys)]
                /\ f[0] = Blank(cap)
                /\ \A m \in 0 .. Len(keys) - 1 : f[m + 1] = Place(f[m], keys[m + 1], m + 1)
<1> DEFINE f == CHOOSE g : Entering(g, keys, cap, Len(keys))
<1>1. Rehashed(keys, cap) = f[Len(keys)]
  BY DEF Rehashed, Entering, Counted
<1>2. Entering(f, keys, cap, Len(keys))
  BY EnteringIsPossible
<1> HIDE DEF f
<1>3. \A m \in 0 .. Len(keys) :
        f[m] = IF m = 0 THEN Blank(cap) ELSE Place(f[m - 1], keys[m], m)
  BY <1>2 DEF Entering
<1>4. f[0] = Blank(cap)
  BY <1>3
<1>5. ASSUME NEW m \in 0 .. Len(keys) - 1
      PROVE  f[m + 1] = Place(f[m], keys[m + 1], m + 1)
  <2>1. m + 1 \in 0 .. Len(keys) /\ m + 1 # 0 /\ (m + 1) - 1 = m
    OBVIOUS
  <2> QED
    BY <1>3, <2>1
<1> QED
  BY <1>1, <1>4, <1>5

(* A table that has room for all items has them all after a rehash. *)
LEMMA RehashMakesATable ==
  ASSUME NEW keys, NEW cap \in Nat \ {0}, Len(keys) \in Nat, Len(keys) <= cap,
         \A m \in 1 .. Len(keys) : Hash(keys[m]) \in Nat
  PROVE  /\ IsTable(Rehashed(keys, cap), keys, Len(keys))
         /\ Rehashed(keys, cap).cap = cap
<1>1. PICK f : /\ Rehashed(keys, cap) = f[Len(keys)]
               /\ f[0] = Blank(cap)
               /\ \A m \in 0 .. Len(keys) - 1 : f[m + 1] = Place(f[m], keys[m + 1], m + 1)
  BY RehashedIsEntered, ZenonT(60)
<1> DEFINE S == {n \in Nat : n <= Len(keys) => IsTable(f[n], keys, n) /\ f[n].cap = cap}
<1>2. 0 \in S
  <2>1. f[0] = [cap |-> cap, slots |-> [s \in 0 .. cap - 1 |-> Vacant]]
    BY <1>1 DEF Blank
  <2>2. Used(f[0]) = {}
    BY <2>1 DEF Used
  <2>3. IsTable(f[0], keys, 0)
    <3>1. Cardinality(Used(f[0])) <= 0
      BY <2>2, FS_EmptySet
    <3>2. /\ f[0] = [cap |-> f[0].cap, slots |-> f[0].slots] /\ f[0].cap = cap
          /\ f[0].slots = [s \in 0 .. cap - 1 |-> 0]
      BY <2>1 DEF Vacant
    <3>3. f[0].slots \in [0 .. cap - 1 -> 0 .. 0]
      BY <3>2
    <3> QED
      BY <3>1, <3>2, <3>3 DEF IsTable
  <2> QED
    BY <2>1, <2>3
<1>3. ASSUME NEW n \in Nat, n \in S PROVE n + 1 \in S
  <2>1. SUFFICES ASSUME n + 1 <= Len(keys)
                 PROVE  IsTable(f[n + 1], keys, n + 1) /\ f[n + 1].cap = cap
    OBVIOUS
  <2>2. /\ IsTable(f[n], keys, n) /\ f[n].cap = cap /\ n < cap
        /\ n \in 0 .. Len(keys) - 1
        /\ n + 1 \in 1 .. Len(keys) /\ \A m \in 1 .. n : m \in 1 .. Len(keys)
    BY <1>3, <2>1
  <2>3. f[n + 1] = Place(f[n], keys[n + 1], n + 1)
    BY <1>1, <2>2
  <2> QED
    BY <2>2, <2>3, PlacingKeepsTables
<1> HIDE DEF S
<1>4. Nat \subseteq S
  BY <1>2, <1>3, EveryNatural
<1>5. Len(keys) \in S
  BY <1>4
<1> QED
  BY <1>1, <1>5 DEF S

(* The capacities that the loop of a growing index goes through. *)
Doubling(f, start, n) == f = [m \in 0 .. n |-> IF m = 0 THEN start ELSE 2 * f[m - 1]]

LEMMA DoublingIsPossible ==
  ASSUME NEW start, NEW n \in Nat
  PROVE  \E f : Doubling(f, start, n)
<1> DEFINE S == {m \in Nat : \E f : Doubling(f, start, m)}
<1>1. 0 \in S
  <2> DEFINE f == [m \in 0 .. 0 |-> start]
  <2>1. f = [m \in 0 .. 0 |-> IF m = 0 THEN start ELSE 2 * f[m - 1]]
    OBVIOUS
  <2> HIDE DEF f
  <2> QED
    BY <2>1 DEF Doubling
<1>2. ASSUME NEW m \in Nat, m \in S PROVE m + 1 \in S
  <2>1. PICK f : Doubling(f, start, m)
    BY <1>2
  <2> DEFINE Double(g, l) == IF l = 0 THEN start ELSE 2 * g[l - 1]
             g == [l \in 0 .. m + 1 |-> IF l = m + 1 THEN Double(f, m + 1) ELSE f[l]]
  <2>2. f = [l \in 0 .. m |-> Double(f, l)]
    BY <2>1 DEF Doubling
  <2> HIDE DEF Double
  <2>3. ASSUME NEW l \in 0 .. m + 1 PROVE g[l] = Double(g, l)
    <3>1. l # 0 => l - 1 \in 0 .. m + 1 /\ l - 1 # m + 1
      OBVIOUS
    <3>2. l # 0 => g[l - 1] = f[l - 1]
      BY <3>1
    <3>3. Double(g, l) = Double(f, l)
      BY <3>2 DEF Double
    <3>4. l # m + 1 => l \in 0 .. m
      OBVIOUS
    <3>5. l # m + 1 => f[l] = Double(f, l)
      BY <2>2, <3>4
    <3> QED
      BY <3>3, <3>5
  <2>4. g = [l \in 0 .. m + 1 |-> Double(g, l)]
    BY <2>3
  <2>5. Doubling(g, start, m + 1)
    BY <2>4 DEF Doubling, Double
  <2> HIDE DEF g
  <2> QED
    BY <2>5
<1> HIDE DEF S
<1>3. Nat \subseteq S
  BY <1>1, <1>2, EveryNatural
<1> QED
  BY <1>3 DEF S

(* An index is not there yet, or it holds all items in half of its slots. *)
IsIndex(t, keys) ==
  \/ t = NoTable /\ Len(keys) = 0
  \/ IsTable(t, keys, Len(keys)) /\ 0 < Len(keys) /\ Len(keys) <= t.cap \div 2

LEMMA GrowingMakesAnIndex ==
  ASSUME NEW t, NEW keys, Len(keys) \in Nat \ {0}, t.cap \in Nat,
         t.cap = 0 => Len(keys) = 1,
         t.cap # 0 => Len(keys) <= t.cap,
         \A m \in 1 .. Len(keys) : Hash(keys[m]) \in Nat
  PROVE  Grown(t, keys) = Refused \/ IsIndex(Grown(t, keys), keys)
<1> DEFINE start == IF t.cap = 0 THEN InitialCap ELSE 2 * t.cap
           doubled == CHOOSE f : Doubling(f, start, Len(keys))
           enough == {n \in 0 .. Len(keys) : doubled[n] \div 2 >= Len(keys)}
           n == CHOOSE x \in enough : \A m \in enough : x <= m
           cap == doubled[n]
<1>1. Grown(t, keys) = IF cap > 2 * MaxCap THEN Refused ELSE Rehashed(keys, cap)
  BY DEF Grown, Doubling
<1>2. Doubling(doubled, start, Len(keys))
  BY DoublingIsPossible
<1>3. start \in Nat \ {0}
  BY PathauditAssumption
<1> HIDE DEF doubled, start
<1>4. doubled[0] = start /\ doubled[1] = 2 * start
  <2>1. \A m \in 0 .. Len(keys) : doubled[m] = IF m = 0 THEN start ELSE 2 * doubled[m - 1]
    BY <1>2 DEF Doubling
  <2>2. 0 \in 0 .. Len(keys) /\ 1 \in 0 .. Len(keys) /\ 1 - 1 = 0
    OBVIOUS
  <2> QED
    BY <2>1, <2>2
<1>5. 0 \in enough \/ 1 \in enough
  <2>1. CASE t.cap = 0
    <3>1. \A x \in Nat : (2 * x) \div 2 = x
      OBVIOUS
    <3>2. (2 * start) \div 2 >= Len(keys)
      <4>1. Len(keys) = 1
        BY <2>1
      <4>2. (2 * start) \div 2 = start /\ start >= 1
        BY <1>3, <3>1
      <4> QED
        BY <4>1, <4>2
    <3> QED
      BY <1>4, <3>2
  <2>2. CASE t.cap # 0
    <3>1. start \div 2 >= Len(keys)
      BY <2>2 DEF start
    <3> QED
      BY <1>4, <3>1
  <2> QED
    BY <2>1, <2>2
<1>6. enough \subseteq Nat
  OBVIOUS
<1> HIDE DEF enough
<1>7. n \in enough /\ \A m \in enough : n <= m
  <2>1. \E x \in enough : \A m \in enough : x <= m
    BY <1>5, <1>6, LeastNatural
  <2> QED
    BY <2>1
<1> HIDE DEF n
<1>8. n \in {0, 1}
  BY <1>5, <1>6, <1>7
<1>9. cap \in Nat \ {0} /\ Len(keys) <= cap \div 2
  <2>1. cap \in Nat \ {0}
    BY <1>3, <1>4, <1>8
  <2>2. cap \div 2 >= Len(keys)
    BY <1>7 DEF enough
  <2> QED
    BY <2>1, <2>2
<1> HIDE DEF cap
<1>10. Len(keys) <= cap
  BY <1>9
<1>11. IsTable(Rehashed(keys, cap), keys, Len(keys)) /\ Rehashed(keys, cap).cap = cap
  BY <1>9, <1>10, RehashMakesATable
<1> QED
  BY <1>1, <1>9, <1>11 DEF IsIndex

(* An index takes one more item, grows first, or is refused. *)
LEMMA InsertingKeepsTheIndex ==
  ASSUME NEW t, NEW keys, NEW longer, IsIndex(t, keys), Len(keys) \in Nat,
         Len(longer) = Len(keys) + 1,
         \A m \in 1 .. Len(keys) : longer[m] = keys[m],
         \A m \in 1 .. Len(longer) : Hash(longer[m]) \in Nat
  PROVE  InsertTail(t, longer) = Refused \/ IsIndex(InsertTail(t, longer), longer)
<1>1. Len(longer) \in Nat \ {0}
  OBVIOUS
<1>2. CASE t = NoTable /\ Len(keys) = 0
  <2>1. t.cap = 0
    BY <1>2 DEF NoTable
  <2> QED
    BY <1>1, <1>2, <2>1, GrowingMakesAnIndex, SMTT(30) DEF InsertTail
<1>3. CASE IsTable(t, keys, Len(keys)) /\ 0 < Len(keys) /\ Len(keys) <= t.cap \div 2
  <2>1. t.cap \in Nat \ {0} /\ Len(longer) <= t.cap
    BY <1>3 DEF IsTable
  <2>2. CASE Len(longer) > t.cap \div 2
    BY <1>1, <2>1, <2>2, GrowingMakesAnIndex DEF InsertTail
  <2>3. CASE ~(Len(longer) > t.cap \div 2)
    <3>1. IsTable(t, longer, Len(keys))
      BY <1>3 DEF IsTable
    <3>2. /\ Len(keys) < t.cap
          /\ Len(keys) + 1 \in 1 .. Len(longer)
          /\ \A m \in 1 .. Len(keys) : m \in 1 .. Len(longer)
      BY <2>1
    <3>3. InsertTail(t, longer) = Place(t, longer[Len(keys) + 1], Len(keys) + 1)
      BY <2>1, <2>3 DEF InsertTail
    <3>4. /\ IsTable(InsertTail(t, longer), longer, Len(keys) + 1)
          /\ InsertTail(t, longer).cap = t.cap
      BY <3>1, <3>2, <3>3, PlacingKeepsTables
    <3>5. Len(longer) <= t.cap \div 2
      BY <2>1, <2>3
    <3> QED
      BY <1>1, <3>4, <3>5 DEF IsIndex
  <2> QED
    BY <2>2, <2>3
<1> QED
  BY <1>2, <1>3 DEF IsIndex

-----------------------------------------------------------------------------
(* The two indices of a scan. *)

Realpaths == {<<p>> : p \in Paths}

IsSequence(s) == \E S : s \in Seq(S)

ExeInv == \A x \in DOMAIN exe : exe[x] \in {NoMatch, Uninspected} \cup Realpaths

(* One winner for a command. *)
WinnersInv ==
  /\ IsSequence(winners)
  /\ \A n \in DOMAIN winners : winners[n].command \in Commands /\ winners[n].path \in Realpaths
  /\ \A m, n \in DOMAIN winners : winners[m].command = winners[n].command => m = n
  /\ windex # Refused => IsIndex(windex, WinnerKeys(winners))

(* A realpath is the shadow of a command's winner at most once. *)
ShadowsInv ==
  /\ IsSequence(shadows)
  /\ \A n \in DOMAIN shadows :
       /\ shadows[n].command \in Commands /\ shadows[n].shadow \in Realpaths
       /\ \E w \in DOMAIN winners : /\ winners[w].command = shadows[n].command
                                    /\ winners[w].path = shadows[n].winner
  /\ \A m, n \in DOMAIN shadows :
       shadows[m].command = shadows[n].command /\ shadows[m].shadow = shadows[n].shadow => m = n
  /\ shindex # Refused => IsIndex(shindex, ShadowKeys(shadows))

TablesInv ==
  /\ ExeInv /\ WinnersInv
  /\ ShadowsInv \/ (pc \in {"emit", "done"} /\ shindex = NoTable)
  /\ Refused \in {windex, shindex} => pc = "done"

LEMMA LengthOfKeys ==
  ASSUME NEW s, IsSequence(s)
  PROVE  /\ Len(s) \in Nat /\ DOMAIN s = 1 .. Len(s)
         /\ Len(WinnerKeys(s)) = Len(s) /\ DOMAIN WinnerKeys(s) = 1 .. Len(s)
         /\ Len(ShadowKeys(s)) = Len(s) /\ DOMAIN ShadowKeys(s) = 1 .. Len(s)
BY DEF IsSequence, WinnerKeys, ShadowKeys

LEMMA AppendingToASequence ==
  ASSUME NEW s, IsSequence(s), NEW x
  PROVE  /\ IsSequence(Append(s, x)) /\ Len(Append(s, x)) = Len(s) + 1
         /\ Append(s, x)[Len(s) + 1] = x
         /\ \A n \in 1 .. Len(s) : Append(s, x)[n] = s[n]
<1>1. PICK S : s \in Seq(S)
  BY DEF IsSequence
<1>2. s \in Seq(S \cup {x}) /\ x \in S \cup {x}
  BY <1>1
<1>3. Append(s, x) \in Seq(S \cup {x})
  BY <1>2
<1> QED
  BY <1>1, <1>3 DEF IsSequence

LEMMA KeysHaveHashes ==
  ASSUME NEW c \in Commands
  PROVE  Hash(<<c>>) \in Nat /\ \A e \in Realpaths : Hash(<<c, e[1]>>) \in Nat
<1>1. ASSUME NEW e \in Realpaths PROVE Hash(<<c, e[1]>>) \in Nat
  <2>1. PICK p \in Paths : e = <<p>>
    BY DEF Realpaths
  <2>2. e[1] = p
    BY <2>1
  <2> QED
    BY <2>2, PathauditAssumption
<1> QED
  BY <1>1, PathauditAssumption

(* The winner of a command is found exactly if there is one. *)
LEMMA WinnersAreFound ==
  ASSUME WinnersInv, windex # Refused, NEW c \in Commands
  PROVE  /\ WinnerOf(c) # Vacant => /\ WinnerOf(c) \in DOMAIN winners
                                    /\ winners[WinnerOf(c)].command = c
         /\ WinnerOf(c) = Vacant => \A n \in DOMAIN winners : winners[n].command # c
<1> DEFINE keys == WinnerKeys(winners)
           wanted == {n \in DOMAIN winners : winners[n].command = c}
<1>1. /\ IsIndex(windex, keys) /\ Hash(<<c>>) \in Nat
      /\ Len(winners) \in Nat /\ DOMAIN winners = 1 .. Len(winners)
      /\ Len(keys) = Len(winners)
      /\ \A n \in DOMAIN winners : keys[n] = <<winners[n].command>>
      /\ \A m, n \in DOMAIN winners : winners[m].command = winners[n].command => m = n
  BY LengthOfKeys, KeysHaveHashes DEF WinnersInv, WinnerKeys
<1>2. WinnerOf(c) = Lookup(windex, <<c>>, wanted)
  BY DEF WinnerOf
<1> HIDE DEF keys
<1>3. CASE windex = NoTable /\ Len(keys) = 0
  BY <1>1, <1>2, <1>3 DEF NoTable, Lookup
<1>4. CASE IsTable(windex, keys, Len(keys)) /\ 0 < Len(keys) /\ Len(keys) <= windex.cap \div 2
  <2>1. Len(keys) < windex.cap /\ Len(keys) \in Nat
    BY <1>1, <1>4 DEF IsTable
  <2>2. WinnerOf(c) \in wanted \cup {Vacant}
    BY <1>1, <1>2, <1>4, <2>1, LookupAnswers
  <2>3. ASSUME NEW n \in DOMAIN winners, winners[n].command = c PROVE WinnerOf(c) = n
    <3>1. keys[n] = <<c>> /\ n \in wanted /\ \A w \in wanted : w = n
      BY <1>1, <2>3
    <3>2. n \in 1 .. Len(keys) /\ Hash(keys[n]) \in Nat
      BY <1>1, <3>1
    <3>3. Lookup(windex, keys[n], wanted) = n
      <4> HIDE DEF wanted
      <4> QED
        BY <1>4, <2>1, <3>1, <3>2, LookupFinds
    <3> QED
      BY <1>2, <3>1, <3>3
  <2>4. \A n \in DOMAIN winners : n # Vacant
    BY <1>1 DEF Vacant
  <2> QED
    BY <2>2, <2>3, <2>4
<1> QED
  BY <1>1, <1>3, <1>4 DEF IsIndex

(* A shadow that is there is known to be. *)
LEMMA ShadowsAreFound ==
  ASSUME WinnersInv, ShadowsInv, shindex # Refused, NEW c \in Commands, NEW e \in Realpaths,
         NEW w \in DOMAIN winners, winners[w].command = c, ~Recorded(c, winners[w].path, e)
  PROVE  \A n \in DOMAIN shadows : ~(shadows[n].command = c /\ shadows[n].shadow = e)
<1> DEFINE keys == ShadowKeys(shadows)
           same == {n \in DOMAIN shadows : /\ shadows[n].command = c
                                           /\ shadows[n].winner = winners[w].path
                                           /\ shadows[n].shadow = e}
<1>1. /\ IsIndex(shindex, keys) /\ Hash(<<c, e[1]>>) \in Nat
      /\ Len(shadows) \in Nat /\ DOMAIN shadows = 1 .. Len(shadows)
      /\ Len(keys) = Len(shadows)
      /\ \A n \in DOMAIN shadows : keys[n] = <<shadows[n].command, shadows[n].shadow[1]>>
  BY LengthOfKeys, KeysHaveHashes DEF ShadowsInv, ShadowKeys
<1>2. Lookup(shindex, <<c, e[1]>>, same) = Vacant
  BY DEF Recorded
<1>3. SUFFICES ASSUME NEW n \in DOMAIN shadows, shadows[n].command = c, shadows[n].shadow = e
               PROVE  FALSE
  OBVIOUS
<1>4. shadows[n].winner = winners[w].path
  BY <1>3 DEF ShadowsInv, WinnersInv
<1>5. n \in same /\ \A m \in same : m = n
  BY <1>3, <1>4 DEF ShadowsInv
<1>6. keys[n] = <<c, e[1]>> /\ n \in 1 .. Len(keys)
  BY <1>1, <1>3
<1>7. IsTable(shindex, keys, Len(keys))
  <2>1. Len(keys) # 0
    BY <1>1, <1>6
  <2> QED
    BY <1>1, <2>1 DEF IsIndex
<1> HIDE DEF keys, same
<1>8. Lookup(shindex, keys[n], same) = n
  BY <1>1, <1>5, <1>6, <1>7, LookupFinds
<1> QED
  BY <1>1, <1>2, <1>3, <1>6, <1>8 DEF Vacant

LEMMA NewWinnerKeepsTables ==
  ASSUME WinnersInv, ShadowsInv, windex # Refused, NEW c \in Commands, NEW e \in Realpaths,
         WinnerOf(c) = Vacant, NewWinner(c, e)
  PROVE  WinnersInv' /\ ShadowsInv'
<1> DEFINE n == Len(winners)
           new == [command |-> c, path |-> e]
           keys == WinnerKeys(winners)
           longer == WinnerKeys(Append(winners, new))
<1>1. /\ winners' = Append(winners, new) /\ UNCHANGED <<shadows, shindex>>
      /\ windex' = InsertTail(windex, WinnerKeys(winners'))
  BY DEF NewWinner
<1>2. /\ IsSequence(winners') /\ Len(winners') = n + 1 /\ winners'[n + 1] = new
      /\ \A m \in 1 .. n : winners'[m] = winners[m]
      /\ n \in Nat /\ DOMAIN winners = 1 .. n /\ DOMAIN winners' = 1 .. n + 1
  BY <1>1, AppendingToASequence, LengthOfKeys DEF WinnersInv
<1>3. \A m \in 1 .. n : winners[m].command # c
  BY <1>2, WinnersAreFound
<1>4. \A m \in 1 .. n + 1 : m \in 1 .. n \/ m = n + 1
  BY <1>2
<1>5. \A m \in DOMAIN winners' :
        winners'[m].command \in Commands /\ winners'[m].path \in Realpaths
  BY <1>2, <1>4 DEF WinnersInv
<1>6. \A l, m \in DOMAIN winners' : winners'[l].command = winners'[m].command => l = m
  BY <1>2, <1>3, <1>4 DEF WinnersInv
<1>7. windex' # Refused => IsIndex(windex', WinnerKeys(winners'))
  <2>1. /\ IsIndex(windex, keys) /\ Len(keys) = n
        /\ Len(WinnerKeys(winners')) = Len(keys) + 1
    BY <1>2, LengthOfKeys DEF WinnersInv
  <2>2. \A m \in 1 .. n : keys[m] = <<winners[m].command>>
    BY <1>2 DEF WinnerKeys
  <2>3. \A m \in 1 .. n + 1 : WinnerKeys(winners')[m] = <<winners'[m].command>>
    BY <1>2 DEF WinnerKeys
  <2>4. \A m \in 1 .. Len(keys) : WinnerKeys(winners')[m] = keys[m]
    BY <1>2, <1>4, <2>1, <2>2, <2>3
  <2>5. \A m \in 1 .. n + 1 : Hash(WinnerKeys(winners')[m]) \in Nat
    BY <1>2, <1>5, <2>3, KeysHaveHashes
  <2> HIDE DEF keys
  <2> QED
    BY <1>1, <1>2, <2>1, <2>4, <2>5, InsertingKeepsTheIndex
<1>8. WinnersInv'
  BY <1>2, <1>5, <1>6, <1>7 DEF WinnersInv
<1>9. ShadowsInv'
  <2>1. \A w \in DOMAIN winners : w \in DOMAIN winners' /\ winners'[w] = winners[w]
    BY <1>2
  <2> QED
    BY <1>1, <2>1 DEF ShadowsInv
<1> QED
  BY <1>8, <1>9

LEMMA NewShadowKeepsTables ==
  ASSUME WinnersInv, ShadowsInv, shindex # Refused, NEW c \in Commands, NEW e \in Realpaths,
         NEW w \in DOMAIN winners, winners[w].command = c, NEW index,
         ~Recorded(c, winners[w].path, e), NewShadow(c, winners[w].path, e, index)
  PROVE  WinnersInv' /\ ShadowsInv'
<1> DEFINE n == Len(shadows)
           new == [command |-> c, winner |-> winners[w].path, shadow |-> e, index |-> index]
           keys == ShadowKeys(shadows)
<1>1. /\ shadows' = Append(shadows, new) /\ UNCHANGED <<winners, windex>>
      /\ shindex' = InsertTail(shindex, ShadowKeys(shadows'))
  BY DEF NewShadow
<1>2. /\ IsSequence(shadows') /\ Len(shadows') = n + 1 /\ shadows'[n + 1] = new
      /\ \A m \in 1 .. n : shadows'[m] = shadows[m]
      /\ n \in Nat /\ DOMAIN shadows = 1 .. n /\ DOMAIN shadows' = 1 .. n + 1
  BY <1>1, AppendingToASequence, LengthOfKeys DEF ShadowsInv
<1>3. \A m \in 1 .. n : ~(shadows[m].command = c /\ shadows[m].shadow = e)
  BY <1>2, ShadowsAreFound
<1>4. \A m \in 1 .. n + 1 : m \in 1 .. n \/ m = n + 1
  BY <1>2
<1>5. \A m \in DOMAIN shadows' :
        /\ shadows'[m].command \in Commands /\ shadows'[m].shadow \in Realpaths
        /\ \E v \in DOMAIN winners : /\ winners[v].command = shadows'[m].command
                                     /\ winners[v].path = shadows'[m].winner
  BY <1>2, <1>4 DEF ShadowsInv
<1>6. \A l, m \in DOMAIN shadows' :
        shadows'[l].command = shadows'[m].command /\ shadows'[l].shadow = shadows'[m].shadow
          => l = m
  BY <1>2, <1>3, <1>4 DEF ShadowsInv
<1>7. shindex' # Refused => IsIndex(shindex', ShadowKeys(shadows'))
  <2>1. /\ IsIndex(shindex, keys) /\ Len(keys) = n
        /\ Len(ShadowKeys(shadows')) = Len(keys) + 1
    BY <1>2, LengthOfKeys DEF ShadowsInv
  <2>2. \A m \in 1 .. n : keys[m] = <<shadows[m].command, shadows[m].shadow[1]>>
    BY <1>2 DEF ShadowKeys
  <2>3. \A m \in 1 .. n + 1 :
          ShadowKeys(shadows')[m] = <<shadows'[m].command, shadows'[m].shadow[1]>>
    BY <1>2 DEF ShadowKeys
  <2>4. ASSUME NEW m \in 1 .. Len(keys) PROVE ShadowKeys(shadows')[m] = keys[m]
    <3>1. m \in 1 .. n /\ m \in 1 .. n + 1
      BY <1>2, <2>1
    <3>2. shadows'[m] = shadows[m]
      BY <1>2, <3>1
    <3> QED
      BY <2>2, <2>3, <3>1, <3>2
  <2>5. ASSUME NEW m \in 1 .. n + 1 PROVE Hash(ShadowKeys(shadows')[m]) \in Nat
    <3>1. shadows'[m].command \in Commands /\ shadows'[m].shadow \in Realpaths
      BY <1>2, <1>5
    <3> QED
      BY <2>3, <3>1, KeysHaveHashes
  <2> HIDE DEF keys
  <2> QED
    BY <1>1, <1>2, <2>1, <2>4, <2>5, InsertingKeepsTheIndex
<1>8. ShadowsInv'
  BY <1>1, <1>2, <1>5, <1>6, <1>7 DEF ShadowsInv
<1>9. WinnersInv'
  BY <1>1 DEF WinnersInv
<1> QED
  BY <1>8, <1>9

(* A candidate is a realpath, or there is nothing to be said of it. *)
LEMMA CandidatesAreKnown ==
  ASSUME ExeInv, NEW text, NEW o, NEW c, NEW e \in Candidate(text, o, c)
  PROVE  /\ e \in {NoMatch, Uninspected} \cup Realpaths
         /\ Tried(text, c, e) => ExeInv'
BY DEF ExeInv, Candidate, Tried, Realpaths

(* At most one shadow is sorted already. *)
LEMMA SortingOne ==
  ASSUME NEW s, IsSequence(s), ~(Len(s) > 1)
  PROVE  Sorted(s, ShadowBefore) = s
<1>1. Len(s) \in Nat /\ DOMAIN s = 1 .. Len(s)
  BY LengthOfKeys
<1>2. CASE Len(s) = 0
  BY <1>1, <1>2 DEF Sorted, IsSequence
<1>3. CASE Len(s) = 1
  <2> DEFINE place(k) ==
        Cardinality({m \in DOMAIN s : ShadowBefore(s[m], s[k])
                                      \/ (~ShadowBefore(s[k], s[m]) /\ m <= k)})
  <2>1. DOMAIN s = {1}
    BY <1>1, <1>3
  <2>2. place(1) = 1
    <3>1. {m \in DOMAIN s : ShadowBefore(s[m], s[1])
                            \/ (~ShadowBefore(s[1], s[m]) /\ m <= 1)} = {1}
      BY <2>1
    <3> QED
      BY <3>1, FS_Singleton
  <2> HIDE DEF place
  <2> DEFINE at(n) == CHOOSE k \in DOMAIN s : place(k) = n
  <2>3. at(1) = 1
    BY <2>1, <2>2
  <2>4. Sorted(s, ShadowBefore) = [n \in DOMAIN s |-> s[at(n)]]
    BY DEF Sorted, place
  <2> HIDE DEF at
  <2>5. [n \in DOMAIN s |-> s[at(n)]] = [n \in {1} |-> s[1]]
    BY <2>1, <2>3
  <2>6. s = [n \in {1} |-> s[1]]
    <3>1. s = [n \in DOMAIN s |-> s[n]]
      BY DEF IsSequence
    <3> QED
      BY <2>1, <3>1
  <2> QED
    BY <2>4, <2>5, <2>6
<1> QED
  BY <1>1, <1>2, <1>3

LEMMA TablesEntry ==
  ASSUME TablesInv, NEW c \in Commands, ScanEntry(c)
  PROVE  TablesInv'
<1> DEFINE root == roots[i]
<1>1. /\ pc = "entries" /\ ExeInv /\ WinnersInv /\ ShadowsInv
      /\ windex # Refused /\ shindex # Refused
  BY DEF ScanEntry, TablesInv
<1>2. PICK e \in Candidate(root.text, fs[root.text], c) :
        /\ Tried(root.text, c, e)
        /\ \/ Unsafe(e) /\ Fail("INSPECTION_ERROR")
           \/ /\ ~Unsafe(e)
              /\ IF Match(e) THEN RecordHit(c, e, root.index) ELSE UNCHANGED tables
              /\ IF Refused \in {windex', shindex'} THEN pc' = "done" ELSE UNCHANGED pc
  BY DEF ScanEntry
<1>3. ExeInv'
  BY <1>1, <1>2, CandidatesAreKnown
<1>4. ASSUME UNCHANGED tables
      PROVE  WinnersInv' /\ ShadowsInv' /\ UNCHANGED <<windex, shindex>>
  BY <1>1, <1>4 DEF tables, WinnersInv, ShadowsInv
<1>5. CASE Fail("INSPECTION_ERROR")
  BY <1>1, <1>3, <1>4, <1>5 DEF TablesInv, Fail
<1>6. CASE /\ IF Match(e) THEN RecordHit(c, e, root.index) ELSE UNCHANGED tables
           /\ IF Refused \in {windex', shindex'} THEN pc' = "done" ELSE UNCHANGED pc
  <2>1. CASE UNCHANGED tables
    BY <1>3, <1>4, <1>6, <2>1 DEF TablesInv
  <2>2. CASE Match(e) /\ RecordHit(c, e, root.index)
    <3> DEFINE w == WinnerOf(c)
    <3>1. e \in Realpaths
      BY <1>1, <2>2, CandidatesAreKnown DEF Match
    <3>2. CASE w = Vacant /\ NewWinner(c, e)
      <4>1. WinnersInv' /\ ShadowsInv'
        BY <1>1, <3>1, <3>2, NewWinnerKeepsTables
      <4> QED
        BY <1>3, <1>6, <4>1 DEF TablesInv
    <3>3. CASE /\ w # Vacant /\ ~Recorded(c, winners[w].path, e)
               /\ NewShadow(c, winners[w].path, e, root.index)
      <4>1. w \in DOMAIN winners /\ winners[w].command = c
        BY <1>1, <3>3, WinnersAreFound
      <4> HIDE DEF w
      <4>2. WinnersInv' /\ ShadowsInv'
        BY <1>1, <3>1, <3>3, <4>1, NewShadowKeepsTables
      <4> QED
        BY <1>3, <1>6, <4>2 DEF TablesInv
    <3> QED
      BY <2>1, <2>2, <3>2, <3>3 DEF RecordHit
  <2> QED
    BY <1>6, <2>1, <2>2
<1> QED
  BY <1>2, <1>5, <1>6

LEMMA TablesInvAlways == Spec => []TablesInv
<1>1. Init => TablesInv
  <2>1. SUFFICES ASSUME Init PROVE TablesInv
    OBVIOUS
  <2>2. /\ winners = <<>> /\ shadows = <<>> /\ exe = <<>>
        /\ windex = NoTable /\ shindex = NoTable
    BY <2>1 DEF Init
  <2>3. IsSequence(<<>>)
    <3>1. <<>> \in Seq({})
      OBVIOUS
    <3> QED
      BY <3>1 DEF IsSequence
  <2>4. DOMAIN winners = {} /\ DOMAIN shadows = {} /\ DOMAIN exe = {}
    BY <2>2
  <2>5. Len(WinnerKeys(winners)) = 0 /\ Len(ShadowKeys(shadows)) = 0
    BY <2>2, <2>3, LengthOfKeys
  <2>6. Refused # NoTable
    BY DEF Refused, NoTable
  <2> QED
    BY <2>2, <2>3, <2>4, <2>5, <2>6 DEF TablesInv, ExeInv, WinnersInv, ShadowsInv, IsIndex
<1>2. TablesInv /\ [Next]_vars => TablesInv'
  <2>1. SUFFICES ASSUME TablesInv, [Next]_vars PROVE TablesInv'
    OBVIOUS
  <2>2. ASSUME UNCHANGED tables, ExeInv',
               pc \in {"emit", "done"} => pc' \in {"emit", "done"},
               pc = "done" => pc' = "done"
        PROVE  TablesInv'
    <3>1. UNCHANGED <<winners, windex, shadows, shindex>>
      BY <2>2 DEF tables
    <3>2. WinnersInv' <=> WinnersInv
      BY <3>1 DEF WinnersInv
    <3>3. ShadowsInv' <=> ShadowsInv
      BY <3>1 DEF ShadowsInv
    <3> QED
      BY <2>1, <2>2, <3>1, <3>2, <3>3 DEF TablesInv
  <2>3. UNCHANGED exe => ExeInv'
    BY <2>1 DEF TablesInv, ExeInv
  <2>4. CASE Load \/ Split \/ Join \/ SplitEnds
    BY <2>2, <2>3, <2>4 DEF Load, Split, Join, GiveUp, SplitEnds, OutOfMemory, Fail, disk
  <2>5. CASE Classify \/ ClassifyEnds \/ NoMemory \/ QueryEnds
    BY <2>2, <2>3, <2>5 DEF Classify, ClassifyEnds, NoMemory, QueryEnds, OutOfMemory, Fail,
       disk
  <2>6. CASE Query
    <3>1. pc = "query" /\ UNCHANGED tables
      BY <2>6 DEF Query, Fail
    <3>2. ExeInv'
      BY <2>1, <2>6, CandidatesAreKnown DEF Query, TablesInv
    <3> QED
      BY <2>2, <3>1, <3>2
  <2>7. CASE ScanOpen \/ ScanEnds \/ AllScanned \/ Emit
    BY <2>2, <2>3, <2>7 DEF ScanOpen, ScanEnds, AllScanned, Emit, Fail, disk
  <2>8. CASE Sort
    <3>1. /\ pc = "sort" /\ pc' = "emit" /\ UNCHANGED <<winners, windex, exe>>
          /\ shadows' = Sorted(shadows, ShadowBefore)
          /\ shindex' = (IF Len(shadows) > 1 THEN NoTable ELSE shindex)
      BY <2>8 DEF Sort, disk
    <3>2. ShadowsInv /\ WinnersInv /\ Refused \notin {windex, shindex}
      BY <2>1, <3>1 DEF TablesInv
    <3>3. WinnersInv'
      BY <3>1, <3>2 DEF WinnersInv
    <3>4. CASE Len(shadows) > 1
      <4>1. NoTable # Refused
        BY DEF Refused, NoTable
      <4> QED
        BY <2>3, <3>1, <3>2, <3>3, <3>4, <4>1 DEF TablesInv
    <3>5. CASE ~(Len(shadows) > 1)
      <4>1. shadows' = shadows /\ shindex' = shindex
        BY <3>1, <3>2, <3>5, SortingOne DEF ShadowsInv
      <4>2. ShadowsInv'
        BY <3>1, <3>2, <4>1 DEF ShadowsInv
      <4> QED
        BY <2>3, <3>1, <3>2, <3>3, <4>1, <4>2 DEF TablesInv
    <3> QED
      BY <3>4, <3>5
  <2>9. CASE Terminated \/ UNCHANGED vars
    BY <2>2, <2>3, <2>9 DEF Terminated, vars, disk
  <2> QED
    BY <2>1, <2>4, <2>5, <2>6, <2>7, <2>8, <2>9, TablesEntry DEF Next
<1> QED
  BY <1>1, <1>2, PTL DEF Spec

LEMMA IndexesFindAll ==
  ASSUME NEW t, NEW keys, IsIndex(t, keys), Len(keys) \in Nat, DOMAIN keys = 1 .. Len(keys),
         \A m \in 1 .. Len(keys) : Hash(keys[m]) \in Nat,
         \A l, m \in 1 .. Len(keys) : keys[l] = keys[m] => l = m, t.cap > 0
  PROVE  Faithful(t, keys)
<1>1. IsTable(t, keys, Len(keys)) /\ Len(keys) <= t.cap \div 2 /\ 0 < Len(keys)
  BY DEF IsIndex, NoTable
<1>2. t.cap \in Nat \ {0} /\ DOMAIN t.slots = 0 .. t.cap - 1
  BY <1>1 DEF IsTable
<1>3. Len(keys) < t.cap
  BY <1>1, <1>2
<1>4. \E s \in DOMAIN t.slots : t.slots[s] = Vacant
  BY <1>1, <1>2, <1>3, ThereIsAVacancy
<1>5. ASSUME NEW n \in DOMAIN keys
      PROVE  Lookup(t, keys[n], {m \in DOMAIN keys : keys[m] = keys[n]}) = n
  <2> DEFINE wanted == {m \in DOMAIN keys : keys[m] = keys[n]}
  <2>1. n \in wanted /\ \A m \in wanted : m = n
    OBVIOUS
  <2> HIDE DEF wanted
  <2>2. Lookup(t, keys[n], wanted) = n
    BY <1>1, <2>1, LookupFinds
  <2> QED
    BY <2>2 DEF wanted
<1> QED
  BY <1>4, <1>5 DEF Faithful

(* A probe of either index ends and finds an item exactly if there is one, *)
(* whatever the hashes are and however often winners_index_rehash() and    *)
(* shadows_index_rehash() moved the items; no index outlives the order of  *)
(* its items.                                                              *)
THEOREM ProbesAreFaithful == Spec => []IndexIsFaithful
<1>1. TablesInv => IndexIsFaithful
  <2>1. SUFFICES ASSUME TablesInv PROVE IndexIsFaithful
    OBVIOUS
  <2>2. NoTable.cap = 0 /\ Refused.cap = -1
    BY DEF NoTable, Refused
  <2>3. windex.cap > 0 => Faithful(windex, WinnerKeys(winners))
    <3>1. SUFFICES ASSUME windex.cap > 0 PROVE Faithful(windex, WinnerKeys(winners))
      OBVIOUS
    <3>2. WinnersInv /\ windex # Refused
      BY <2>1, <2>2, <3>1 DEF TablesInv
    <3> DEFINE keys == WinnerKeys(winners)
    <3>3. /\ Len(winners) \in Nat /\ DOMAIN winners = 1 .. Len(winners)
          /\ Len(keys) = Len(winners) /\ DOMAIN keys = 1 .. Len(winners)
      BY <3>2, LengthOfKeys DEF WinnersInv
    <3>4. \A n \in DOMAIN winners : keys[n] = <<winners[n].command>>
      BY DEF WinnerKeys
    <3>5. \A n \in 1 .. Len(keys) : Hash(keys[n]) \in Nat
      BY <3>2, <3>3, <3>4, KeysHaveHashes DEF WinnersInv
    <3>6. \A m, n \in 1 .. Len(keys) : keys[m] = keys[n] => m = n
      BY <3>2, <3>3, <3>4 DEF WinnersInv
    <3>7. IsIndex(windex, keys)
      BY <3>2 DEF WinnersInv
    <3> HIDE DEF keys
    <3>8. Faithful(windex, keys)
      BY <3>1, <3>3, <3>5, <3>6, <3>7, IndexesFindAll
    <3> QED
      BY <3>8 DEF keys
  <2>4. shindex.cap > 0 => Faithful(shindex, ShadowKeys(shadows))
    <3>1. SUFFICES ASSUME shindex.cap > 0 PROVE Faithful(shindex, ShadowKeys(shadows))
      OBVIOUS
    <3>2. ShadowsInv /\ shindex # Refused
      BY <2>1, <2>2, <3>1 DEF TablesInv
    <3> DEFINE keys == ShadowKeys(shadows)
    <3>3. /\ Len(shadows) \in Nat /\ DOMAIN shadows = 1 .. Len(shadows)
          /\ Len(keys) = Len(shadows) /\ DOMAIN keys = 1 .. Len(shadows)
      BY <3>2, LengthOfKeys DEF ShadowsInv
    <3>4. \A n \in DOMAIN shadows : keys[n] = <<shadows[n].command, shadows[n].shadow[1]>>
      BY DEF ShadowKeys
    <3>5. ASSUME NEW n \in 1 .. Len(keys) PROVE Hash(keys[n]) \in Nat
      <4>1. shadows[n].command \in Commands /\ shadows[n].shadow \in Realpaths
        BY <3>2, <3>3 DEF ShadowsInv
      <4>2. keys[n] = <<shadows[n].command, shadows[n].shadow[1]>>
        BY <3>3, <3>4
      <4> QED
        BY <4>1, <4>2, KeysHaveHashes
    <3>6. \A m, n \in 1 .. Len(keys) : keys[m] = keys[n] => m = n
      <4>1. SUFFICES ASSUME NEW m \in DOMAIN shadows, NEW n \in DOMAIN shadows,
                            keys[m] = keys[n]
                     PROVE  m = n
        BY <3>3
      <4>2. /\ shadows[m].command = shadows[n].command
            /\ shadows[m].shadow[1] = shadows[n].shadow[1]
        BY <3>4, <4>1
      <4>3. \A d, e \in Realpaths : d[1] = e[1] => d = e
        BY DEF Realpaths
      <4>4. shadows[m].shadow = shadows[n].shadow
        BY <3>2, <4>2, <4>3 DEF ShadowsInv
      <4> QED
        BY <3>2, <4>2, <4>4 DEF ShadowsInv
    <3>7. IsIndex(shindex, keys)
      BY <3>2 DEF ShadowsInv
    <3> HIDE DEF keys
    <3>8. Faithful(shindex, keys)
      BY <3>1, <3>3, <3>5, <3>6, <3>7, IndexesFindAll
    <3> QED
      BY <3>8 DEF keys
  <2>5. ASSUME pc \in {"scan", "entries"}
        PROVE  /\ winners # <<>> => windex.cap > 0
               /\ shadows # <<>> => shindex.cap > 0
    <3>1. WinnersInv /\ ShadowsInv /\ windex # Refused /\ shindex # Refused
      BY <2>1, <2>5 DEF TablesInv
    <3>2. ASSUME NEW t, NEW keys, IsIndex(t, keys), Len(keys) # 0 PROVE t.cap > 0
      BY <3>2 DEF IsIndex, IsTable
    <3>3. /\ winners # <<>> => Len(WinnerKeys(winners)) # 0
          /\ shadows # <<>> => Len(ShadowKeys(shadows)) # 0
      <4>1. \A s : IsSequence(s) /\ s # <<>> => Len(s) # 0
        BY DEF IsSequence
      <4> QED
        BY <3>1, <4>1, LengthOfKeys DEF WinnersInv, ShadowsInv
    <3> QED
      BY <3>1, <3>2, <3>3 DEF WinnersInv, ShadowsInv
  <2> QED
    BY <2>3, <2>4, <2>5 DEF IndexIsFaithful
<1> QED
  BY <1>1, TablesInvAlways, PTL

-----------------------------------------------------------------------------
(* Sorting. *)

(* A strict weak order of n places, as a set of pairs. *)
WeakOrder(C, n) ==
  /\ \A m, k \in 1 .. n : <<m, k>> \in C => <<k, m>> \notin C
  /\ \A l, m, k \in 1 .. n : <<l, k>> \in C => <<l, m>> \in C \/ <<m, k>> \in C

Precedes(C, m, k) == <<m, k>> \in C \/ (<<k, m>> \notin C /\ m <= k)
Preceding(C, n, k) == {m \in 1 .. n : Precedes(C, m, k)}
PlaceOf(C, n, k) == Cardinality(Preceding(C, n, k))

LEMMA PrecedenceIsTotal ==
  ASSUME NEW C, NEW n \in Nat, WeakOrder(C, n)
  PROVE  /\ \A m, k \in 1 .. n : Precedes(C, m, k) \/ Precedes(C, k, m)
         /\ \A m, k \in 1 .. n : Precedes(C, m, k) /\ Precedes(C, k, m) => m = k
         /\ \A l, m, k \in 1 .. n :
              Precedes(C, l, m) /\ Precedes(C, m, k) => Precedes(C, l, k)
<1>1. ASSUME NEW m \in 1 .. n, NEW k \in 1 .. n
      PROVE  /\ Precedes(C, m, k) \/ Precedes(C, k, m)
             /\ Precedes(C, m, k) /\ Precedes(C, k, m) => m = k
  BY DEF Precedes, WeakOrder
<1>2. ASSUME NEW l \in 1 .. n, NEW m \in 1 .. n, NEW k \in 1 .. n,
             Precedes(C, l, m), Precedes(C, m, k)
      PROVE  Precedes(C, l, k)
  <2>1. l \in Nat /\ m \in Nat /\ k \in Nat
    OBVIOUS
  <2>2. CASE <<l, m>> \in C /\ <<m, k>> \in C
    <3>1. <<k, m>> \notin C
      BY <2>2 DEF WeakOrder
    <3> QED
      BY <2>2, <3>1 DEF Precedes, WeakOrder
  <2>3. CASE <<l, m>> \in C /\ <<k, m>> \notin C
    BY <2>3 DEF Precedes, WeakOrder
  <2>4. CASE <<m, l>> \notin C /\ <<m, k>> \in C
    BY <2>4 DEF Precedes, WeakOrder
  <2>5. CASE <<m, l>> \notin C /\ <<k, m>> \notin C /\ l <= m /\ m <= k
    <3>1. <<k, l>> \notin C
      BY <2>5 DEF WeakOrder
    <3>2. l <= k
      BY <2>1, <2>5
    <3> QED
      BY <3>1, <3>2 DEF Precedes
  <2> QED
    BY <1>2, <2>2, <2>3, <2>4, <2>5 DEF Precedes
<1> QED
  BY <1>1, <1>2

LEMMA PlacesAreApart ==
  ASSUME NEW C, NEW n \in Nat, WeakOrder(C, n), NEW m \in 1 .. n, NEW k \in 1 .. n, m # k,
         Precedes(C, m, k)
  PROVE  PlaceOf(C, n, m) < PlaceOf(C, n, k)
<1> DEFINE S == Preceding(C, n, m)
           T == Preceding(C, n, k)
<1>1. S \in SUBSET T
  BY PrecedenceIsTotal DEF Preceding
<1>2. k \in T /\ k \notin S
  BY PrecedenceIsTotal DEF Preceding
<1>3. T \in SUBSET (1 .. n) /\ IsFiniteSet(1 .. n)
  BY FS_Interval DEF Preceding
<1> HIDE DEF S, T
<1>4. IsFiniteSet(T) /\ IsFiniteSet(S)
  BY <1>1, <1>3, FS_Subset
<1>5. Cardinality(S) <= Cardinality(T) /\ Cardinality(S) # Cardinality(T)
  BY <1>1, <1>2, <1>4, FS_Subset
<1>6. Cardinality(S) \in Nat /\ Cardinality(T) \in Nat
  BY <1>4, FS_CardinalityType
<1>7. Cardinality(S) < Cardinality(T)
  BY <1>5, <1>6
<1> QED
  BY <1>7 DEF PlaceOf, S, T

(* Every place is taken by one. *)
Ranks(f, C, n) ==
  /\ f \in [1 .. n -> 1 .. n]
  /\ \A k \in 1 .. n : f[k] = PlaceOf(C, n, k)
  /\ \A m, k \in 1 .. n : f[m] = f[k] => m = k
  /\ \A r \in 1 .. n : \E k \in 1 .. n : f[k] = r

LEMMA PlacesAreTaken ==
  ASSUME NEW C, NEW n \in Nat, WeakOrder(C, n)
  PROVE  \E f : Ranks(f, C, n)
<1> DEFINE f == [k \in 1 .. n |-> PlaceOf(C, n, k)]
<1>1. IsFiniteSet(1 .. n) /\ Cardinality(1 .. n) = n
  BY FS_Interval
<1>2. ASSUME NEW k \in 1 .. n PROVE PlaceOf(C, n, k) \in 1 .. n
  <2> DEFINE S == Preceding(C, n, k)
  <2>1. S \in SUBSET (1 .. n) /\ k \in S
    BY PrecedenceIsTotal DEF Preceding
  <2> HIDE DEF S
  <2>2. IsFiniteSet(S) /\ Cardinality(S) <= n
    BY <1>1, <2>1, FS_Subset
  <2>3. Cardinality(S) \in Nat /\ Cardinality(S) # 0
    BY <2>1, <2>2, FS_CardinalityType, FS_EmptySet
  <2>4. Cardinality(S) \in 1 .. n
    BY <2>2, <2>3
  <2> QED
    BY <2>4 DEF PlaceOf, S
<1>3. f \in [1 .. n -> 1 .. n] /\ \A k \in 1 .. n : f[k] = PlaceOf(C, n, k)
  BY <1>2
<1> HIDE DEF f
<1>4. ASSUME NEW m \in 1 .. n, NEW k \in 1 .. n, m # k PROVE f[m] # f[k]
  <2>1. f[m] = PlaceOf(C, n, m) /\ f[k] = PlaceOf(C, n, k) /\ f[m] \in Int /\ f[k] \in Int
    BY <1>3
  <2>2. Precedes(C, m, k) \/ Precedes(C, k, m)
    BY PrecedenceIsTotal
  <2>3. f[m] < f[k] \/ f[k] < f[m]
    BY <1>4, <2>1, <2>2, PlacesAreApart
  <2> QED
    BY <2>1, <2>3
<1>5. f \in Injection(1 .. n, 1 .. n)
  BY <1>3, <1>4 DEF Injection, IsInjective
<1>6. f \in Surjection(1 .. n, 1 .. n)
  BY <1>1, <1>5, FS_Injection
<1>7. \A r \in 1 .. n : \E k \in 1 .. n : f[k] = r
  BY <1>6 DEF Surjection
<1>8. Ranks(f, C, n)
  BY <1>3, <1>4, <1>7 DEF Ranks
<1> QED
  BY <1>8

(* What is sorted is the same in another order. *)
Permuted(s, t, n, p) ==
  /\ p \in [1 .. n -> 1 .. n] /\ DOMAIN t = 1 .. n
  /\ \A r \in 1 .. n : t[r] = s[p[r]]
  /\ \A q, r \in 1 .. n : p[q] = p[r] => q = r
  /\ \A k \in 1 .. n : \E r \in 1 .. n : p[r] = k

ByPlace(C, n, s, t, p) ==
  /\ p \in [1 .. n -> 1 .. n] /\ DOMAIN t = 1 .. n
  /\ \A r \in 1 .. n : PlaceOf(C, n, p[r]) = r /\ t[r] = s[p[r]]

InOrder(C, n, p) == \A q, r \in 1 .. n : q < r => <<p[r], p[q]>> \notin C

LEMMA SortingPermutes ==
  ASSUME NEW C, NEW n \in Nat, WeakOrder(C, n), NEW s, NEW t, NEW p, ByPlace(C, n, s, t, p)
  PROVE  Permuted(s, t, n, p) /\ InOrder(C, n, p)
<1>9. /\ p \in [1 .. n -> 1 .. n] /\ DOMAIN t = 1 .. n
      /\ \A r \in 1 .. n : PlaceOf(C, n, p[r]) = r /\ t[r] = s[p[r]]
  BY DEF ByPlace
<1>1. PICK f : Ranks(f, C, n)
  BY PlacesAreTaken
<1>2. /\ f \in [1 .. n -> 1 .. n]
      /\ \A k \in 1 .. n : f[k] = PlaceOf(C, n, k)
      /\ \A m, k \in 1 .. n : f[m] = f[k] => m = k
  BY <1>1 DEF Ranks
<1>3. \A r \in 1 .. n : p[r] \in 1 .. n /\ f[p[r]] = r
  BY <1>2, <1>9
<1>4. \A k \in 1 .. n : f[k] \in 1 .. n /\ p[f[k]] = k
  BY <1>2, <1>3
<1>5. ASSUME NEW q \in 1 .. n, NEW r \in 1 .. n, p[q] = p[r] PROVE q = r
  <2>1. f[p[q]] = q /\ f[p[r]] = r
    BY <1>3
  <2> QED
    BY <1>5, <2>1
<1>6. \A k \in 1 .. n : \E r \in 1 .. n : p[r] = k
  BY <1>4, Zenon
<1>7. Permuted(s, t, n, p)
  BY <1>5, <1>6, <1>9 DEF Permuted
<1>8. ASSUME NEW q \in 1 .. n, NEW r \in 1 .. n, q < r PROVE <<p[r], p[q]>> \notin C
  <2> DEFINE a == p[q]
             b == p[r]
  <2>1. a \in 1 .. n /\ b \in 1 .. n /\ PlaceOf(C, n, a) = q /\ PlaceOf(C, n, b) = r
    BY <1>3, <1>9
  <2> HIDE DEF a, b
  <2>2. a # b
    BY <1>8, <2>1
  <2>3. ~Precedes(C, b, a)
    <3>1. SUFFICES ASSUME Precedes(C, b, a) PROVE FALSE
      OBVIOUS
    <3>2. PlaceOf(C, n, b) < PlaceOf(C, n, a)
      BY <2>1, <2>2, <3>1, PlacesAreApart
    <3> QED
      BY <1>8, <2>1, <3>2
  <2> QED
    BY <2>3 DEF Precedes, a, b
<1> QED
  BY <1>7, <1>8 DEF InOrder

(* Texts are in the order of their bytes. *)
LEMMA BeforeIsAsymmetric ==
  ASSUME NEW a \in Seq(Nat), NEW b \in Seq(Nat), Before(a, b)
  PROVE  ~Before(b, a)
<1>1. SUFFICES ASSUME Before(b, a) PROVE FALSE
  OBVIOUS
<1>2. DOMAIN a = 1 .. Len(a) /\ DOMAIN b = 1 .. Len(b) /\ Len(a) \in Nat /\ Len(b) \in Nat
  OBVIOUS
<1>3. PICK k \in 1 .. Len(b) : /\ \A m \in 1 .. k - 1 : m \in 1 .. Len(a) /\ a[m] = b[m]
                               /\ k \in 1 .. Len(a) => a[k] < b[k]
  BY <1>2 DEF Before
<1>4. PICK l \in 1 .. Len(a) : /\ \A m \in 1 .. l - 1 : m \in 1 .. Len(b) /\ b[m] = a[m]
                               /\ l \in 1 .. Len(b) => b[l] < a[l]
  BY <1>1, <1>2 DEF Before
<1>5. k \in 1 .. Len(a) => a[k] \in Nat /\ b[k] \in Nat
  OBVIOUS
<1>6. l \in 1 .. Len(b) => a[l] \in Nat /\ b[l] \in Nat
  OBVIOUS
<1>7. CASE k < l
  <2>1. k \in 1 .. l - 1 /\ k \in 1 .. Len(a)
    BY <1>2, <1>7
  <2> QED
    BY <1>3, <1>4, <1>5, <2>1
<1>8. CASE l < k
  <2>1. l \in 1 .. k - 1 /\ l \in 1 .. Len(b)
    BY <1>2, <1>8
  <2> QED
    BY <1>3, <1>4, <1>6, <2>1
<1>9. CASE k = l
  BY <1>3, <1>4, <1>5, <1>9
<1> QED
  BY <1>2, <1>7, <1>8, <1>9

LEMMA BeforeIsTransitive ==
  ASSUME NEW a \in Seq(Nat), NEW b \in Seq(Nat), NEW c \in Seq(Nat), Before(a, b), Before(b, c)
  PROVE  Before(a, c)
<1>1. /\ DOMAIN a = 1 .. Len(a) /\ DOMAIN b = 1 .. Len(b) /\ DOMAIN c = 1 .. Len(c)
      /\ Len(a) \in Nat /\ Len(b) \in Nat /\ Len(c) \in Nat
  OBVIOUS
<1>2. PICK k \in 1 .. Len(b) : /\ \A m \in 1 .. k - 1 : m \in 1 .. Len(a) /\ a[m] = b[m]
                               /\ k \in 1 .. Len(a) => a[k] < b[k]
  BY <1>1 DEF Before
<1>3. PICK l \in 1 .. Len(c) : /\ \A m \in 1 .. l - 1 : m \in 1 .. Len(b) /\ b[m] = c[m]
                               /\ l \in 1 .. Len(b) => b[l] < c[l]
  BY <1>1 DEF Before
<1>4. \A m \in 1 .. Len(a) : a[m] \in Nat
  OBVIOUS
<1>5. \A m \in 1 .. Len(b) : b[m] \in Nat
  OBVIOUS
<1>6. \A m \in 1 .. Len(c) : c[m] \in Nat
  OBVIOUS
<1>7. CASE k < l
  <2>1. k \in 1 .. l - 1 /\ k \in 1 .. Len(c)
    BY <1>1, <1>7
  <2>2. \A m \in 1 .. k - 1 : m \in 1 .. l - 1
    BY <1>7
  <2>3. \A m \in 1 .. k - 1 : m \in 1 .. Len(a) /\ a[m] = c[m]
    BY <1>2, <1>3, <2>2
  <2>4. k \in 1 .. Len(a) => a[k] < c[k]
    BY <1>2, <1>3, <2>1
  <2> QED
    BY <1>1, <2>1, <2>3, <2>4 DEF Before
<1>8. CASE l < k
  <2>1. l \in 1 .. k - 1 /\ l \in 1 .. Len(b)
    BY <1>1, <1>8
  <2>2. \A m \in 1 .. l - 1 : m \in 1 .. k - 1
    BY <1>8
  <2>3. \A m \in 1 .. l - 1 : m \in 1 .. Len(a) /\ a[m] = c[m]
    BY <1>2, <1>3, <2>2
  <2>4. l \in 1 .. Len(a) => a[l] < c[l]
    BY <1>2, <1>3, <2>1
  <2> QED
    BY <1>1, <2>3, <2>4 DEF Before
<1>9. CASE k = l
  <2>1. \A m \in 1 .. l - 1 : m \in 1 .. Len(a) /\ a[m] = c[m]
    BY <1>2, <1>3, <1>9
  <2>2. ASSUME l \in 1 .. Len(a) PROVE a[l] < c[l]
    <3>1. a[l] < b[l] /\ b[l] < c[l]
      BY <1>2, <1>3, <1>9, <2>2
    <3> QED
      BY <1>4, <1>5, <1>6, <1>9, <2>2, <3>1, SMTT(30)
  <2> QED
    BY <1>1, <2>1, <2>2 DEF Before
<1> QED
  BY <1>1, <1>7, <1>8, <1>9

LEMMA BeforeIsTotal ==
  ASSUME NEW a \in Seq(Nat), NEW b \in Seq(Nat), a # b
  PROVE  Before(a, b) \/ Before(b, a)
<1>1. DOMAIN a = 1 .. Len(a) /\ DOMAIN b = 1 .. Len(b) /\ Len(a) \in Nat /\ Len(b) \in Nat
  OBVIOUS
<1> DEFINE Same(m) == m \in 1 .. Len(a) /\ m \in 1 .. Len(b) /\ a[m] = b[m]
           D == {m \in Nat \ {0} : (m \in 1 .. Len(a) \/ m \in 1 .. Len(b)) /\ ~Same(m)}
<1>2. D # {}
  <2>1. SUFFICES ASSUME D = {} PROVE FALSE
    OBVIOUS
  <2>2. \A m \in Nat \ {0} : (m \in 1 .. Len(a) \/ m \in 1 .. Len(b)) => Same(m)
    BY <2>1
  <2>3. Len(a) <= Len(b) /\ Len(b) <= Len(a)
    BY <1>1, <2>2
  <2> HIDE DEF D, Same
  <2>4. Len(a) = Len(b)
    <3>1. \A x, y \in Nat : x <= y /\ y <= x => x = y
      OBVIOUS
    <3> QED
      BY <1>1, <2>3, <3>1
  <2> USE DEF D, Same
  <2>5. ASSUME NEW m \in 1 .. Len(a) PROVE a[m] = b[m]
    <3>1. m \in Nat \ {0}
      OBVIOUS
    <3> QED
      BY <2>2, <3>1
  <2> QED
    BY <2>4, <2>5
<1>3. PICK d \in D : \A m \in D : d <= m
  BY <1>2, LeastNatural
<1>4. \A m \in 1 .. d - 1 : Same(m)
  BY <1>1, <1>3
<1>5. d \in 1 .. Len(a) /\ d \in 1 .. Len(b) => a[d] < b[d] \/ b[d] < a[d]
  <2>1. SUFFICES ASSUME d \in 1 .. Len(a), d \in 1 .. Len(b)
                 PROVE  a[d] < b[d] \/ b[d] < a[d]
    OBVIOUS
  <2>2. a[d] \in Nat /\ b[d] \in Nat /\ a[d] # b[d]
    BY <1>3, <2>1
  <2> QED
    BY <2>2
<1>6. d \in 1 .. Len(a) \/ d \in 1 .. Len(b)
  OBVIOUS
<1> HIDE DEF D
<1>7. CASE d \in 1 .. Len(b) /\ (d \in 1 .. Len(a) => a[d] < b[d])
  BY <1>1, <1>4, <1>7 DEF Before
<1>8. CASE d \in 1 .. Len(a) /\ (d \in 1 .. Len(b) => b[d] < a[d])
  BY <1>1, <1>4, <1>8 DEF Before
<1> QED
  BY <1>5, <1>6, <1>7, <1>8

(* Where the texts are the same, another order decides. *)
ByText(C, n, text, D) ==
  \A m, k \in 1 .. n :
    <<m, k>> \in C <=> Before(text[m], text[k]) \/ (text[m] = text[k] /\ <<m, k>> \in D)

LEMMA TextsAndThenOther ==
  ASSUME NEW C, NEW n \in Nat, NEW D, WeakOrder(D, n), NEW text \in [1 .. n -> Seq(Nat)],
         ByText(C, n, text, D)
  PROVE  WeakOrder(C, n)
<1>1. \A m \in 1 .. n : text[m] \in Seq(Nat)
  OBVIOUS
<1>2. \A m, k \in 1 .. n :
        <<m, k>> \in C <=> Before(text[m], text[k]) \/ (text[m] = text[k] /\ <<m, k>> \in D)
  BY DEF ByText
<1>3. ASSUME NEW m \in 1 .. n, NEW k \in 1 .. n, <<m, k>> \in C PROVE <<k, m>> \notin C
  <2>1. ~(Before(text[m], text[k]) /\ Before(text[k], text[m]))
    BY <1>1, BeforeIsAsymmetric
  <2>2. text[m] = text[k] => ~Before(text[m], text[k]) /\ ~Before(text[k], text[m])
    BY <1>1, BeforeIsAsymmetric
  <2> QED
    BY <1>2, <1>3, <2>1, <2>2 DEF WeakOrder
<1>4. ASSUME NEW l \in 1 .. n, NEW m \in 1 .. n, NEW k \in 1 .. n, <<l, k>> \in C
      PROVE  <<l, m>> \in C \/ <<m, k>> \in C
  <2>1. CASE Before(text[l], text[k])
    <3>1. CASE text[m] = text[l]
      BY <1>2, <2>1, <3>1
    <3>2. CASE Before(text[l], text[m])
      BY <1>2, <3>2
    <3>3. CASE Before(text[m], text[l])
      <4>1. Before(text[m], text[k])
        BY <1>1, <2>1, <3>3, BeforeIsTransitive
      <4> QED
        BY <1>2, <4>1
    <3> QED
      BY <1>1, <3>1, <3>2, <3>3, BeforeIsTotal
  <2>2. CASE text[l] = text[k] /\ <<l, k>> \in D
    <3>1. CASE text[m] = text[l]
      <4>1. <<l, m>> \in D \/ <<m, k>> \in D
        BY <2>2 DEF WeakOrder
      <4> QED
        BY <1>2, <2>2, <3>1, <4>1
    <3>2. CASE text[m] # text[l]
      <4>1. Before(text[l], text[m]) \/ Before(text[m], text[k])
        BY <1>1, <2>2, <3>2, BeforeIsTotal
      <4> QED
        BY <1>2, <4>1
    <3> QED
      BY <3>1, <3>2
  <2> QED
    BY <1>2, <1>4, <2>1, <2>2
<1> QED
  BY <1>3, <1>4 DEF WeakOrder

CodeSet == ToSet(Codes)

LEMMA CodesAreCodes ==
  /\ DOMAIN Codes = 1 .. 7 /\ Len(Codes) = 7
  /\ Codes \in Seq(CodeSet) /\ "SHADOWED" \notin CodeSet
  /\ "UNSAFE_OWNER" \in CodeSet /\ "EMPTY_ROOT" \in CodeSet
<1>1. CodeSet = {Codes[k] : k \in DOMAIN Codes}
  BY DEF CodeSet, ToSet
<1>2. DOMAIN Codes = 1 .. 7 /\ Len(Codes) = 7
  BY DEF Codes
<1>3. Codes[1] = "EMPTY_ROOT" /\ Codes[7] = "UNSAFE_OWNER"
  BY DEF Codes
<1>4. \A k \in 1 .. 7 : Codes[k] # "SHADOWED"
  BY DEF Codes
<1>5. Codes \in Seq(CodeSet)
  <2>1. \A k \in 1 .. 7 : Codes[k] \in CodeSet
    BY <1>1, <1>2
  <2>2. Codes = [k \in 1 .. 7 |-> Codes[k]]
    BY <1>2 DEF Codes
  <2>3. [k \in 1 .. 7 |-> Codes[k]] \in Seq(CodeSet)
    BY <2>1
  <2> QED
    BY <2>2, <2>3
<1>6. 1 \in DOMAIN Codes /\ 7 \in DOMAIN Codes
  BY <1>2
<1>7. Codes[1] \in CodeSet /\ Codes[7] \in CodeSet
  BY <1>1, <1>6
<1> QED
  BY <1>1, <1>2, <1>3, <1>4, <1>5, <1>7

LEMMA RanksAreNaturals ==
  ASSUME NEW code \in CodeSet
  PROVE  Rank(code) \in Nat
<1>1. PICK k \in DOMAIN Codes : Codes[k] = code
  BY DEF CodeSet, ToSet
<1>2. Rank(code) \in DOMAIN Codes
  BY <1>1 DEF Rank
<1>3. DOMAIN Codes = 1 .. 7
  BY CodesAreCodes
<1> QED
  BY <1>2, <1>3

ByNumbers(D, n, a, b) ==
  \A m, k \in 1 .. n : <<m, k>> \in D <=> a[m] < a[k] \/ (a[m] = a[k] /\ b[m] < b[k])

LEMMA NumbersAreOrdered ==
  ASSUME NEW D, NEW n \in Nat, NEW a \in [1 .. n -> Nat], NEW b \in [1 .. n -> Nat],
         ByNumbers(D, n, a, b)
  PROVE  WeakOrder(D, n)
<1>1. \A k \in 1 .. n : a[k] \in Nat /\ b[k] \in Nat
  OBVIOUS
<1>2. ASSUME NEW m \in 1 .. n, NEW k \in 1 .. n, <<m, k>> \in D PROVE <<k, m>> \notin D
  BY <1>1, <1>2, SMTT(30) DEF ByNumbers
<1>3. ASSUME NEW l \in 1 .. n, NEW m \in 1 .. n, NEW k \in 1 .. n, <<l, k>> \in D
      PROVE  <<l, m>> \in D \/ <<m, k>> \in D
  <2>1. a[l] < a[k] \/ (a[l] = a[k] /\ b[l] < b[k])
    BY <1>3 DEF ByNumbers
  <2>2. \/ a[l] < a[m] \/ a[m] < a[k]
        \/ a[l] = a[m] /\ b[l] < b[m]
        \/ a[m] = a[k] /\ b[m] < b[k]
    <3>1. /\ a[l] \in Nat /\ a[m] \in Nat /\ a[k] \in Nat
          /\ b[l] \in Nat /\ b[m] \in Nat /\ b[k] \in Nat
      BY <1>1
    <3> QED
      BY <2>1, <3>1
  <2> QED
    BY <2>2 DEF ByNumbers
<1> QED
  BY <1>2, <1>3 DEF WeakOrder

LEMMA PlacesAreFilled ==
  ASSUME NEW C, NEW n \in Nat, WeakOrder(C, n), NEW r \in 1 .. n
  PROVE  \E k \in 1 .. n : PlaceOf(C, n, k) = r
<1>1. PICK f : Ranks(f, C, n)
  BY PlacesAreTaken
<1>2. PICK k \in 1 .. n : f[k] = r
  BY <1>1 DEF Ranks
<1> QED
  BY <1>1, <1>2 DEF Ranks

(* The shadows are sorted by command and component. *)
LEMMA ShadowsAreSorted ==
  ASSUME NEW s, NEW n \in Nat, DOMAIN s = 1 .. n,
         \A k \in 1 .. n : s[k].command \in Nat /\ s[k].index \in Nat
  PROVE  /\ Sorted(s, ShadowBefore) = [r \in 1 .. n |-> Sorted(s, ShadowBefore)[r]]
         /\ \E p : /\ Permuted(s, Sorted(s, ShadowBefore), n, p)
                   /\ \A q, r \in 1 .. n : q < r => ~ShadowBefore(s[p[r]], s[p[q]])
<1> DEFINE C == {x \in (1 .. n) \X (1 .. n) : ShadowBefore(s[x[1]], s[x[2]])}
           place(k) == Cardinality({m \in 1 .. n : ShadowBefore(s[m], s[k])
                                                   \/ (~ShadowBefore(s[k], s[m]) /\ m <= k)})
           at(r) == CHOOSE k \in 1 .. n : place(k) = r
           p == [r \in 1 .. n |-> at(r)]
           t == Sorted(s, ShadowBefore)
<1>1. \A m, k \in 1 .. n : <<m, k>> \in C <=> ShadowBefore(s[m], s[k])
  OBVIOUS
<1>2. t = [r \in 1 .. n |-> s[at(r)]]
  BY DEF Sorted
<1> HIDE DEF C, t
<1>3. WeakOrder(C, n)
  <2>1. \A m, k \in 1 .. n : ShadowBefore(s[m], s[k]) => ~ShadowBefore(s[k], s[m])
    BY DEF ShadowBefore
  <2>2. ASSUME NEW l \in 1 .. n, NEW m \in 1 .. n, NEW k \in 1 .. n,
               ShadowBefore(s[l], s[k])
        PROVE  ShadowBefore(s[l], s[m]) \/ ShadowBefore(s[m], s[k])
    BY <2>2 DEF ShadowBefore
  <2> QED
    BY <1>1, <2>1, <2>2 DEF WeakOrder
<1>4. ASSUME NEW k \in 1 .. n PROVE place(k) = PlaceOf(C, n, k)
  <2>1. Preceding(C, n, k) = {m \in 1 .. n : ShadowBefore(s[m], s[k])
                                             \/ (~ShadowBefore(s[k], s[m]) /\ m <= k)}
    BY <1>1 DEF Preceding, Precedes
  <2> QED
    BY <2>1 DEF PlaceOf
<1> HIDE DEF place
<1>5. ASSUME NEW r \in 1 .. n PROVE at(r) \in 1 .. n /\ PlaceOf(C, n, at(r)) = r
  <2>1. PICK k \in 1 .. n : PlaceOf(C, n, k) = r
    BY <1>3, PlacesAreFilled
  <2>2. at(r) \in 1 .. n /\ place(at(r)) = r
    BY <1>4, <2>1
  <2> HIDE DEF at
  <2> QED
    BY <1>4, <2>2
<1> HIDE DEF at
<1>6. /\ p \in [1 .. n -> 1 .. n] /\ DOMAIN t = 1 .. n
      /\ \A r \in 1 .. n : PlaceOf(C, n, p[r]) = r /\ t[r] = s[p[r]] /\ p[r] \in 1 .. n
  BY <1>2, <1>5
<1> HIDE DEF p
<1>7. Permuted(s, t, n, p) /\ InOrder(C, n, p)
  <2>1. ByPlace(C, n, s, t, p)
    BY <1>6 DEF ByPlace
  <2> QED
    BY <1>3, <2>1, SortingPermutes
<1>8. \A q, r \in 1 .. n : q < r => ~ShadowBefore(s[p[r]], s[p[q]])
  BY <1>1, <1>6, <1>7 DEF InOrder
<1>9. t = [r \in 1 .. n |-> t[r]]
  BY <1>2
<1> QED
  BY <1>7, <1>8, <1>9 DEF t

(* The roots are sorted by text and position. *)
LEMMA RootsAreSorted ==
  ASSUME NEW s, NEW n \in Nat, DOMAIN s = 1 .. n,
         \A k \in 1 .. n : s[k].text \in Seq(Nat) /\ s[k].index \in Nat
  PROVE  /\ Sorted(s, RootBefore) = [r \in 1 .. n |-> Sorted(s, RootBefore)[r]]
         /\ \E p : /\ Permuted(s, Sorted(s, RootBefore), n, p)
                   /\ \A q, r \in 1 .. n : q < r => ~RootBefore(s[p[r]], s[p[q]])
<1> DEFINE C == {x \in (1 .. n) \X (1 .. n) : RootBefore(s[x[1]], s[x[2]])}
           place(k) == Cardinality({m \in 1 .. n : RootBefore(s[m], s[k])
                                                   \/ (~RootBefore(s[k], s[m]) /\ m <= k)})
           at(r) == CHOOSE k \in 1 .. n : place(k) = r
           p == [r \in 1 .. n |-> at(r)]
           t == Sorted(s, RootBefore)
<1>1. \A m, k \in 1 .. n : <<m, k>> \in C <=> RootBefore(s[m], s[k])
  OBVIOUS
<1>2. t = [r \in 1 .. n |-> s[at(r)]]
  BY DEF Sorted
<1> HIDE DEF C, t
<1>3. WeakOrder(C, n)
  <2> DEFINE text == [k \in 1 .. n |-> s[k].text]
             D == {x \in (1 .. n) \X (1 .. n) : s[x[1]].index < s[x[2]].index}
  <2>1. WeakOrder(D, n)
    BY SMTT(30) DEF WeakOrder
  <2>2. \A m, k \in 1 .. n : <<m, k>> \in D <=> s[m].index < s[k].index
    OBVIOUS
  <2> HIDE DEF D
  <2>3. ByText(C, n, text, D)
    BY <1>1, <2>2 DEF ByText, RootBefore
  <2>4. text \in [1 .. n -> Seq(Nat)]
    OBVIOUS
  <2> HIDE DEF text
  <2> QED
    BY <2>1, <2>3, <2>4, TextsAndThenOther
<1>4. ASSUME NEW k \in 1 .. n PROVE place(k) = PlaceOf(C, n, k)
  <2>1. Preceding(C, n, k) = {m \in 1 .. n : RootBefore(s[m], s[k])
                                             \/ (~RootBefore(s[k], s[m]) /\ m <= k)}
    BY <1>1 DEF Preceding, Precedes
  <2> QED
    BY <2>1 DEF PlaceOf
<1> HIDE DEF place
<1>5. ASSUME NEW r \in 1 .. n PROVE at(r) \in 1 .. n /\ PlaceOf(C, n, at(r)) = r
  <2>1. PICK k \in 1 .. n : PlaceOf(C, n, k) = r
    BY <1>3, PlacesAreFilled
  <2>2. at(r) \in 1 .. n /\ place(at(r)) = r
    BY <1>4, <2>1
  <2> HIDE DEF at
  <2> QED
    BY <1>4, <2>2
<1> HIDE DEF at
<1>6. /\ p \in [1 .. n -> 1 .. n] /\ DOMAIN t = 1 .. n
      /\ \A r \in 1 .. n : PlaceOf(C, n, p[r]) = r /\ t[r] = s[p[r]] /\ p[r] \in 1 .. n
  BY <1>2, <1>5
<1> HIDE DEF p
<1>7. Permuted(s, t, n, p) /\ InOrder(C, n, p)
  <2>1. ByPlace(C, n, s, t, p)
    BY <1>6 DEF ByPlace
  <2> QED
    BY <1>3, <2>1, SortingPermutes
<1>8. \A q, r \in 1 .. n : q < r => ~RootBefore(s[p[r]], s[p[q]])
  BY <1>1, <1>6, <1>7 DEF InOrder
<1>9. t = [r \in 1 .. n |-> t[r]]
  BY <1>2
<1> QED
  BY <1>7, <1>8, <1>9 DEF t

(* The findings are sorted by text, position and kind. *)
LEMMA FindingsAreSorted ==
  ASSUME NEW s, NEW n \in Nat, DOMAIN s = 1 .. n,
         \A k \in 1 .. n : s[k].root \in Seq(Nat) /\ s[k].index \in Nat /\ s[k].code \in CodeSet
  PROVE  /\ Sorted(s, FindingBefore) = [r \in 1 .. n |-> Sorted(s, FindingBefore)[r]]
         /\ \E p : /\ Permuted(s, Sorted(s, FindingBefore), n, p)
                   /\ \A q, r \in 1 .. n : q < r => ~FindingBefore(s[p[r]], s[p[q]])
<1> DEFINE C == {x \in (1 .. n) \X (1 .. n) : FindingBefore(s[x[1]], s[x[2]])}
           place(k) == Cardinality({m \in 1 .. n : FindingBefore(s[m], s[k])
                                                   \/ (~FindingBefore(s[k], s[m]) /\ m <= k)})
           at(r) == CHOOSE k \in 1 .. n : place(k) = r
           p == [r \in 1 .. n |-> at(r)]
           t == Sorted(s, FindingBefore)
<1>1. \A m, k \in 1 .. n : <<m, k>> \in C <=> FindingBefore(s[m], s[k])
  OBVIOUS
<1>2. t = [r \in 1 .. n |-> s[at(r)]]
  BY DEF Sorted
<1> HIDE DEF C, t
<1>3. WeakOrder(C, n)
  <2> DEFINE text == [k \in 1 .. n |-> s[k].root]
             index == [k \in 1 .. n |-> s[k].index]
             rank == [k \in 1 .. n |-> Rank(s[k].code)]
             D == {x \in (1 .. n) \X (1 .. n) :
                     \/ index[x[1]] < index[x[2]]
                     \/ index[x[1]] = index[x[2]] /\ rank[x[1]] < rank[x[2]]}
  <2>1. index \in [1 .. n -> Nat] /\ rank \in [1 .. n -> Nat]
    BY RanksAreNaturals
  <2>2. ByNumbers(D, n, index, rank)
    BY DEF ByNumbers
  <2>3. \A m, k \in 1 .. n :
          <<m, k>> \in D <=> \/ s[m].index < s[k].index
                            \/ /\ s[m].index = s[k].index
                               /\ Rank(s[m].code) < Rank(s[k].code)
    OBVIOUS
  <2> HIDE DEF D, index, rank
  <2>4. WeakOrder(D, n)
    BY <2>1, <2>2, NumbersAreOrdered
  <2>5. ByText(C, n, text, D)
    BY <1>1, <2>3 DEF ByText, FindingBefore
  <2>6. text \in [1 .. n -> Seq(Nat)]
    OBVIOUS
  <2> HIDE DEF text
  <2> QED
    BY <2>4, <2>5, <2>6, TextsAndThenOther
<1>4. ASSUME NEW k \in 1 .. n PROVE place(k) = PlaceOf(C, n, k)
  <2>1. Preceding(C, n, k) = {m \in 1 .. n : FindingBefore(s[m], s[k])
                                             \/ (~FindingBefore(s[k], s[m]) /\ m <= k)}
    BY <1>1 DEF Preceding, Precedes
  <2> QED
    BY <2>1 DEF PlaceOf
<1> HIDE DEF place
<1>5. ASSUME NEW r \in 1 .. n PROVE at(r) \in 1 .. n /\ PlaceOf(C, n, at(r)) = r
  <2>1. PICK k \in 1 .. n : PlaceOf(C, n, k) = r
    BY <1>3, PlacesAreFilled
  <2>2. at(r) \in 1 .. n /\ place(at(r)) = r
    BY <1>4, <2>1
  <2> HIDE DEF at
  <2> QED
    BY <1>4, <2>2
<1> HIDE DEF at
<1>6. /\ p \in [1 .. n -> 1 .. n] /\ DOMAIN t = 1 .. n
      /\ \A r \in 1 .. n : PlaceOf(C, n, p[r]) = r /\ t[r] = s[p[r]] /\ p[r] \in 1 .. n
  BY <1>2, <1>5
<1> HIDE DEF p
<1>7. Permuted(s, t, n, p) /\ InOrder(C, n, p)
  <2>1. ByPlace(C, n, s, t, p)
    BY <1>6 DEF ByPlace
  <2> QED
    BY <1>3, <2>1, SortingPermutes
<1>8. \A q, r \in 1 .. n : q < r => ~FindingBefore(s[p[r]], s[p[q]])
  BY <1>1, <1>6, <1>7 DEF InOrder
<1>9. t = [r \in 1 .. n |-> t[r]]
  BY <1>2
<1> QED
  BY <1>7, <1>8, <1>9 DEF t

-----------------------------------------------------------------------------
(* The types. *)

RootType == [text : Seq(Nat), index : 1 .. MaxCount, at : Nat]
FindingType == [root : Seq(Nat), index : 1 .. MaxCount, code : CodeSet]

(* The findings that one inspection makes, up to the n-th kind. *)
Making(f, root, index, codes, n) ==
  f = [k \in 0 .. n |->
         IF k = 0 THEN <<>>
         ELSE IF Codes[k] \in codes
              THEN Append(f[k - 1], [root |-> root, index |-> index, code |-> Codes[k]])
              ELSE f[k - 1]]

LEMMA MakingIsPossible ==
  ASSUME NEW root, NEW index, NEW codes, NEW n \in Nat
  PROVE  \E f : Making(f, root, index, codes, n)
<1> DEFINE S == {m \in Nat : \E f : Making(f, root, index, codes, m)}
           Value(f, k) == IF k = 0 THEN <<>>
                          ELSE IF Codes[k] \in codes
                               THEN Append(f[k - 1],
                                           [root |-> root, index |-> index, code |-> Codes[k]])
                               ELSE f[k - 1]
<1>1. \A f, m : Making(f, root, index, codes, m) <=> f = [k \in 0 .. m |-> Value(f, k)]
  BY DEF Making
<1>2. \A f, g, k : (k # 0 => f[k - 1] = g[k - 1]) => Value(f, k) = Value(g, k)
  OBVIOUS
<1> HIDE DEF Value
<1>3. 0 \in S
  <2> DEFINE f == [k \in {0} |-> Value(<<>>, 0)]
  <2>1. 0 .. 0 = {0}
    OBVIOUS
  <2>2. Value(f, 0) = Value(<<>>, 0)
    BY <1>2
  <2>3. f = [k \in 0 .. 0 |-> Value(f, k)]
    BY <2>1, <2>2
  <2> HIDE DEF f
  <2> QED
    BY <1>1, <2>3
<1>4. ASSUME NEW m \in Nat, m \in S PROVE m + 1 \in S
  <2>1. PICK f : f = [k \in 0 .. m |-> Value(f, k)]
    BY <1>1, <1>4
  <2> DEFINE g == [k \in 0 .. m + 1 |-> Value(f, k)]
  <2>2. ASSUME NEW k \in 0 .. m + 1 PROVE Value(f, k) = Value(g, k)
    <3>1. SUFFICES ASSUME k # 0 PROVE f[k - 1] = g[k - 1]
      BY <1>2
    <3>2. k - 1 \in 0 .. m /\ k - 1 \in 0 .. m + 1
      BY <3>1
    <3>3. f[k - 1] = Value(f, k - 1)
      BY <2>1, <3>2
    <3>4. g[k - 1] = Value(f, k - 1)
      BY <3>2
    <3> QED
      BY <3>3, <3>4
  <2>3. g = [k \in 0 .. m + 1 |-> Value(g, k)]
    <3> DEFINE h == [k \in 0 .. m + 1 |-> Value(g, k)]
    <3>1. g = h
      <4> HIDE DEF h, g
      <4>1. g = [k \in 0 .. m + 1 |-> Value(f, k)] /\ h = [k \in 0 .. m + 1 |-> Value(g, k)]
        BY DEF h, g
      <4> QED
        BY <2>2, <4>1
    <3> QED
      BY <3>1
  <2> HIDE DEF g
  <2>4. Making(g, root, index, codes, m + 1)
    BY <1>1, <2>3
  <2> QED
    BY <2>4
<1> HIDE DEF S
<1>5. n \in S
  BY <1>3, <1>4, EveryNatural
<1> QED
  BY <1>5 DEF S

LEMMA FindingsAreFindings ==
  ASSUME NEW root \in Seq(Nat), NEW index \in 1 .. MaxCount, NEW codes
  PROVE  Finding(root, index, codes) \in Seq(FindingType)
<1> DEFINE f == CHOOSE g : Making(g, root, index, codes, Len(Codes))
           new(k) == [root |-> root, index |-> index, code |-> Codes[k]]
           S == {m \in Nat : m <= 7 => f[m] \in Seq(FindingType)}
<1>1. Finding(root, index, codes) = f[Len(Codes)]
  BY DEF Finding, Making
<1>2. Len(Codes) = 7 /\ DOMAIN Codes = 1 .. 7 /\ \A k \in 1 .. 7 : Codes[k] \in CodeSet
  <2>1. Codes \in Seq(CodeSet) /\ Len(Codes) = 7 /\ DOMAIN Codes = 1 .. 7
    BY CodesAreCodes
  <2>2. \A k \in 1 .. Len(Codes) : Codes[k] \in CodeSet
    BY <2>1, ElementOfSeq
  <2> QED
    BY <2>1, <2>2
<1>3. Making(f, root, index, codes, 7)
  <2>1. \E g : Making(g, root, index, codes, Len(Codes))
    BY <1>2, MakingIsPossible
  <2> QED
    BY <1>2, <2>1
<1> HIDE DEF f
<1>4. /\ f[0] = <<>>
      /\ \A k \in 1 .. 7 : f[k] = IF Codes[k] \in codes
                                  THEN Append(f[k - 1], new(k)) ELSE f[k - 1]
  <2>1. \A k \in 0 .. 7 : f[k] = IF k = 0 THEN <<>> ELSE IF Codes[k] \in codes
                                  THEN Append(f[k - 1], new(k)) ELSE f[k - 1]
    BY <1>3, Zenon DEF Making
  <2> HIDE DEF new
  <2> QED
    BY <2>1
<1>5. \A k \in 1 .. 7 : new(k) \in FindingType
  BY <1>2 DEF FindingType
<1> HIDE DEF new
<1>6. 0 \in S
  <2>1. <<>> \in Seq(FindingType)
    OBVIOUS
  <2> QED
    BY <1>4, <2>1
<1>7. ASSUME NEW m \in Nat, m \in S PROVE m + 1 \in S
  <2>1. SUFFICES ASSUME m + 1 <= 7 PROVE f[m + 1] \in Seq(FindingType)
    OBVIOUS
  <2>2. m <= 7 /\ m + 1 \in 1 .. 7 /\ (m + 1) - 1 = m
    BY <2>1
  <2>3. f[m] \in Seq(FindingType) /\ new(m + 1) \in FindingType
    BY <1>5, <1>7, <2>2
  <2>4. f[m + 1] = Append(f[m], new(m + 1)) \/ f[m + 1] = f[m]
    BY <1>4, <2>2
  <2>5. Append(f[m], new(m + 1)) \in Seq(FindingType)
    BY <2>3
  <2> QED
    BY <2>3, <2>4, <2>5
<1>8. 7 \in S
  <2> HIDE DEF S
  <2> QED
    BY <1>6, <1>7, EveryNatural
<1> QED
  BY <1>1, <1>2, <1>8

LEMMA NotingOneOwner ==
  ASSUME NEW buffer \in Seq(FindingType), NEW owner \in Seq(Nat), NEW index \in 1 .. MaxCount
  PROVE  NoteOwner(buffer, owner, index) \in Seq(FindingType)
<1> DEFINE noted == Noted(buffer, owner)
<1>1. CASE noted = {}
  <2>1. Finding(owner, index, {"UNSAFE_OWNER"}) \in Seq(FindingType)
    BY FindingsAreFindings
  <2>2. buffer \o Finding(owner, index, {"UNSAFE_OWNER"}) \in Seq(FindingType)
    BY <2>1
  <2> QED
    BY <1>1, <2>2 DEF NoteOwner
<1>2. CASE noted # {}
  <2> DEFINE k == CHOOSE n \in noted : \A m \in noted : n <= m
             x == IF index < buffer[k].index THEN index ELSE buffer[k].index
  <2>1. noted \subseteq DOMAIN buffer /\ noted \subseteq Nat
    BY DEF Noted
  <2>2. k \in noted
    <3>1. \E n \in noted : \A m \in noted : n <= m
      BY <1>2, <2>1, LeastNatural
    <3> QED
      BY <3>1
  <2>3. NoteOwner(buffer, owner, index) = [buffer EXCEPT ![k].index = x]
    BY <1>2 DEF NoteOwner
  <2>4. k \in 1 .. Len(buffer)
    BY <2>1, <2>2
  <2> HIDE DEF k
  <2>5. buffer[k] \in FindingType
    BY <2>4
  <2>6. [buffer[k] EXCEPT !.index = x] \in FindingType
    BY <2>5 DEF FindingType
  <2>7. [buffer EXCEPT ![k] = [buffer[k] EXCEPT !.index = x]] \in Seq(FindingType)
    <3> DEFINE y == [buffer[k] EXCEPT !.index = x]
    <3> HIDE DEF y
    <3> SUFFICES [buffer EXCEPT ![k] = y] \in Seq(FindingType)
      BY DEF y
    <3>1. y \in FindingType
      BY <2>6 DEF y
    <3> QED
      BY <2>4, <3>1
  <2> QED
    BY <2>3, <2>7
<1> QED
  BY <1>1, <1>2

(* The findings after each of the owners. *)
Noting(f, buffer, owners, index, n) ==
  f = [m \in 0 .. n |-> IF m = 0 THEN buffer ELSE NoteOwner(f[m - 1], owners[m], index)]

LEMMA NotingIsPossible ==
  ASSUME NEW buffer, NEW owners, NEW index, NEW n \in Nat
  PROVE  \E f : Noting(f, buffer, owners, index, n)
<1> DEFINE S == {m \in Nat : \E f : Noting(f, buffer, owners, index, m)}
<1>1. 0 \in S
  <2>1. Noting([m \in {0} |-> buffer], buffer, owners, index, 0)
    <3>1. 0 .. 0 = {0}
      OBVIOUS
    <3> QED
      BY <3>1 DEF Noting
  <2> QED
    BY <2>1
<1>2. ASSUME NEW m \in S PROVE m + 1 \in S
  <2>1. PICK f : Noting(f, buffer, owners, index, m)
    OBVIOUS
  <2> DEFINE next(l) ==
        IF l = 0 THEN buffer ELSE NoteOwner(f[l - 1], owners[l], index)
      g == [l \in 0 .. m + 1 |-> next(l)]
  <2>2. f = [l \in 0 .. m |-> IF l = 0 THEN buffer ELSE NoteOwner(f[l - 1], owners[l], index)]
    BY <2>1 DEF Noting
  <2>3. \A l \in 0 .. m : f[l] = next(l) /\ g[l] = next(l)
    BY <2>2
  <2>4. \A l \in 0 .. m + 1 : l # 0 => l - 1 \in 0 .. m
    BY <1>2
  <2>5. ASSUME NEW l \in 0 .. m + 1, l # 0 PROVE f[l - 1] = g[l - 1]
    <3>1. l - 1 \in 0 .. m
      BY <2>4, <2>5
    <3> HIDE DEF g, next
    <3> QED
      BY <2>3, <3>1
  <2>6. g = [l \in 0 .. m + 1 |->
               IF l = 0 THEN buffer ELSE NoteOwner(g[l - 1], owners[l], index)]
    <3> DEFINE other(l) == IF l = 0 THEN buffer ELSE NoteOwner(g[l - 1], owners[l], index)
    <3>1. \A l \in 0 .. m + 1 : next(l) = other(l)
      BY <2>5
    <3>2. g = [l \in 0 .. m + 1 |-> next(l)]
      OBVIOUS
    <3> HIDE DEF g, next
    <3> QED
      BY <3>1, <3>2
  <2> HIDE DEF g
  <2>7. Noting(g, buffer, owners, index, m + 1)
    BY <2>6 DEF Noting
  <2> QED
    BY <1>2, <2>7
<1> HIDE DEF S
<1>3. n \in S
  BY <1>1, <1>2, EveryNatural
<1> QED
  BY <1>3 DEF S

LEMMA NotingOwners ==
  ASSUME NEW buffer \in Seq(FindingType), NEW o \in Outcome, NEW index \in 1 .. MaxCount
  PROVE  NoteOwners(buffer, o, index) \in Seq(FindingType)
<1> DEFINE n == Len(o.owners)
           f == CHOOSE g : Noting(g, buffer, o.owners, index, n)
<1>1. NoteOwners(buffer, o, index) = IF o.kind \in {"dir", "shut"} THEN f[n] ELSE buffer
  BY DEF NoteOwners, Noting
<1>2. n \in Nat /\ \A m \in 1 .. n : o.owners[m] \in Seq(Nat)
  BY DEF Outcome
<1>3. Noting(f, buffer, o.owners, index, n)
  <2>1. \E g : Noting(g, buffer, o.owners, index, n)
    BY <1>2, NotingIsPossible
  <2> QED
    BY <2>1
<1> HIDE DEF f
<1>4. f = [m \in 0 .. n |-> IF m = 0 THEN buffer ELSE NoteOwner(f[m - 1], o.owners[m], index)]
  BY <1>3 DEF Noting
<1>5. /\ f[0] = buffer
      /\ \A m \in 1 .. n : f[m] = NoteOwner(f[m - 1], o.owners[m], index)
  <2>1. \A m \in 0 .. n :
          f[m] = IF m = 0 THEN buffer ELSE NoteOwner(f[m - 1], o.owners[m], index)
    BY <1>4
  <2> QED
    BY <1>2, <2>1
<1> HIDE DEF n
<1> DEFINE S == {m \in Nat : m <= n => f[m] \in Seq(FindingType)}
<1>6. 0 \in S
  BY <1>5
<1>7. ASSUME NEW m \in Nat, m \in S PROVE m + 1 \in S
  <2>1. SUFFICES ASSUME m + 1 <= n PROVE f[m + 1] \in Seq(FindingType)
    OBVIOUS
  <2>2. m <= n /\ m + 1 \in 1 .. n /\ (m + 1) - 1 = m
    BY <1>2, <2>1
  <2>3. f[m] \in Seq(FindingType) /\ f[m + 1] = NoteOwner(f[m], o.owners[m + 1], index)
    BY <1>5, <1>7, <2>2
  <2> QED
    BY <1>2, <2>2, <2>3, NotingOneOwner
<1>8. n \in S
  <2> HIDE DEF S
  <2> QED
    BY <1>2, <1>6, <1>7, EveryNatural
<1>9. f[n] \in Seq(FindingType)
  BY <1>2, <1>8
<1> QED
  BY <1>1, <1>9

SeenInv == \A x \in DOMAIN fs : fs[x] \in Outcomes

TypesInv ==
  /\ fields \in Seq(Nat) /\ command \in Commands /\ SeenInv
  /\ pc \notin {"load", "done"} => Len(fields) <= MaxCount
  /\ pc \in {"split", "join"} => Len(roots) < i
  /\ pc = "entries" => i \in DOMAIN roots
  /\ TypeOK

LEMMA SeeingIsTyped ==
  ASSUME SeenInv, NEW text, NEW o \in Found(text), Looked(text, o)
  PROVE  o \in Outcome /\ SeenInv'
BY PathauditAssumption DEF SeenInv, Found, Looked

(* A failure keeps the types. *)
LEMMA FailKeepsTypes ==
  ASSUME TypesInv, NEW why, why # "none", Fail(why), SeenInv'
  PROVE  TypesInv'
<1>1. /\ pc' = "done" /\ status' = 2 /\ reason' = why
      /\ UNCHANGED <<fields, command, roots, i, j, left, findings, winners, shadows, matches,
                     seen_match>>
  BY DEF Fail, invocation, loops, tables, query
<1> QED
  BY <1>1 DEF TypesInv, TypeOK

(* So does a step that adds nothing. *)
LEMMA QuietKeepsTypes ==
  ASSUME TypesInv, SeenInv',
         UNCHANGED <<fields, command, roots, findings, winners, shadows, matches, seen_match,
                     status, reason>>,
         i' \in Nat, j' \in Nat, left' \subseteq Commands,
         pc' \in {"load", "done"} \/ pc \notin {"load", "done"},
         pc' \notin {"split", "join"},
         pc' = "entries" => i' \in DOMAIN roots
  PROVE  TypesInv'
BY DEF TypesInv, TypeOK

LEMMA OneFieldIsAText ==
  ASSUME fields \in Seq(Nat), NEW k \in 1 .. Len(fields)
  PROVE  TextOf(k, k) \in Seq(Nat)
<1>1. k \in k .. Len(fields)
  OBVIOUS
<1> QED
  BY <1>1, TextsAreTexts

LEMMA NothingIsRefused ==
  ASSUME fields \in Seq(Nat), Refusal = "none"
  PROVE  Len(fields) <= MaxCount
<1>1. ~TooMany
  BY DEF Refusal
<1> QED
  BY <1>1, PathauditAssumption DEF TooMany

LEMMA TypesLoad ==
  ASSUME TypesInv, SplitInv, Load
  PROVE  TypesInv'
<1>1. /\ pc = "load" /\ fields \in Seq(Nat) /\ UNCHANGED fs
      /\ roots = <<>> /\ i = 1 /\ command \in Commands
  BY DEF Load, disk, TypesInv, SplitInv
<1>2. SeenInv'
  BY <1>1 DEF SeenInv, TypesInv
<1>3. CASE \E why : why # "none" /\ Fail(why)
  BY <1>2, <1>3, FailKeepsTypes
<1>4. CASE /\ Refusal = "none" /\ pc' = "split"
           /\ UNCHANGED <<invocation, tied, roots, loops, left, findings, tables, query, result>>
  <2>1. /\ UNCHANGED <<fields, command, roots, i, j, left, findings, winners, shadows, matches,
                       seen_match, status, reason>>
        /\ Len(fields) <= MaxCount /\ Len(roots) = 0
    BY <1>1, <1>4, NothingIsRefused DEF invocation, loops, tables, query, result
  <2> QED
    BY <1>1, <1>2, <1>4, <2>1 DEF TypesInv, TypeOK
<1>5. CASE /\ Refusal = "none" /\ pc' = "classify"
           /\ roots' = Sorted([k \in DOMAIN fields |->
                                 [text |-> TextOf(k, k), index |-> k, at |-> k]],
                              RootBefore)
           /\ UNCHANGED <<invocation, tied, loops, left, findings, tables, query, result>>
  <2> DEFINE n == Len(fields)
             root(k) == [text |-> TextOf(k, k), index |-> k, at |-> k]
             s == [k \in DOMAIN fields |-> root(k)]
  <2>1. n \in Nat /\ n <= MaxCount /\ DOMAIN fields = 1 .. n
    BY <1>1, <1>5, NothingIsRefused
  <2>2. ASSUME NEW k \in 1 .. n PROVE root(k) \in RootType
    <3>1. TextOf(k, k) \in Seq(Nat)
      BY <1>1, OneFieldIsAText
    <3>2. k \in 1 .. MaxCount /\ k \in Nat
      BY <2>1, PathauditAssumption
    <3> QED
      BY <3>1, <3>2 DEF RootType
  <2> HIDE DEF root
  <2>3. DOMAIN s = 1 .. n /\ \A k \in 1 .. n : s[k] \in RootType
    BY <2>1, <2>2
  <2>4. \A k \in 1 .. n : s[k].text \in Seq(Nat) /\ s[k].index \in Nat
    BY <2>3 DEF RootType
  <2>5. roots' = Sorted(s, RootBefore)
    BY <1>5 DEF root
  <2> HIDE DEF s
  <2>6. PICK p : Permuted(s, roots', n, p)
    BY <2>1, <2>3, <2>4, <2>5, RootsAreSorted
  <2>7. roots' \in Seq(RootType)
    <3>1. DOMAIN roots' = 1 .. n /\ \A r \in 1 .. n : roots'[r] \in RootType
      BY <2>3, <2>6 DEF Permuted
    <3>2. roots' = [r \in 1 .. n |-> roots'[r]]
      BY <2>1, <2>3, <2>4, <2>5, RootsAreSorted
    <3> QED
      BY <2>1, <3>1, <3>2
  <2>8. /\ UNCHANGED <<fields, command, i, j, left, findings, winners, shadows, matches,
                       seen_match, status, reason>>
    BY <1>5 DEF invocation, loops, tables, query, result
  <2> QED
    BY <1>1, <1>2, <1>5, <2>1, <2>7, <2>8 DEF TypesInv, TypeOK, RootType
<1> QED
  BY <1>3, <1>4, <1>5 DEF Load, OutOfMemory

(* One more component. *)
LEMMA ComponentsAreTyped ==
  ASSUME TypesInv, pc \in {"split", "join"}, i \in 1 .. Len(fields),
         NEW text \in Seq(Nat), roots' = Component(text), i' \in Nat, i < i', j' \in Nat,
         pc' = "split", SeenInv',
         UNCHANGED <<fields, command, left, findings, winners, shadows, matches, seen_match,
                     status, reason>>
  PROVE  TypesInv'
<1>1. /\ roots \in Seq(RootType) /\ Len(roots) < i /\ Len(fields) <= MaxCount
      /\ Len(roots) \in Nat /\ i \in Nat /\ Len(fields) \in Nat /\ MaxCount \in Nat
  BY PathauditAssumption, SMTT(30) DEF TypesInv, TypeOK, RootType
<1> DEFINE new == [text |-> text, index |-> Len(roots) + 1, at |-> i]
<1>2. new \in RootType
  BY <1>1 DEF RootType
<1> HIDE DEF new
<1>3. roots' = Append(roots, new)
  BY DEF Component, new
<1>4. roots' \in Seq(RootType) /\ Len(roots') = Len(roots) + 1
  BY <1>1, <1>2, <1>3
<1>5. Len(roots') < i'
  BY <1>1, <1>4
<1> QED
  BY <1>1, <1>4, <1>5 DEF TypesInv, TypeOK, RootType

LEMMA TypesSplit ==
  ASSUME TypesInv, SplitInv, Split \/ Join
  PROVE  TypesInv'
<1>1. /\ pc \in {"split", "join"} /\ mode # "roots" /\ fields \in Seq(Nat) /\ i \in Nat
      /\ UNCHANGED <<fields, command, left, findings, winners, shadows, matches, seen_match,
                     status, reason>>
  BY DEF Split, Join, SplitInv, TypesInv, TypeOK, invocation, tables, query, result
<1>2. CASE Split
  <2>1. pc = "split" /\ i \in 1 .. Len(fields)
    BY <1>1, <1>2 DEF Split
  <2>2. TextOf(i, i) \in Seq(Nat) /\ <<>> \in Seq(Nat) /\ i + 1 \in Nat /\ i < i + 1
    BY <1>1, <2>1, OneFieldIsAText
  <2>3. CASE /\ roots' = Component(<<>>) /\ i' = i + 1 /\ UNCHANGED <<pc, j, fs>>
    <3>1. SeenInv' /\ j' \in Nat
      BY <2>3 DEF TypesInv, TypeOK, SeenInv
    <3> QED
      BY <1>1, <2>1, <2>2, <2>3, <3>1, ComponentsAreTyped
  <2>4. ASSUME NEW o \in Found(TextOf(i, i)), Looked(TextOf(i, i), o)
        PROVE  SeenInv'
    BY <2>4, SeeingIsTyped DEF TypesInv
  <2>5. CASE /\ SeenInv' /\ roots' = Component(TextOf(i, i)) /\ i' = i + 1 /\ UNCHANGED <<pc, j>>
    <3>1. j' \in Nat
      BY <2>5 DEF TypesInv, TypeOK
    <3> QED
      BY <1>1, <2>1, <2>2, <2>5, <3>1, ComponentsAreTyped
  <2>6. CASE SeenInv' /\ pc' = "join" /\ j' = i /\ UNCHANGED <<i, roots>>
    BY <1>1, <2>1, <2>6 DEF TypesInv, TypeOK
  <2> QED
    BY <1>2, <2>3, <2>4, <2>5, <2>6 DEF Split
<1>3. CASE Join
  <2>1. pc = "join" /\ j \in i .. Len(fields) /\ i \in 1 .. Len(fields) /\ fields[i] # Empty
    BY <1>1, <1>3 DEF Join, SplitInv, ComponentsInv, JoinInv
  <2>2. j \in Nat /\ TextOf(i, i) \in Seq(Nat)
    BY <1>1, <2>1, OneFieldIsAText
  <2>3. CASE SeenInv' /\ \E last : GiveUp(last)
    <3>1. /\ roots' = Component(TextOf(i, i)) /\ i' = i + 1 /\ pc' = "split" /\ UNCHANGED j
      BY <2>3 DEF GiveUp
    <3> QED
      BY <1>1, <2>1, <2>2, <2>3, <3>1, ComponentsAreTyped
  <2>4. CASE /\ SeenInv' /\ j # Len(fields) /\ j' = j + 1 /\ UNCHANGED <<pc, i, roots>>
    BY <1>1, <2>1, <2>2, <2>4 DEF TypesInv, TypeOK
  <2>5. CASE /\ SeenInv' /\ j # Len(fields) /\ roots' = Component(TextOf(i, j + 1))
             /\ i' = j + 2 /\ pc' = "split" /\ UNCHANGED j
    <3>1. j + 1 \in i .. Len(fields) /\ j + 2 \in Nat /\ i < j + 2
      BY <1>1, <2>1, <2>2, <2>5
    <3>2. TextOf(i, j + 1) \in Seq(Nat)
      BY <1>1, <2>1, <3>1, TextsAreTexts
    <3> QED
      BY <1>1, <2>1, <2>2, <2>5, <3>1, <3>2, ComponentsAreTyped
  <2>6. ASSUME NEW o \in Found(TextOf(i, j + 1)), Looked(TextOf(i, j + 1), o)
        PROVE  SeenInv'
    BY <2>6, SeeingIsTyped DEF TypesInv
  <2>7. UNCHANGED fs => SeenInv'
    BY DEF TypesInv, SeenInv
  <2> QED
    BY <1>3, <2>3, <2>4, <2>5, <2>6, <2>7 DEF Join
<1> QED
  BY <1>2, <1>3

LEMMA TypesClassify ==
  ASSUME TypesInv, Classify
  PROVE  TypesInv'
<1> DEFINE root == roots[i]
<1>1. /\ pc = "classify" /\ i \in DOMAIN roots /\ findings \in Seq(FindingType)
      /\ roots \in Seq(RootType) /\ SeenInv
  BY DEF Classify, TypesInv, TypeOK, RootType, FindingType, CodeSet
<1>2. root.text \in Seq(Nat) /\ root.index \in 1 .. MaxCount
  <2>1. root \in RootType
    BY <1>1
  <2> HIDE DEF root
  <2> QED
    BY <2>1 DEF RootType
<1>3. CASE /\ findings' \in Seq(FindingType) /\ SeenInv' /\ i' = i + 1
           /\ UNCHANGED <<invocation, pc, tied, roots, j, left, tables, query, result>>
  BY <1>1, <1>3 DEF TypesInv, TypeOK, FindingType, CodeSet, invocation, tables, query, result
<1>4. CASE /\ root.text = <<>>
           /\ findings' = findings \o Finding(<<>>, root.index, {"EMPTY_ROOT"})
           /\ i' = i + 1
           /\ UNCHANGED <<invocation, pc, tied, roots, j, fs, left, tables, query, result>>
  <2>1. Finding(<<>>, root.index, {"EMPTY_ROOT"}) \in Seq(FindingType)
    BY <1>2, <1>4, FindingsAreFindings
  <2>2. findings' \in Seq(FindingType)
    BY <1>1, <1>4, <2>1
  <2>3. SeenInv'
    BY <1>1, <1>4 DEF SeenInv
  <2> QED
    BY <1>3, <1>4, <2>2, <2>3
<1>5. ASSUME NEW o \in Found(root.text), Looked(root.text, o),
             Fail("INSPECTION_ERROR")
      PROVE  TypesInv'
  BY <1>1, <1>5, SeeingIsTyped, FailKeepsTypes
<1>6. ASSUME NEW o \in Found(root.text), Looked(root.text, o),
             LET direct == findings
                             \o Finding(root.text, root.index, DirectoryCodes(root.text, o))
             IN  findings' = IF mode = "path" THEN NoteOwners(direct, o, root.index) ELSE direct,
             i' = i + 1,
             UNCHANGED <<invocation, pc, tied, roots, j, left, tables, query, result>>
      PROVE  TypesInv'
  <2> DEFINE codes == DirectoryCodes(root.text, o)
             direct == findings \o Finding(root.text, root.index, codes)
  <2>1. o \in Outcome /\ SeenInv'
    BY <1>1, <1>6, SeeingIsTyped
  <2>2. Finding(root.text, root.index, codes) \in Seq(FindingType)
    BY <1>2, FindingsAreFindings
  <2>3. direct \in Seq(FindingType)
    BY <1>1, <2>2
  <2>4. findings' = direct \/ findings' = NoteOwners(direct, o, root.index)
    BY <1>6
  <2> HIDE DEF direct, codes
  <2>5. findings' \in Seq(FindingType)
    BY <1>2, <2>1, <2>3, <2>4, NotingOwners
  <2> QED
    BY <1>3, <1>6, <2>1, <2>5
<1> QED
  BY <1>4, <1>5, <1>6 DEF Classify

(* A text that is the realpath of an executable. *)
LEMMA RealpathsAreTexts ==
  ASSUME NEW e \in Realpaths
  PROVE  e \in Seq(Nat) /\ e \in Seq(Paths)
<1>1. PICK p \in Paths : e = <<p>>
  BY DEF Realpaths
<1>2. p \in Nat
  BY PathauditAssumption
<1> QED
  BY <1>1, <1>2

LEMMA TypesQuery ==
  ASSUME TypesInv, TablesInv, Query
  PROVE  TypesInv'
<1> DEFINE root == roots[i]
<1>1. /\ pc = "query" /\ i \in DOMAIN roots /\ findings \in Seq(FindingType)
      /\ roots \in Seq(RootType) /\ SeenInv /\ ExeInv /\ matches \in Seq(Seq(Paths))
  BY DEF Query, TypesInv, TypeOK, RootType, FindingType, CodeSet, TablesInv
<1>2. root.text \in Seq(Nat) /\ root.index \in 1 .. MaxCount
  <2>1. root \in RootType
    BY <1>1
  <2> HIDE DEF root
  <2> QED
    BY <2>1 DEF RootType
<1> DEFINE Step(o, e) ==
        /\ Looked(root.text, o)
        /\ IF Unsafe(e) \/ o.kind = "error"
           THEN Fail("INSPECTION_ERROR")
           ELSE /\ LET direct == findings
                         \o Finding(root.text, root.index, QueryCodes(root.text, o, e))
                       owned == IF Applicable(e)
                                THEN NoteOwners(direct, o, root.index) ELSE direct
                   IN  findings' = IF Match(e)
                                   THEN owned \o TrustFindings(e, root.index) ELSE owned
                /\ matches' = IF Match(e) THEN Append(matches, e) ELSE matches
                /\ seen_match' = (seen_match \/ Match(e))
                /\ i' = i + 1
                /\ UNCHANGED <<invocation, pc, tied, roots, j, left, tables, result>>
<1>3. PICK o \in Found(root.text) :
        \E e \in Candidate(root.text, o, command) : Step(o, e)
  BY DEF Query
<1>8. PICK e \in Candidate(root.text, o, command) : Step(o, e)
  BY <1>3
<1>4. o \in Outcome /\ SeenInv'
  BY <1>1, <1>8, SeeingIsTyped
<1>5. Match(e) => e \in Realpaths
  BY <1>1, CandidatesAreKnown DEF Match
<1>6. CASE Fail("INSPECTION_ERROR")
  BY <1>4, <1>6, FailKeepsTypes
<1>7. CASE ~(Unsafe(e) \/ o.kind = "error")
  <2> DEFINE codes == QueryCodes(root.text, o, e)
             direct == findings \o Finding(root.text, root.index, codes)
             owned == IF Applicable(e) THEN NoteOwners(direct, o, root.index) ELSE direct
  <2>1. /\ findings' = (IF Match(e) THEN owned \o TrustFindings(e, root.index) ELSE owned)
        /\ matches' = (IF Match(e) THEN Append(matches, e) ELSE matches)
        /\ seen_match' = (seen_match \/ Match(e)) /\ i' = i + 1
        /\ UNCHANGED <<invocation, pc, tied, roots, j, left, tables, result>>
    BY <1>7, <1>8
  <2>2. Finding(root.text, root.index, codes) \in Seq(FindingType)
    BY <1>2, FindingsAreFindings
  <2>3. direct \in Seq(FindingType)
    BY <1>1, <2>2
  <2> HIDE DEF direct
  <2>4. owned \in Seq(FindingType)
    BY <1>2, <1>4, <2>3, NotingOwners
  <2> HIDE DEF owned
  <2>5. findings' \in Seq(FindingType)
    <3>1. CASE ~Match(e)
      BY <2>1, <2>4, <3>1
    <3>2. CASE Match(e)
      <4>1. e \in Seq(Nat)
        BY <1>5, <3>2, RealpathsAreTexts
      <4>2. TrustFindings(e, root.index) \in Seq(FindingType)
        BY <1>2, <4>1, FindingsAreFindings DEF TrustFindings
      <4> QED
        BY <2>1, <2>4, <3>2, <4>2
    <3> QED
      BY <3>1, <3>2
  <2>6. matches' \in Seq(Seq(Paths)) /\ seen_match' = (matches' # <<>>)
    <3>1. seen_match = (matches # <<>>)
      BY DEF TypesInv, TypeOK
    <3>2. CASE ~Match(e)
      BY <1>1, <2>1, <3>1, <3>2
    <3>3. CASE Match(e)
      <4>1. e \in Seq(Paths)
        BY <1>5, <3>3, RealpathsAreTexts
      <4>2. Append(matches, e) \in Seq(Seq(Paths)) /\ Append(matches, e) # <<>>
        <5> DEFINE T == Seq(Paths)
        <5>1. matches \in Seq(T) /\ e \in T
          BY <1>1, <4>1
        <5> HIDE DEF T
        <5>2. Append(matches, e) \in Seq(T) /\ Append(matches, e) # <<>>
          BY <5>1
        <5> QED
          BY <5>2 DEF T
      <4> QED
        BY <2>1, <3>1, <3>3, <4>2
    <3> QED
      BY <3>2, <3>3
  <2>7. /\ UNCHANGED <<fields, command, pc, roots, j, left, winners, shadows, status, reason>>
        /\ i' = i + 1
    BY <2>1 DEF invocation, tables, result
  <2> HIDE DEF root, codes
  <2> QED
    BY <1>1, <1>4, <2>5, <2>6, <2>7 DEF TypesInv, TypeOK, FindingType, CodeSet
<1> QED
  BY <1>6, <1>7, <1>8

WinnerType == [command : Commands, path : Seq(Paths)]
ShadowType == [command : Commands, winner : Seq(Paths), shadow : Seq(Paths), index : 1 .. MaxCount]

LEMMA HitsAreTyped ==
  ASSUME TypesInv, TablesInv, windex # Refused, NEW c \in Commands, NEW e \in Realpaths,
         NEW index \in 1 .. MaxCount, RecordHit(c, e, index)
  PROVE  winners' \in Seq(WinnerType) /\ shadows' \in Seq(ShadowType)
<1> DEFINE w == WinnerOf(c)
<1>1. winners \in Seq(WinnerType) /\ shadows \in Seq(ShadowType) /\ WinnersInv
  BY DEF TypesInv, TypeOK, WinnerType, ShadowType, TablesInv
<1>2. e \in Seq(Paths)
  BY RealpathsAreTexts
<1>3. CASE NewWinner(c, e)
  <2>1. [command |-> c, path |-> e] \in WinnerType
    BY <1>2 DEF WinnerType
  <2>2. winners' = Append(winners, [command |-> c, path |-> e]) /\ UNCHANGED shadows
    BY <1>3 DEF NewWinner
  <2> QED
    BY <1>1, <2>1, <2>2
<1>4. CASE UNCHANGED tables
  BY <1>1, <1>4 DEF tables
<1>5. CASE w # Vacant /\ NewShadow(c, winners[w].path, e, index)
  <2>1. w \in DOMAIN winners
    BY <1>1, <1>5, WinnersAreFound
  <2> HIDE DEF w
  <2>2. winners[w].path \in Seq(Paths)
    <3>1. winners[w] \in WinnerType
      BY <1>1, <2>1
    <3> QED
      BY <3>1 DEF WinnerType
  <2> DEFINE new == [command |-> c, winner |-> winners[w].path, shadow |-> e, index |-> index]
  <2>3. new \in ShadowType
    BY <1>2, <2>2 DEF ShadowType
  <2>4. shadows' = Append(shadows, new) /\ UNCHANGED winners
    BY <1>5 DEF NewShadow
  <2> QED
    BY <1>1, <2>3, <2>4
<1> QED
  BY <1>3, <1>4, <1>5 DEF RecordHit

LEMMA TypesEntry ==
  ASSUME TypesInv, TablesInv, NEW c \in Commands, ScanEntry(c)
  PROVE  TypesInv'
<1> DEFINE root == roots[i]
<1>1. /\ pc = "entries" /\ i \in DOMAIN roots /\ findings \in Seq(FindingType) /\ roots \in Seq(RootType)
      /\ SeenInv' /\ ExeInv /\ windex # Refused
      /\ winners \in Seq(WinnerType) /\ shadows \in Seq(ShadowType)
  BY DEF ScanEntry, TypesInv, TypeOK, FindingType, CodeSet, RootType, WinnerType, ShadowType,
     TablesInv, SeenInv
<1>2. root.text \in Seq(Nat) /\ root.index \in 1 .. MaxCount
  <2>1. root \in RootType
    BY <1>1
  <2> HIDE DEF root
  <2> QED
    BY <2>1 DEF RootType
<1>3. PICK e \in Candidate(root.text, fs[root.text], c) :
        \/ Fail("INSPECTION_ERROR")
        \/ /\ left' = left \ {c}
           /\ IF Match(e)
              THEN /\ findings' = findings \o TrustFindings(e, root.index)
                   /\ RecordHit(c, e, root.index)
              ELSE UNCHANGED <<findings, tables>>
           /\ IF Refused \in {windex', shindex'}
              THEN pc' = "done" /\ status' = 2 /\ reason' = "OUT_OF_MEMORY"
              ELSE UNCHANGED <<pc, status, reason>>
           /\ UNCHANGED <<invocation, tied, roots, loops, query, out>>
  BY DEF ScanEntry
<1>4. CASE Fail("INSPECTION_ERROR")
  BY <1>1, <1>4, FailKeepsTypes
<1>5. CASE /\ left' = left \ {c}
           /\ IF Match(e)
              THEN /\ findings' = findings \o TrustFindings(e, root.index)
                   /\ RecordHit(c, e, root.index)
              ELSE UNCHANGED <<findings, tables>>
           /\ IF Refused \in {windex', shindex'}
              THEN pc' = "done" /\ status' = 2 /\ reason' = "OUT_OF_MEMORY"
              ELSE UNCHANGED <<pc, status, reason>>
           /\ UNCHANGED <<invocation, tied, roots, loops, query, out>>
  <2>1. /\ findings' \in Seq(FindingType)
        /\ winners' \in Seq(WinnerType) /\ shadows' \in Seq(ShadowType)
    <3>1. CASE ~Match(e)
      BY <1>1, <1>5, <3>1 DEF tables
    <3>2. CASE Match(e)
      <4>1. e \in Realpaths
        BY <1>1, <3>2, CandidatesAreKnown DEF Match
      <4>2. TrustFindings(e, root.index) \in Seq(FindingType)
        BY <1>2, <4>1, RealpathsAreTexts, FindingsAreFindings DEF TrustFindings
      <4>3. winners' \in Seq(WinnerType) /\ shadows' \in Seq(ShadowType)
        BY <1>1, <1>2, <1>5, <3>2, <4>1, HitsAreTyped
      <4>4. findings' = findings \o TrustFindings(e, root.index)
        BY <1>5, <3>2
      <4>5. findings' \in Seq(FindingType)
        BY <1>1, <4>2, <4>4
      <4> QED
        BY <4>3, <4>5
    <3> QED
      BY <3>1, <3>2
  <2>2. /\ UNCHANGED <<fields, command, roots, i, j, matches, seen_match>>
        /\ left' = left \ {c}
        /\ \/ pc' = "done" /\ status' = 2 /\ reason' = "OUT_OF_MEMORY"
           \/ UNCHANGED <<pc, status, reason>>
    BY <1>5 DEF invocation, loops, query
  <2> QED
    BY <1>1, <2>1, <2>2 DEF TypesInv, TypeOK, FindingType, CodeSet, WinnerType, ShadowType
<1> QED
  BY <1>3, <1>4, <1>5

LEMMA TypesSort ==
  ASSUME TypesInv, Sort
  PROVE  TypesInv'
<1>1. /\ findings \in Seq(FindingType) /\ shadows \in Seq(ShadowType) /\ pc = "sort"
      /\ findings' = Sorted(findings, FindingBefore) /\ shadows' = Sorted(shadows, ShadowBefore)
      /\ pc' = "emit" /\ SeenInv'
      /\ UNCHANGED <<fields, command, roots, i, j, left, winners, matches, seen_match, status,
                     reason>>
  BY DEF Sort, TypesInv, TypeOK, FindingType, CodeSet, ShadowType, invocation, loops, disk,
     query, result, SeenInv
<1>2. findings' \in Seq(FindingType)
  <2> DEFINE n == Len(findings)
  <2>1. n \in Nat /\ DOMAIN findings = 1 .. n /\ \A k \in 1 .. n : findings[k] \in FindingType
    BY <1>1
  <2>2. \A k \in 1 .. n : /\ findings[k].root \in Seq(Nat) /\ findings[k].index \in Nat
                          /\ findings[k].code \in CodeSet
    BY <2>1 DEF FindingType
  <2> HIDE DEF n
  <2>3. /\ findings' = [r \in 1 .. n |-> findings'[r]]
        /\ \E p : Permuted(findings, findings', n, p)
    BY <1>1, <2>1, <2>2, FindingsAreSorted
  <2>4. \A r \in 1 .. n : findings'[r] \in FindingType
    BY <2>1, <2>3 DEF Permuted
  <2>5. [r \in 1 .. n |-> findings'[r]] \in Seq(FindingType)
    BY <2>1, <2>4
  <2> QED
    BY <2>3, <2>5
<1>3. shadows' \in Seq(ShadowType)
  <2> DEFINE n == Len(shadows)
  <2>1. n \in Nat /\ DOMAIN shadows = 1 .. n /\ \A k \in 1 .. n : shadows[k] \in ShadowType
    BY <1>1
  <2> HIDE DEF n
  <2>2. ASSUME NEW k \in 1 .. n PROVE shadows[k].command \in Nat /\ shadows[k].index \in Nat
    <3>1. shadows[k] \in ShadowType
      BY <2>1
    <3>2. shadows[k].command \in Commands /\ shadows[k].index \in 1 .. MaxCount
      BY <3>1 DEF ShadowType
    <3>3. Commands \subseteq Nat /\ MaxCount \in Nat
      BY PathauditAssumption
    <3> DEFINE x == shadows[k].index
               y == shadows[k].command
    <3>4. x \in Nat /\ y \in Nat
      <4>1. x \in 1 .. MaxCount /\ y \in Commands
        BY <3>2
      <4> HIDE DEF x, y
      <4> QED
        BY <3>3, <4>1
    <3> QED
      BY <3>4
  <2>3. /\ shadows' = [r \in 1 .. n |-> shadows'[r]]
        /\ \E p : Permuted(shadows, shadows', n, p)
    BY <1>1, <2>1, <2>2, ShadowsAreSorted
  <2>4. \A r \in 1 .. n : shadows'[r] \in ShadowType
    BY <2>1, <2>3 DEF Permuted
  <2>5. [r \in 1 .. n |-> shadows'[r]] \in Seq(ShadowType)
    BY <2>1, <2>4
  <2> QED
    BY <2>3, <2>5
<1> QED
  BY <1>1, <1>2, <1>3 DEF TypesInv, TypeOK, FindingType, CodeSet, ShadowType

LEMMA TypesInvAlways == Spec => []TypesInv
<1>1. Init => TypesInv
  <2>1. SUFFICES ASSUME Init PROVE TypesInv
    OBVIOUS
  <2>2. fields \in Seq(Nat) /\ command \in Commands /\ pc = "load"
    BY <2>1, PathauditAssumption DEF Init
  <2>3. SeenInv
    BY <2>1 DEF Init, SeenInv
  <2>4. /\ roots = <<>> /\ findings = <<>> /\ winners = <<>> /\ shadows = <<>> /\ matches = <<>>
        /\ i = 1 /\ j = 1 /\ left = {} /\ seen_match = FALSE /\ status = 0 /\ reason = "none"
    BY <2>1 DEF Init
  <2>5. TypeOK
    <3>1. \A S : <<>> \in Seq(S)
      OBVIOUS
    <3>2. seen_match = (matches # <<>>) /\ (status = 2) = (reason # "none")
      <4>1. ~(matches # <<>>) /\ ~(status = 2) /\ ~(reason # "none") /\ ~seen_match
        BY <2>4
      <4>2. seen_match = FALSE
        BY <2>4
      <4> QED
        BY <4>1, <4>2, Zenon
    <3>3. i \in Nat /\ j \in Nat /\ left \subseteq Commands /\ status \in {0, 1, 2}
      BY <2>4
    <3> QED
      BY <2>4, <3>1, <3>2, <3>3, Zenon DEF TypeOK
  <2> QED
    BY <2>2, <2>3, <2>5 DEF TypesInv
<1>2. TypesInv /\ SplitInv /\ TablesInv /\ RejectInv /\ [Next]_vars => TypesInv'
  <2>1. SUFFICES ASSUME TypesInv, SplitInv, TablesInv, RejectInv, [Next]_vars PROVE TypesInv'
    OBVIOUS
  <2>2. i \in Nat /\ j \in Nat /\ left \subseteq Commands /\ SeenInv
    BY <2>1 DEF TypesInv, TypeOK
  <2>3. UNCHANGED fs => SeenInv'
    BY <2>2 DEF SeenInv
  <2>4. CASE SplitEnds \/ ClassifyEnds \/ QueryEnds \/ ScanOpen \/ AllScanned
    <3>1. /\ UNCHANGED <<fields, command, roots, findings, winners, shadows, matches,
                         seen_match, status, reason, fs>>
          /\ i' \in {1, i, i + 1} /\ j' = j /\ left' \in {left, Commands}
          /\ pc \notin {"load", "done"} /\ pc' \notin {"split", "join"}
          /\ pc' = "entries" => i' \in DOMAIN roots
      BY <2>4 DEF SplitEnds, ClassifyEnds, QueryEnds, ScanOpen, AllScanned, invocation, loops,
         disk, tables, query, result
    <3>2. i' \in Nat /\ j' \in Nat /\ left' \subseteq Commands
      BY <2>2, <3>1
    <3> QED
      BY <2>1, <2>3, <3>1, <3>2, QuietKeepsTypes
  <2>5. CASE NoMemory
    <3>1. SeenInv' /\ Fail("OUT_OF_MEMORY")
      BY <2>3, <2>5 DEF NoMemory, OutOfMemory, disk
    <3> QED
      BY <2>1, <3>1, FailKeepsTypes
  <2>6. CASE ScanEnds
    <3>1. CASE Fail("INSPECTION_ERROR") /\ UNCHANGED disk
      BY <2>1, <2>3, <3>1, FailKeepsTypes DEF disk
    <3>2. CASE /\ left = {} /\ pc = "entries" /\ pc' = "scan" /\ i' = i + 1
               /\ UNCHANGED <<invocation, tied, roots, j, disk, left, findings, tables, query,
                              result>>
      <4>1. UNCHANGED <<fields, command, roots, findings, winners, shadows, matches,
                        seen_match, status, reason, fs, j, left>>
        BY <3>2 DEF invocation, disk, tables, query, result
      <4>2. i' \in Nat
        BY <2>2, <3>2
      <4> QED
        BY <2>1, <2>2, <2>3, <3>2, <4>1, <4>2, QuietKeepsTypes
    <3> QED
      BY <2>6, <3>1, <3>2 DEF ScanEnds
  <2>7. CASE Emit
    <3>1. /\ UNCHANGED <<fields, command, roots, findings, winners, shadows, matches,
                         seen_match, i, j, left, fs>>
          /\ pc = "emit" /\ pc' = "done"
          /\ \/ status' \in {0, 1} /\ reason' = reason
             \/ status' = 2 /\ reason' = "STDOUT_WRITE"
      BY <2>7 DEF Emit, invocation, loops, disk, tables, query
    <3>2. status = 0
      BY <2>1, <3>1 DEF RejectInv
    <3>3. status' \in {0, 1, 2} /\ (status' = 2) = (reason' # "none")
      <4>1. reason = "none"
        BY <2>1, <3>2 DEF TypesInv, TypeOK
      <4> QED
        BY <3>1, <4>1
    <3> QED
      BY <2>1, <2>3, <3>1, <3>3 DEF TypesInv, TypeOK
  <2>8. CASE Terminated \/ UNCHANGED vars
    <3>1. UNCHANGED <<fields, command, roots, findings, winners, shadows, matches,
                      seen_match, i, j, left, fs, pc, status, reason>>
      BY <2>8 DEF Terminated, vars, invocation, loops, disk, tables, query, result
    <3> QED
      BY <2>1, <2>3, <3>1 DEF TypesInv, TypeOK
  <2> QED
    BY <2>1, <2>4, <2>5, <2>6, <2>7, <2>8, TypesLoad, TypesSplit, TypesClassify, TypesQuery,
       TypesEntry, TypesSort DEF Next
<1> QED
  BY <1>1, <1>2, SplitInvAlways, TablesInvAlways, RejectInvAlways, PTL DEF Spec

(* The variables keep their types: no index exceeds the limit of the       *)
(* components, each finding is about a text and has a code of the contract,*)
(* and a status 2 has its reason.                                          *)
THEOREM TypesAreKept == Spec => []TypeOK
<1>1. TypesInv => TypeOK
  BY DEF TypesInv
<1> QED
  BY <1>1, TypesInvAlways, PTL

-----------------------------------------------------------------------------
(* The winners and the shadows of what was found so far.  A history gives, *)
(* for each command, what each component showed of it.                     *)

Least(S, m) == m \in S /\ \A r \in S : m <= r

Showing(h, e) == {r \in DOMAIN h : h[r] = e}

IsWinner(h, e) == \E m : Least(DOMAIN h, m) /\ h[m] = e

IsShadow(h, s) ==
  Least(Showing(h, s.shadow), s.index) /\ IsWinner(h, s.winner) /\ s.winner # s.shadow

(* What a component showed is the winner or a shadow. *)
IsTold(ws, ss, c, e) ==
  \E w \in DOMAIN ws :
    /\ ws[w].command = c
    /\ ws[w].path = e \/ \E n \in DOMAIN ss : ss[n].command = c /\ ss[n].shadow = e

Agrees(ws, ss, g) ==
  /\ \A w \in DOMAIN ws : ws[w].command \in Commands /\ IsWinner(g[ws[w].command], ws[w].path)
  /\ \A n \in DOMAIN ss : ss[n].command \in Commands /\ IsShadow(g[ss[n].command], ss[n])
  /\ \A c \in Commands : \A r \in DOMAIN g[c] : IsTold(ws, ss, c, g[c][r])

Once(ss) ==
  \A m, n \in DOMAIN ss :
    ss[m].command = ss[n].command /\ ss[m].shadow = ss[n].shadow => m = n

(* One component more. *)
Longer(h, h2, k, e) ==
  /\ DOMAIN h2 = DOMAIN h \cup {k} /\ h2[k] = e
  /\ \A r \in DOMAIN h : h2[r] = h[r] /\ r \in Nat /\ r < k
  /\ k \in Nat

LEMMA WinnersStay ==
  ASSUME NEW h, NEW h2, NEW k, NEW e, Longer(h, h2, k, e), NEW d, IsWinner(h, d)
  PROVE  IsWinner(h2, d)
<1>1. PICK m : Least(DOMAIN h, m) /\ h[m] = d
  BY DEF IsWinner
<1>2. m \in DOMAIN h2 /\ h2[m] = d /\ m < k
  BY <1>1 DEF Longer, Least
<1>3. ASSUME NEW r \in DOMAIN h2 PROVE m <= r
  <2>1. m \in Nat /\ k \in Nat /\ m \in DOMAIN h
    BY <1>1 DEF Longer, Least
  <2>2. CASE r \in DOMAIN h
    BY <1>1, <2>2 DEF Least
  <2>3. CASE r = k
    BY <1>2, <2>1, <2>3
  <2> QED
    BY <2>2, <2>3 DEF Longer
<1> QED
  BY <1>2, <1>3 DEF IsWinner, Least

LEMMA ShadowsStay ==
  ASSUME NEW h, NEW h2, NEW k, NEW e, Longer(h, h2, k, e), NEW s, IsShadow(h, s)
  PROVE  IsShadow(h2, s)
<1>1. IsWinner(h2, s.winner) /\ s.winner # s.shadow
  BY WinnersStay DEF IsShadow
<1>2. Least(Showing(h, s.shadow), s.index)
  BY DEF IsShadow
<1>3. s.index \in DOMAIN h /\ h[s.index] = s.shadow
  BY <1>2 DEF Least, Showing
<1>4. s.index \in DOMAIN h2 /\ h2[s.index] = s.shadow /\ s.index < k /\ s.index \in Nat /\ k \in Nat
  BY <1>3 DEF Longer
<1>5. ASSUME NEW r \in Showing(h2, s.shadow) PROVE s.index <= r
  <2>1. r \in DOMAIN h \/ r = k
    BY DEF Longer, Showing
  <2>2. CASE r \in DOMAIN h
    <3>1. r \in Showing(h, s.shadow)
      BY <2>2 DEF Longer, Showing
    <3> QED
      BY <1>2, <3>1 DEF Least
  <2>3. CASE r = k
    BY <1>4, <2>3
  <2> QED
    BY <2>1, <2>2, <2>3
<1>6. Least(Showing(h2, s.shadow), s.index)
  BY <1>4, <1>5 DEF Least, Showing
<1> QED
  BY <1>1, <1>6 DEF IsShadow

(* One component more, of one command. *)
Extends(g, g2, c, k, e) ==
  /\ Longer(g[c], g2[c], k, e)
  /\ \A d \in Commands \ {c} : g2[d] = g[d]

LEMMA AgreementStays ==
  ASSUME NEW ws, NEW ss, NEW g, Agrees(ws, ss, g), NEW c \in Commands, NEW g2, NEW k, NEW e,
         Extends(g, g2, c, k, e)
  PROVE  /\ \A w \in DOMAIN ws : /\ ws[w].command \in Commands
                                 /\ IsWinner(g2[ws[w].command], ws[w].path)
         /\ \A n \in DOMAIN ss : /\ ss[n].command \in Commands
                                 /\ IsShadow(g2[ss[n].command], ss[n])
<1>1. ASSUME NEW d \in Commands, NEW p, IsWinner(g[d], p) PROVE IsWinner(g2[d], p)
  <2>1. CASE d = c
    BY <1>1, <2>1, WinnersStay DEF Extends
  <2>2. CASE d # c
    BY <1>1, <2>2 DEF Extends
  <2> QED
    BY <2>1, <2>2
<1>2. ASSUME NEW d \in Commands, NEW s, IsShadow(g[d], s) PROVE IsShadow(g2[d], s)
  <2>1. CASE d = c
    BY <1>2, <2>1, ShadowsStay DEF Extends
  <2>2. CASE d # c
    BY <1>2, <2>2 DEF Extends
  <2> QED
    BY <2>1, <2>2
<1> QED
  BY <1>1, <1>2 DEF Agrees

(* It showed what is told already. *)
LEMMA ToldAgain ==
  ASSUME NEW ws, NEW ss, NEW g, Agrees(ws, ss, g), NEW c \in Commands, NEW g2, NEW k, NEW e,
         Extends(g, g2, c, k, e), IsTold(ws, ss, c, e)
  PROVE  Agrees(ws, ss, g2)
<1>1. ASSUME NEW d \in Commands, NEW r \in DOMAIN g2[d] PROVE IsTold(ws, ss, d, g2[d][r])
  <2>1. CASE d # c
    BY <2>1 DEF Extends, Agrees
  <2>2. CASE d = c /\ r = k
    BY <2>2 DEF Extends, Longer
  <2>3. CASE d = c /\ r \in DOMAIN g[c]
    <3>1. g2[c][r] = g[c][r]
      BY <2>3 DEF Extends, Longer
    <3> QED
      BY <2>3, <3>1 DEF Agrees
  <2> QED
    BY <2>1, <2>2, <2>3 DEF Extends, Longer
<1> QED
  BY <1>1, AgreementStays DEF Agrees

(* One item more. *)
Longest(s, s2, x) ==
  \E n : /\ n \notin DOMAIN s /\ DOMAIN s2 = DOMAIN s \cup {n} /\ s2[n] = x
         /\ \A m \in DOMAIN s : s2[m] = s[m]

LEMMA ToldFirst ==
  ASSUME NEW ws, NEW ss, NEW g, Agrees(ws, ss, g), NEW c \in Commands, NEW g2, NEW k, NEW e,
         Extends(g, g2, c, k, e), \A w \in DOMAIN ws : ws[w].command # c,
         NEW ws2, NEW x, Longest(ws, ws2, x), x.command = c, x.path = e
  PROVE  Agrees(ws2, ss, g2)
<1>1. PICK n : /\ n \notin DOMAIN ws /\ DOMAIN ws2 = DOMAIN ws \cup {n} /\ ws2[n] = x
               /\ \A m \in DOMAIN ws : ws2[m] = ws[m]
  BY DEF Longest
<1>2. DOMAIN g[c] = {}
  BY DEF Agrees, IsTold
<1>3. Longer(g[c], g2[c], k, e)
  BY DEF Extends
<1>4. DOMAIN g2[c] = {k} /\ g2[c][k] = e /\ k \in Nat
  BY <1>2, <1>3 DEF Longer
<1>5. IsWinner(g2[c], e)
  BY <1>4 DEF IsWinner, Least
<1>6. /\ \A w \in DOMAIN ws : /\ ws[w].command \in Commands
                              /\ IsWinner(g2[ws[w].command], ws[w].path)
      /\ \A m \in DOMAIN ss : /\ ss[m].command \in Commands
                              /\ IsShadow(g2[ss[m].command], ss[m])
  BY AgreementStays
<1>7. \A w \in DOMAIN ws2 : /\ ws2[w].command \in Commands
                            /\ IsWinner(g2[ws2[w].command], ws2[w].path)
  BY <1>1, <1>5, <1>6
<1>8. ASSUME NEW d \in Commands, NEW r \in DOMAIN g2[d] PROVE IsTold(ws2, ss, d, g2[d][r])
  <2>1. CASE d # c
    <3>1. r \in DOMAIN g[d] /\ g2[d][r] = g[d][r]
      BY <2>1 DEF Extends
    <3>2. IsTold(ws, ss, d, g[d][r])
      BY <3>1 DEF Agrees
    <3> QED
      BY <1>1, <3>1, <3>2 DEF IsTold
  <2>2. CASE d = c
    BY <1>1, <1>4, <2>2 DEF IsTold
  <2> QED
    BY <2>1, <2>2
<1> QED
  BY <1>6, <1>7, <1>8 DEF Agrees

LEMMA ToldAsAShadow ==
  ASSUME NEW ws, NEW ss, NEW g, Agrees(ws, ss, g), NEW c \in Commands, NEW g2, NEW k, NEW e,
         Extends(g, g2, c, k, e), ~IsTold(ws, ss, c, e),
         NEW w \in DOMAIN ws, ws[w].command = c,
         NEW ss2, NEW x, Longest(ss, ss2, x),
         x.command = c, x.winner = ws[w].path, x.shadow = e, x.index = k
  PROVE  Agrees(ws, ss2, g2)
<1>1. PICK n : /\ n \notin DOMAIN ss /\ DOMAIN ss2 = DOMAIN ss \cup {n} /\ ss2[n] = x
               /\ \A m \in DOMAIN ss : ss2[m] = ss[m]
  BY DEF Longest
<1>2. /\ \A v \in DOMAIN ws : /\ ws[v].command \in Commands
                              /\ IsWinner(g2[ws[v].command], ws[v].path)
      /\ \A m \in DOMAIN ss : /\ ss[m].command \in Commands
                              /\ IsShadow(g2[ss[m].command], ss[m])
  BY AgreementStays
<1>3. Longer(g[c], g2[c], k, e)
  BY DEF Extends
<1>4. \A r \in DOMAIN g[c] : g[c][r] # e
  BY DEF Agrees
<1>5. Showing(g2[c], e) = {k} /\ k \in Nat
  BY <1>3, <1>4 DEF Longer, Showing
<1>6. Least(Showing(g2[c], e), k)
  BY <1>5 DEF Least
<1>7. ws[w].path # e
  BY DEF IsTold
<1>8. IsShadow(g2[c], x)
  BY <1>2, <1>6, <1>7 DEF IsShadow
<1>9. \A m \in DOMAIN ss2 : ss2[m].command \in Commands /\ IsShadow(g2[ss2[m].command], ss2[m])
  BY <1>1, <1>2, <1>8
<1>10. ASSUME NEW d \in Commands, NEW r \in DOMAIN g2[d] PROVE IsTold(ws, ss2, d, g2[d][r])
  <2>1. ASSUME IsTold(ws, ss, d, g2[d][r]) PROVE IsTold(ws, ss2, d, g2[d][r])
    BY <1>1, <2>1 DEF IsTold
  <2>2. CASE d # c
    BY <2>1, <2>2 DEF Extends, Agrees
  <2>3. CASE d = c /\ r = k
    <3>1. g2[d][r] = e
      BY <1>3, <2>3 DEF Longer
    <3> QED
      BY <1>1, <2>3, <3>1 DEF IsTold
  <2>4. CASE d = c /\ r \in DOMAIN g[c]
    <3>1. g2[c][r] = g[c][r]
      BY <1>3, <2>4 DEF Longer
    <3> QED
      BY <2>1, <2>4, <3>1 DEF Agrees
  <2> QED
    BY <1>3, <2>2, <2>3, <2>4 DEF Longer
<1> QED
  BY <1>2, <1>9, <1>10 DEF Agrees

(* What is told does not depend on the order of the shadows. *)
LEMMA SortingKeepsAgreement ==
  ASSUME NEW ws, NEW ss, NEW g, Agrees(ws, ss, g), Once(ss), NEW n, DOMAIN ss = 1 .. n,
         NEW ss2, NEW p, Permuted(ss, ss2, n, p)
  PROVE  Agrees(ws, ss2, g) /\ Once(ss2)
<1>1. /\ DOMAIN ss2 = 1 .. n
      /\ \A r \in 1 .. n : ss2[r] = ss[p[r]] /\ p[r] \in 1 .. n
      /\ \A q, r \in 1 .. n : p[q] = p[r] => q = r
      /\ \A k \in 1 .. n : \E r \in 1 .. n : p[r] = k
  BY DEF Permuted
<1>2. Once(ss2)
  <2>1. SUFFICES ASSUME NEW q \in 1 .. n, NEW r \in 1 .. n,
                        ss2[q].command = ss2[r].command, ss2[q].shadow = ss2[r].shadow
                 PROVE  q = r
    BY <1>1 DEF Once
  <2>2. /\ ss2[q] = ss[p[q]] /\ ss2[r] = ss[p[r]]
        /\ p[q] \in DOMAIN ss /\ p[r] \in DOMAIN ss
    BY <1>1
  <2>3. p[q] = p[r]
    BY <2>1, <2>2 DEF Once
  <2> QED
    BY <1>1, <2>3
<1>3. \A m \in DOMAIN ss2 : ss2[m].command \in Commands /\ IsShadow(g[ss2[m].command], ss2[m])
  BY <1>1 DEF Agrees
<1>4. ASSUME NEW d \in Commands, NEW r \in DOMAIN g[d] PROVE IsTold(ws, ss2, d, g[d][r])
  <2>1. IsTold(ws, ss, d, g[d][r])
    BY DEF Agrees
  <2>2. \A m \in DOMAIN ss : \E q \in DOMAIN ss2 : ss2[q] = ss[m]
    BY <1>1
  <2> QED
    BY <2>1, <2>2 DEF IsTold
<1> QED
  BY <1>2, <1>3, <1>4 DEF Agrees

-----------------------------------------------------------------------------
(* The scan. *)

Visited(c) ==
  {r \in DOMAIN roots : Scanned(r) /\ (r < i \/ (r = i /\ pc = "entries" /\ c \notin left))}
Seen(c) == {r \in Visited(c) : Match(Hit(r, c))}
History == [c \in Commands |-> [r \in Seen(c) |-> Hit(r, c)]]

Scanning == pc \in {"scan", "entries", "sort", "emit"} \/ Completed

InPlace(ss) == \A q, r \in DOMAIN ss : q < r => ~ShadowBefore(ss[r], ss[q])

AuditInv ==
  mode = "path" =>
    /\ matches = <<>> /\ pc # "query"
    /\ pc \in {"load", "split", "join", "classify"} => winners = <<>> /\ shadows = <<>>
    /\ Scanning =>
         /\ \A c \in Commands : \A r \in Visited(c) : <<roots[r].text, c>> \in DOMAIN exe
         /\ Agrees(winners, shadows, History) /\ Once(shadows)
    /\ pc = "entries" => Scanned(i)
    /\ pc \in {"sort", "emit"} \/ Completed => \A r \in DOMAIN roots : r < i
    /\ pc = "emit" \/ Completed => InPlace(shadows)
    /\ Completed => out = Lines

(* Nothing is told of nothing. *)
LEMMA NothingToTell ==
  ASSUME NEW g, \A c \in Commands : DOMAIN g[c] = {}
  PROVE  Agrees(<<>>, <<>>, g) /\ Once(<<>>)
BY DEF Agrees, Once

(* A failure ends the audit. *)
LEMMA FailKeepsAudit ==
  ASSUME AuditInv, NEW why, Fail(why)
  PROVE  AuditInv'
<1>1. /\ pc' = "done" /\ status' = 2 /\ UNCHANGED <<mode, matches>>
  BY DEF Fail, invocation, query
<1> QED
  BY <1>1 DEF AuditInv, Completed, Scanning

(* What was visited stays so, while nothing new is looked at. *)
LEMMA VisitsStay ==
  ASSUME UNCHANGED <<roots, fs, exe>>,
         \A c \in Commands : \A r \in DOMAIN roots :
           Scanned(r) => ((r < i \/ (r = i /\ pc = "entries" /\ c \notin left))
                            <=> (r < i' \/ (r = i' /\ pc' = "entries" /\ c \notin left')))
  PROVE  (\A c \in Commands : Visited(c)' = Visited(c)) /\ History' = History
<1>1. \A r : Scanned(r)' <=> Scanned(r)
  BY DEF Scanned
<1>2. \A r, c : Hit(r, c)' = Hit(r, c)
  BY DEF Hit
<1>3. ASSUME NEW c \in Commands PROVE Visited(c)' = Visited(c)
  BY <1>1 DEF Visited
<1>4. ASSUME NEW c \in Commands PROVE Seen(c)' = Seen(c)
  BY <1>2, <1>3 DEF Seen
<1>5. History' = History
  BY <1>2, <1>4 DEF History
<1> QED
  BY <1>3, <1>5

(* The step that visits one more entry. *)
LEMMA VisitsGrow ==
  ASSUME mode = "path", AuditInv, pc = "entries", i \in DOMAIN roots, DOMAIN roots \subseteq Nat,
         NEW c \in Commands, c \in left, NEW o, NEW e \in Candidate(roots[i].text, o, c),
         Tried(roots[i].text, c, e),
         UNCHANGED <<pc, roots, fs, i>>, left' = left \ {c}
  PROVE  /\ \A d \in Commands : \A r \in Visited(d)' : <<roots'[r].text, d>> \in DOMAIN exe'
         /\ ~Match(e) => History' = History
         /\ Match(e) => Extends(History, History', c, i, e)
<1> DEFINE key == <<roots[i].text, c>>
<1>1. /\ DOMAIN exe' = DOMAIN exe \cup {key} /\ exe'[key] = e
      /\ \A x \in DOMAIN exe : x # key => exe'[x] = exe[x]
      /\ key \in DOMAIN exe => exe[key] = e
  BY DEF Tried, Candidate
<1>2. \A r : Scanned(r)' <=> Scanned(r)
  BY DEF Scanned
<1>3. \A d \in Commands : \A r \in Visited(d) : <<roots[r].text, d>> \in DOMAIN exe
  BY DEF AuditInv, Scanning
<1>4. ASSUME NEW d \in Commands, NEW r \in Visited(d) PROVE Hit(r, d)' = Hit(r, d)
  BY <1>1, <1>3 DEF Hit
<1>5. ASSUME NEW d \in Commands \ {c} PROVE Visited(d)' = Visited(d)
  BY <1>2 DEF Visited
<1>6. Visited(c)' = Visited(c) \cup {i} /\ i \notin Visited(c)
  BY <1>2 DEF Visited, AuditInv
<1>7. Hit(i, c)' = e
  BY <1>1 DEF Hit
<1>8. ASSUME NEW d \in Commands \ {c} PROVE Seen(d)' = Seen(d)
  BY <1>4, <1>5 DEF Seen
<1>9. Seen(c)' = Seen(c) \cup (IF Match(e) THEN {i} ELSE {})
  BY <1>4, <1>6, <1>7 DEF Seen
<1>10. ASSUME NEW d \in Commands, NEW r \in Visited(d)'
       PROVE  <<roots'[r].text, d>> \in DOMAIN exe'
  <2>1. CASE r \in Visited(d)
    BY <1>1, <1>3, <2>1
  <2>2. CASE d = c /\ r = i
    BY <1>1, <2>2
  <2> QED
    BY <1>5, <1>6, <1>10, <2>1, <2>2
<1>11. ASSUME NEW d \in Commands, NEW r \in Seen(d) PROVE Hit(r, d)' = Hit(r, d)
  BY <1>4 DEF Seen
<1>12. ASSUME NEW d \in Commands \ {c} PROVE History'[d] = History[d]
  BY <1>8, <1>11 DEF History
<1>13. CASE ~Match(e)
  <2>1. \A d \in Commands : Seen(d)' = Seen(d)
    BY <1>8, <1>9, <1>13
  <2>2. History' = History
    BY <1>11, <2>1 DEF History
  <2> QED
    BY <1>10, <1>13, <2>2
<1>14. CASE Match(e)
  <2>1. Longer(History[c], History'[c], i, e)
    <3>1. DOMAIN History[c] = Seen(c) /\ \A r \in Seen(c) : History[c][r] = Hit(r, c)
      BY DEF History
    <3>2. DOMAIN History'[c] = Seen(c)' /\ \A r \in Seen(c)' : History'[c][r] = Hit(r, c)'
      BY DEF History
    <3>3. Seen(c)' = Seen(c) \cup {i}
      BY <1>9, <1>14
    <3>4. \A r \in Seen(c) : r \in Nat /\ r < i
      BY DEF Seen, Visited
    <3>5. i \in Nat
      OBVIOUS
    <3> QED
      BY <1>7, <1>11, <3>1, <3>2, <3>3, <3>4, <3>5 DEF Longer
  <2> QED
    BY <1>10, <1>12, <1>14, <2>1 DEF Extends
<1> QED
  BY <1>13, <1>14

(* What is recorded is there. *)
LEMMA RecordedIsThere ==
  ASSUME ShadowsInv, shindex # Refused, NEW c \in Commands, NEW e \in Realpaths, NEW w,
         Recorded(c, w, e)
  PROVE  \E n \in DOMAIN shadows : shadows[n].command = c /\ shadows[n].shadow = e
<1> DEFINE keys == ShadowKeys(shadows)
           same == {n \in DOMAIN shadows : /\ shadows[n].command = c
                                           /\ shadows[n].winner = w /\ shadows[n].shadow = e}
<1>1. Lookup(shindex, <<c, e[1]>>, same) # Vacant
  BY DEF Recorded
<1>2. IsIndex(shindex, keys) /\ Hash(<<c, e[1]>>) \in Nat /\ Len(keys) \in Nat
  BY LengthOfKeys, KeysHaveHashes DEF ShadowsInv
<1> HIDE DEF keys
<1>3. CASE shindex = NoTable
  BY <1>1, <1>3 DEF NoTable, Lookup
<1>4. CASE IsTable(shindex, keys, Len(keys)) /\ 0 < Len(keys) /\ Len(keys) <= shindex.cap \div 2
  <2>1. Len(keys) < shindex.cap
    BY <1>2, <1>4 DEF IsTable
  <2> HIDE DEF same
  <2>2. Lookup(shindex, <<c, e[1]>>, same) \in same \cup {Vacant}
    BY <1>2, <1>4, <2>1, LookupAnswers
  <2>3. same # {}
    BY <1>1, <2>2
  <2> QED
    BY <2>3 DEF same
<1> QED
  BY <1>2, <1>3, <1>4 DEF IsIndex

LEMMA AppendingIsLonger ==
  ASSUME NEW s, IsSequence(s), NEW x
  PROVE  Longest(s, Append(s, x), x)
<1>1. /\ IsSequence(Append(s, x)) /\ Len(Append(s, x)) = Len(s) + 1
      /\ Append(s, x)[Len(s) + 1] = x
      /\ \A n \in 1 .. Len(s) : Append(s, x)[n] = s[n]
  BY AppendingToASequence
<1>2. /\ Len(s) \in Nat /\ DOMAIN s = 1 .. Len(s)
      /\ DOMAIN Append(s, x) = 1 .. Len(Append(s, x))
  BY <1>1, LengthOfKeys
<1>3. /\ Len(s) + 1 \notin DOMAIN s
      /\ DOMAIN Append(s, x) = DOMAIN s \cup {Len(s) + 1}
  BY <1>1, <1>2
<1> QED
  BY <1>1, <1>2, <1>3 DEF Longest

(* A hit is told once. *)
LEMMA HitsAreTold ==
  ASSUME TablesInv, pc = "entries", Agrees(winners, shadows, History),
         NEW c \in Commands, NEW e \in Realpaths, RecordHit(c, e, i),
         Extends(History, History', c, i, e)
  PROVE  Agrees(winners', shadows', History')
<1> DEFINE w == WinnerOf(c)
<1>1. WinnersInv /\ ShadowsInv /\ windex # Refused /\ shindex # Refused
  BY DEF TablesInv
<1>2. CASE w = Vacant /\ NewWinner(c, e)
  <2> DEFINE x == [command |-> c, path |-> e]
  <2>1. winners' = Append(winners, x) /\ UNCHANGED shadows
    BY <1>2 DEF NewWinner
  <2>2. \A n \in DOMAIN winners : winners[n].command # c
    BY <1>1, <1>2, WinnersAreFound
  <2>3. x.command = c /\ x.path = e
    OBVIOUS
  <2> HIDE DEF x, w
  <2>4. Longest(winners, winners', x)
    BY <1>1, <2>1, AppendingIsLonger DEF WinnersInv
  <2>5. Agrees(winners', shadows, History')
    BY <2>2, <2>3, <2>4, ToldFirst
  <2> QED
    BY <2>1, <2>5
<1>3. CASE w # Vacant
  <2>1. w \in DOMAIN winners /\ winners[w].command = c
    BY <1>1, <1>3, WinnersAreFound
  <2>2. CASE (winners[w].path = e \/ Recorded(c, winners[w].path, e)) /\ UNCHANGED tables
    <3>1. UNCHANGED <<winners, shadows>>
      BY <2>2 DEF tables
    <3>2. IsTold(winners, shadows, c, e)
      <4> HIDE DEF w
      <4>1. \/ winners[w].path = e
            \/ \E n \in DOMAIN shadows : shadows[n].command = c /\ shadows[n].shadow = e
        BY <1>1, <2>2, RecordedIsThere
      <4> QED
        BY <2>1, <4>1 DEF IsTold
    <3>3. Agrees(winners, shadows, History')
      BY <3>2, ToldAgain
    <3> QED
      BY <3>1, <3>3
  <2>3. CASE /\ winners[w].path # e /\ ~Recorded(c, winners[w].path, e)
             /\ NewShadow(c, winners[w].path, e, i)
    <3> DEFINE x == [command |-> c, winner |-> winners[w].path, shadow |-> e, index |-> i]
    <3>1. shadows' = Append(shadows, x) /\ UNCHANGED winners
      BY <2>3 DEF NewShadow
    <3>2. x.command = c /\ x.winner = winners[w].path /\ x.shadow = e /\ x.index = i
      OBVIOUS
    <3> HIDE DEF x, w
    <3>3. Longest(shadows, shadows', x)
      BY <1>1, <3>1, AppendingIsLonger DEF ShadowsInv
    <3>4. \A n \in DOMAIN shadows : ~(shadows[n].command = c /\ shadows[n].shadow = e)
      BY <1>1, <2>1, <2>3, ShadowsAreFound
    <3>5. ~IsTold(winners, shadows, c, e)
      <4>1. \A v \in DOMAIN winners : winners[v].command = c => v = w
        BY <1>1, <2>1 DEF WinnersInv
      <4> QED
        BY <2>3, <3>4, <4>1 DEF IsTold
    <3>6. Agrees(winners, shadows', History')
      BY <2>1, <3>2, <3>3, <3>5, ToldAsAShadow
    <3> QED
      BY <3>1, <3>6
  <2> QED
    BY <1>3, <2>2, <2>3 DEF RecordHit
<1> QED
  BY <1>2, <1>3 DEF RecordHit

LEMMA QuietKeepsAudit ==
  ASSUME AuditInv, mode = "path", pc \in {"scan", "entries"}, pc' \in {"scan", "entries", "sort"},
         UNCHANGED <<mode, roots, fs, exe, winners, shadows, matches>>,
         \A c \in Commands : \A r \in DOMAIN roots :
           Scanned(r) => ((r < i \/ (r = i /\ pc = "entries" /\ c \notin left))
                            <=> (r < i' \/ (r = i' /\ pc' = "entries" /\ c \notin left'))),
         pc' = "entries" => Scanned(i'),
         pc' = "sort" => \A r \in DOMAIN roots : r < i'
  PROVE  AuditInv'
<1>1. (\A c \in Commands : Visited(c)' = Visited(c)) /\ History' = History
  BY VisitsStay
<1>2. /\ \A c \in Commands : \A r \in Visited(c) : <<roots[r].text, c>> \in DOMAIN exe
      /\ Agrees(winners, shadows, History) /\ Once(shadows) /\ matches = <<>>
  BY DEF AuditInv, Scanning
<1>3. \A c \in Commands : \A r \in Visited(c)' : <<roots'[r].text, c>> \in DOMAIN exe'
  BY <1>1, <1>2
<1>4. Agrees(winners', shadows', History') /\ Once(shadows')
  BY <1>1, <1>2
<1>5. Scanned(i') => Scanned(i)'
  BY DEF Scanned
<1> QED
  BY <1>2, <1>3, <1>4, <1>5 DEF AuditInv, Completed, Scanning

LEMMA AuditScan ==
  ASSUME AuditInv, RejectInv, TypesInv, mode = "path", ScanOpen \/ ScanEnds \/ AllScanned
  PROVE  AuditInv'
<1>1. i \in Nat \ {0} /\ \E n \in Nat : DOMAIN roots = 1 .. n
  BY DEF RejectInv
<1>2. CASE ScanOpen
  <2>1. /\ pc = "scan" /\ pc' \in {"scan", "entries"}
        /\ UNCHANGED <<mode, roots, fs, exe, winners, shadows, matches>>
        /\ \/ Scanned(i) /\ pc' = "entries" /\ left' = Commands /\ i' = i
           \/ ~Scanned(i) /\ pc' = "scan" /\ i' = i + 1
    BY <1>2 DEF ScanOpen, Scanned, invocation, disk, tables, query
  <2>2. \A c \in Commands : \A r \in DOMAIN roots :
          Scanned(r) => ((r < i \/ (r = i /\ pc = "entries" /\ c \notin left))
                           <=> (r < i' \/ (r = i' /\ pc' = "entries" /\ c \notin left')))
    BY <1>1, <2>1
  <2> QED
    BY <2>1, <2>2, QuietKeepsAudit
<1>3. CASE ScanEnds
  <2>1. CASE Fail("INSPECTION_ERROR")
    BY <2>1, FailKeepsAudit
  <2>2. CASE /\ pc = "entries" /\ left = {} /\ pc' = "scan" /\ i' = i + 1
             /\ UNCHANGED <<invocation, tied, roots, j, disk, left, findings, tables, query,
                            result>>
    <3>1. UNCHANGED <<mode, roots, fs, exe, winners, shadows, matches>>
      BY <2>2 DEF invocation, disk, tables, query
    <3>2. \A c \in Commands : \A r \in DOMAIN roots :
            Scanned(r) => ((r < i \/ (r = i /\ pc = "entries" /\ c \notin left))
                             <=> (r < i' \/ (r = i' /\ pc' = "entries" /\ c \notin left')))
      BY <1>1, <2>2
    <3> QED
      BY <2>2, <3>1, <3>2, QuietKeepsAudit
  <2> QED
    BY <1>3, <2>1, <2>2 DEF ScanEnds
<1>4. CASE AllScanned
  <2>1. /\ pc = "scan" /\ pc' = "sort" /\ i \notin DOMAIN roots /\ UNCHANGED i
        /\ UNCHANGED <<mode, roots, fs, exe, winners, shadows, matches>>
    BY <1>4 DEF AllScanned, invocation, loops, disk, tables, query
  <2>2. \A r \in DOMAIN roots : r < i'
    BY <1>1, <2>1
  <2>3. \A c \in Commands : \A r \in DOMAIN roots :
          Scanned(r) => ((r < i \/ (r = i /\ pc = "entries" /\ c \notin left))
                           <=> (r < i' \/ (r = i' /\ pc' = "entries" /\ c \notin left')))
    BY <2>1
  <2> QED
    BY <2>1, <2>2, <2>3, QuietKeepsAudit
<1> QED
  BY <1>2, <1>3, <1>4

LEMMA AuditEntry ==
  ASSUME AuditInv, RejectInv, SplitInv, TablesInv, TablesInv', TypesInv, mode = "path",
         NEW c \in Commands, ScanEntry(c)
  PROVE  AuditInv'
<1> DEFINE root == roots[i]
<1>1. /\ pc = "entries" /\ c \in left /\ UNCHANGED fs /\ i \in DOMAIN roots /\ Scanned(i)
      /\ DOMAIN roots \subseteq Nat
  BY DEF ScanEntry, TypesInv, AuditInv, RejectInv
<1>2. root.index = i
  BY <1>1 DEF SplitInv, ComponentsInv, Piece
<1>3. /\ Agrees(winners, shadows, History) /\ Once(shadows) /\ matches = <<>>
  BY <1>1 DEF AuditInv, Scanning
<1>4. PICK e \in Candidate(root.text, fs[root.text], c) :
        /\ Tried(root.text, c, e)
        /\ \/ Fail("INSPECTION_ERROR")
           \/ /\ left' = left \ {c}
              /\ IF Match(e) THEN RecordHit(c, e, root.index) ELSE UNCHANGED tables
              /\ \/ pc' = "done" /\ status' = 2
                 \/ UNCHANGED pc
              /\ UNCHANGED <<invocation, tied, roots, loops, query, out>>
  BY DEF ScanEntry
<1>5. CASE Fail("INSPECTION_ERROR")
  BY <1>5, FailKeepsAudit
<1>6. CASE pc' = "done" /\ status' = 2 /\ UNCHANGED <<invocation, query>>
  BY <1>3, <1>6 DEF AuditInv, Completed, Scanning, invocation, query
<1>7. CASE /\ left' = left \ {c} /\ UNCHANGED <<pc, mode, roots, i, matches>>
           /\ IF Match(e) THEN RecordHit(c, e, i) ELSE UNCHANGED tables
  <2>1. /\ \A d \in Commands : \A r \in Visited(d)' : <<roots'[r].text, d>> \in DOMAIN exe'
        /\ ~Match(e) => History' = History
        /\ Match(e) => Extends(History, History', c, i, e)
    <3> HIDE DEF Visited
    <3> QED
      BY <1>1, <1>4, <1>7, VisitsGrow
  <2>2. Agrees(winners', shadows', History')
    <3>1. CASE ~Match(e)
      <4>1. UNCHANGED <<winners, shadows>>
        BY <1>7, <3>1 DEF tables
      <4> QED
        BY <1>3, <2>1, <3>1, <4>1
    <3>2. CASE Match(e)
      <4>1. e \in Realpaths
        BY <3>2, CandidatesAreKnown DEF Match, TablesInv
      <4> QED
        BY <1>1, <1>3, <1>7, <2>1, <3>2, <4>1, HitsAreTold
    <3> QED
      BY <3>1, <3>2
  <2>3. Once(shadows')
    BY <1>1, <1>7 DEF TablesInv, ShadowsInv, Once
  <2>4. Scanned(i)'
    BY <1>1, <1>7 DEF Scanned
  <2> QED
    BY <1>1, <1>3, <1>7, <2>1, <2>2, <2>3, <2>4 DEF AuditInv, Completed, Scanning
<1> QED
  BY <1>2, <1>4, <1>5, <1>6, <1>7 DEF invocation, loops, query

LEMMA AuditSort ==
  ASSUME AuditInv, TypesInv, mode = "path", Sort
  PROVE  AuditInv'
<1>1. /\ pc = "sort" /\ pc' = "emit" /\ shadows' = Sorted(shadows, ShadowBefore)
      /\ UNCHANGED <<mode, roots, fs, exe, winners, matches, i>>
  BY DEF Sort, invocation, loops, disk, query
<1>2. /\ \A c \in Commands : \A r \in Visited(c) : <<roots[r].text, c>> \in DOMAIN exe
      /\ Agrees(winners, shadows, History) /\ Once(shadows) /\ matches = <<>>
      /\ \A r \in DOMAIN roots : r < i
  BY <1>1 DEF AuditInv, Scanning
<1>3. (\A c \in Commands : Visited(c)' = Visited(c)) /\ History' = History
  <2>1. \A c \in Commands : \A r \in DOMAIN roots :
          Scanned(r) => ((r < i \/ (r = i /\ pc = "entries" /\ c \notin left))
                           <=> (r < i' \/ (r = i' /\ pc' = "entries" /\ c \notin left')))
    BY <1>1
  <2> QED
    BY <1>1, <2>1, VisitsStay
<1> DEFINE n == Len(shadows)
<1>4. /\ n \in Nat /\ DOMAIN shadows = 1 .. n
      /\ \A k \in 1 .. n : shadows[k] \in ShadowType
  <2>1. shadows \in Seq(ShadowType)
    BY DEF TypesInv, TypeOK, ShadowType
  <2> QED
    BY <2>1
<1> HIDE DEF n
<1>5. ASSUME NEW k \in 1 .. n PROVE shadows[k].command \in Nat /\ shadows[k].index \in Nat
  <2>1. shadows[k].command \in Commands /\ shadows[k].index \in 1 .. MaxCount
    BY <1>4 DEF ShadowType
  <2>2. Commands \subseteq Nat /\ MaxCount \in Nat
    BY PathauditAssumption
  <2> DEFINE x == shadows[k].index
  <2>3. x \in Nat
    <3>1. x \in 1 .. MaxCount
      BY <2>1
    <3> HIDE DEF x
    <3> QED
      BY <2>2, <3>1
  <2> QED
    BY <2>1, <2>2, <2>3
<1>6. PICK p : /\ Permuted(shadows, shadows', n, p)
               /\ \A q, r \in 1 .. n : q < r => ~ShadowBefore(shadows[p[r]], shadows[p[q]])
  BY <1>1, <1>4, <1>5, ShadowsAreSorted
<1>7. Agrees(winners, shadows', History) /\ Once(shadows')
  BY <1>2, <1>4, <1>6, SortingKeepsAgreement
<1>8. InPlace(shadows')
  <2>1. DOMAIN shadows' = 1 .. n /\ \A r \in 1 .. n : shadows'[r] = shadows[p[r]]
    BY <1>6 DEF Permuted
  <2> QED
    BY <1>6, <2>1 DEF InPlace
<1>9. \A c \in Commands : \A r \in Visited(c)' : <<roots'[r].text, c>> \in DOMAIN exe'
  BY <1>1, <1>2, <1>3
<1>10. Agrees(winners', shadows', History')
  BY <1>1, <1>3, <1>7
<1> QED
  BY <1>1, <1>2, <1>7, <1>8, <1>9, <1>10 DEF AuditInv, Completed, Scanning

LEMMA AuditEmit ==
  ASSUME AuditInv, RejectInv, mode = "path", Emit
  PROVE  AuditInv'
<1>1. /\ pc = "emit" /\ pc' = "done"
      /\ status' = 2 \/ out' = Lines
      /\ UNCHANGED <<mode, roots, fs, exe, winners, shadows, matches, findings, i, left>>
  BY DEF Emit, invocation, loops, disk, tables, query
<1>2. /\ \A c \in Commands : \A r \in Visited(c) : <<roots[r].text, c>> \in DOMAIN exe
      /\ Agrees(winners, shadows, History) /\ Once(shadows) /\ matches = <<>>
      /\ \A r \in DOMAIN roots : r < i
      /\ InPlace(shadows)
  BY <1>1 DEF AuditInv, Scanning
<1>3. (\A c \in Commands : Visited(c)' = Visited(c)) /\ History' = History
  <2>1. \A c \in Commands : \A r \in DOMAIN roots :
          Scanned(r) => ((r < i \/ (r = i /\ pc = "entries" /\ c \notin left))
                           <=> (r < i' \/ (r = i' /\ pc' = "entries" /\ c \notin left')))
    BY <1>1
  <2> QED
    BY <1>1, <2>1, VisitsStay
<1>4. \A c \in Commands : \A r \in Visited(c)' : <<roots'[r].text, c>> \in DOMAIN exe'
  BY <1>1, <1>2, <1>3
<1>5. Agrees(winners', shadows', History') /\ Once(shadows') /\ InPlace(shadows')
  BY <1>1, <1>2, <1>3
<1>6. status' # 2 => out' = Lines'
  BY <1>1 DEF Lines
<1> QED
  BY <1>1, <1>2, <1>4, <1>5, <1>6 DEF AuditInv, Completed, Scanning

LEMMA AuditInvAlways == Spec => []AuditInv
<1>1. Init => AuditInv
  BY DEF Init, AuditInv, Completed, Scanning
<1>2. /\ AuditInv /\ RejectInv /\ SplitInv /\ TablesInv /\ TablesInv' /\ TypesInv /\ [Next]_vars
      => AuditInv'
  <2>1. SUFFICES ASSUME AuditInv, RejectInv, SplitInv, TablesInv, TablesInv', TypesInv,
                        [Next]_vars
                 PROVE  AuditInv'
    OBVIOUS
  <2>2. mode' = mode
    BY <2>1, LaterSteps
       DEF Next, LaterActions, Load, Split, Join, SplitEnds, Terminated, vars, OutOfMemory, Fail,
           invocation
  <2>3. SUFFICES ASSUME mode = "path" PROVE AuditInv'
    BY <2>2 DEF AuditInv
  <2>4. CASE Load \/ Split \/ Join \/ SplitEnds \/ Classify
    <3>1. CASE \E why : Fail(why)
      BY <2>1, <3>1, FailKeepsAudit
    <3>2. CASE /\ pc \in {"load", "split", "join", "classify"}
               /\ pc' \in {"split", "join", "classify"}
               /\ UNCHANGED <<winners, shadows, matches>>
      BY <2>1, <2>2, <2>3, <3>2 DEF AuditInv, Completed, Scanning
    <3> QED
      BY <2>3, <2>4, <3>1, <3>2 DEF Load, Split, Join, GiveUp, SplitEnds, Classify, OutOfMemory,
         tables, query
  <2>5. CASE ClassifyEnds
    <3>1. /\ pc = "classify" /\ pc' = "scan" /\ i' = 1
          /\ UNCHANGED <<roots, winners, shadows, matches>>
      BY <2>3, <2>5 DEF ClassifyEnds, tables, query
    <3>2. winners = <<>> /\ shadows = <<>> /\ matches = <<>>
      BY <2>1, <2>3, <3>1 DEF AuditInv
    <3>3. \A r \in DOMAIN roots' : ~(r < i')
      BY <2>1, <3>1 DEF RejectInv
    <3>4. \A c : Visited(c)' = {}
      BY <3>1, <3>3 DEF Visited
    <3>5. \A c \in Commands : DOMAIN History'[c] = {}
      BY <3>4 DEF History, Seen
    <3>6. Agrees(winners', shadows', History') /\ Once(shadows')
      BY <3>1, <3>2, <3>5, NothingToTell, SMTT(30)
    <3> QED
      BY <3>1, <3>2, <3>4, <3>6 DEF AuditInv, Completed, Scanning
  <2>6. CASE NoMemory
    BY <2>1, <2>6, FailKeepsAudit DEF NoMemory, OutOfMemory
  <2>7. CASE Query \/ QueryEnds
    BY <2>1, <2>3, <2>7 DEF AuditInv, Query, QueryEnds
  <2>8. CASE Terminated \/ UNCHANGED vars
    <3>1. UNCHANGED <<mode, roots, fs, exe, winners, shadows, matches, findings, i, left, pc,
                      status, out>>
      BY <2>8 DEF Terminated, vars, invocation, loops, disk, tables, query, result
    <3>2. (\A c \in Commands : Visited(c)' = Visited(c)) /\ History' = History
      BY <3>1, VisitsStay
    <3>3. Lines' = Lines /\ Scanned(i)' = Scanned(i)
      BY <3>1 DEF Lines, Scanned
    <3>4. /\ Completed' = Completed /\ Scanning' = Scanning
      BY <3>1 DEF Completed, Scanning
    <3>5. Scanning => /\ \A c \in Commands : \A r \in Visited(c)' :
                           <<roots'[r].text, c>> \in DOMAIN exe'
                      /\ Agrees(winners', shadows', History') /\ Once(shadows')
      BY <2>1, <2>3, <3>1, <3>2 DEF AuditInv
    <3> QED
      BY <2>1, <3>1, <3>3, <3>4, <3>5 DEF AuditInv
  <2> QED
    BY <2>1, <2>3, <2>4, <2>5, <2>6, <2>7, <2>8, AuditScan, AuditEntry, AuditSort, AuditEmit
       DEF Next
<1> QED
  BY <1>1, <1>2, RejectInvAlways, SplitInvAlways, TablesInvAlways, TypesInvAlways, PTL DEF Spec

(* The first of a set of components. *)
LEMMA FirstIsLeast ==
  ASSUME NEW S, S \subseteq Nat, NEW m, Least(S, m)
  PROVE  First(S) = m
<1> DEFINE f == First(S)
<1>1. f \in S /\ \A s \in S : f <= s
  <2>1. \E r \in S : \A s \in S : r <= s
    BY DEF Least
  <2> QED
    BY <2>1 DEF First
<1> HIDE DEF f
<1>2. f <= m /\ m <= f /\ f \in Nat /\ m \in Nat
  BY <1>1 DEF Least
<1>3. f = m
  BY <1>2
<1> QED
  BY <1>3 DEF f

(* Of a completed run, the history is what the file system shows. *)
LEMMA HistoryIsAll ==
  ASSUME AuditInv, RejectInv, mode = "path", Completed, NEW c \in Commands
  PROVE  /\ DOMAIN History[c] = Hits(c) /\ Hits(c) \subseteq Nat
         /\ \A r \in Hits(c) : History[c][r] = Hit(r, c)
<1>1. \A r \in DOMAIN roots : r < i /\ r \in Nat
  BY DEF AuditInv, RejectInv
<1>2. Visited(c) = {r \in DOMAIN roots : Scanned(r)}
  BY <1>1 DEF Visited
<1>3. Seen(c) = Hits(c)
  BY <1>2 DEF Seen, Hits, Hit
<1> QED
  BY <1>1, <1>3 DEF History, Hits

LEMMA WinnersAreFirst ==
  ASSUME AuditInv, RejectInv, mode = "path", Completed, NEW c \in Commands, NEW e,
         IsWinner(History[c], e)
  PROVE  e = Hit(First(Hits(c)), c) /\ First(Hits(c)) \in Hits(c)
<1>1. PICK m : Least(DOMAIN History[c], m) /\ History[c][m] = e
  BY DEF IsWinner
<1>2. /\ DOMAIN History[c] = Hits(c) /\ Hits(c) \subseteq Nat
      /\ \A r \in Hits(c) : History[c][r] = Hit(r, c)
  BY HistoryIsAll
<1>3. First(Hits(c)) = m
  BY <1>1, <1>2, FirstIsLeast
<1> QED
  BY <1>1, <1>2, <1>3 DEF Least

(* What a shadow of a completed run says. *)
LEMMA ShadowsAreShown ==
  ASSUME AuditInv, RejectInv, TablesInv, mode = "path", Completed, NEW n \in DOMAIN shadows
  PROVE  LET s == shadows[n]
         IN  /\ <<s.command, s.shadow>> \in Expected
             /\ s.winner = Hit(First(Hits(s.command)), s.command)
             /\ s.index = FirstShown(s.command, s.shadow)
             /\ s.index \in Nat /\ Hit(s.index, s.command) = s.shadow
<1> DEFINE s == shadows[n]
           c == shadows[n].command
<1>1. c \in Commands /\ IsShadow(History[c], s)
  BY DEF AuditInv, Scanning, Agrees
<1>2. /\ DOMAIN History[c] = Hits(c) /\ Hits(c) \subseteq Nat
      /\ \A r \in Hits(c) : History[c][r] = Hit(r, c)
  BY <1>1, HistoryIsAll
<1>3. s.winner = Hit(First(Hits(c)), c) /\ s.winner # s.shadow
  BY <1>1, WinnersAreFirst DEF IsShadow
<1>4. Showing(History[c], s.shadow) = {r \in Hits(c) : Hit(r, c) = s.shadow}
  BY <1>2 DEF Showing
<1>5. Least(Showing(History[c], s.shadow), s.index)
  BY <1>1 DEF IsShadow
<1>6. s.index \in Hits(c) /\ Hit(s.index, c) = s.shadow /\ s.index \in Nat
  BY <1>2, <1>4, <1>5 DEF Least
<1>7. FirstShown(c, s.shadow) = s.index
  <2> DEFINE S == {r \in Hits(c) : Hit(r, c) = s.shadow}
  <2>1. S \subseteq Nat /\ Least(S, s.index)
    BY <1>2, <1>4, <1>5
  <2> HIDE DEF S
  <2>2. First(S) = s.index
    BY <2>1, FirstIsLeast
  <2> QED
    BY <2>2 DEF FirstShown, S
<1>8. s.shadow \in Realpaths
  <2>1. Match(s.shadow) /\ <<roots[s.index].text, c>> \in DOMAIN exe
    <3>1. s.index \in Visited(c)
      <4>1. s.index \in DOMAIN roots /\ s.index < i /\ Scanned(s.index)
        BY <1>6 DEF Hits, AuditInv
      <4> QED
        BY <4>1 DEF Visited
    <3> QED
      BY <1>1, <1>6, <3>1 DEF Hits, Hit, AuditInv, Scanning
  <2> QED
    BY <1>6, <2>1 DEF Hit, Match, TablesInv, ExeInv
<1>9. Shows(c, s.shadow)
  BY <1>3, <1>6 DEF Shows
<1> HIDE DEF s, c
<1>10. <<c, s.shadow>> \in Expected
  BY <1>1, <1>8, <1>9 DEF Expected, Realpaths
<1> QED
  BY <1>3, <1>6, <1>7, <1>10 DEF s, c

(* Whatever is expected is a shadow. *)
LEMMA NoShadowIsMissed ==
  ASSUME AuditInv, RejectInv, TablesInv, mode = "path", Completed, NEW x \in Expected
  PROVE  \E n \in DOMAIN shadows : <<shadows[n].command, shadows[n].shadow>> = x
<1> DEFINE c == x[1]
           e == x[2]
<1>1. c \in Commands /\ x = <<c, e>> /\ Shows(c, e)
  BY DEF Expected
<1> HIDE DEF c, e
<1>2. PICK r \in Hits(c) : Hit(r, c) = e /\ e # Hit(First(Hits(c)), c)
  BY <1>1 DEF Shows
<1>3. /\ DOMAIN History[c] = Hits(c) /\ \A q \in Hits(c) : History[c][q] = Hit(q, c)
  BY <1>1, HistoryIsAll
<1>4. IsTold(winners, shadows, c, e)
  BY <1>1, <1>2, <1>3 DEF AuditInv, Scanning, Agrees
<1>5. PICK w \in DOMAIN winners :
        /\ winners[w].command = c
        /\ \/ winners[w].path = e
           \/ \E n \in DOMAIN shadows : shadows[n].command = c /\ shadows[n].shadow = e
  BY <1>4 DEF IsTold
<1>6. IsWinner(History[c], winners[w].path)
  BY <1>5 DEF AuditInv, Scanning, Agrees
<1>7. winners[w].path # e
  BY <1>1, <1>2, <1>6, WinnersAreFirst
<1> QED
  BY <1>1, <1>5, <1>7

(* The lines of the shadows come last. *)
LEMMA ShadowsArePrinted ==
  ASSUME AuditInv, TypesInv, mode = "path", Completed
  PROVE  \E b \in Nat :
           /\ Printed = {b + n : n \in DOMAIN shadows}
           /\ \A n \in DOMAIN shadows :
                out[b + n] = <<"SHADOWED", shadows[n].command, shadows[n].winner,
                               shadows[n].shadow>>
<1> DEFINE line(n) == <<"SHADOWED", shadows[n].command, shadows[n].winner, shadows[n].shadow>>
           said(k) == <<findings[k].code, findings[k].root>>
           M == [k \in DOMAIN matches |-> <<"MATCH", matches[k]>>]
           F == [k \in DOMAIN findings |-> said(k)]
           S == [k \in DOMAIN shadows |-> line(k)]
           a == Len(findings)
           z == Len(shadows)
<1>1. out = (M \o F) \o S /\ matches = <<>>
  BY DEF AuditInv, Lines
<1>2. /\ a \in Nat /\ DOMAIN findings = 1 .. a /\ \A k \in 1 .. a : findings[k] \in FindingType
      /\ z \in Nat /\ DOMAIN shadows = 1 .. z
  <2>1. findings \in Seq(FindingType) /\ shadows \in Seq(ShadowType)
    BY DEF TypesInv, TypeOK, FindingType, CodeSet, ShadowType
  <2> QED
    BY <2>1
<1>3. M = <<>>
  BY <1>1
<1>4. \A k \in 1 .. a : said(k)[1] # "SHADOWED"
  <2>1. "SHADOWED" \notin CodeSet
    BY CodesAreCodes
  <2> QED
    BY <1>2, <2>1 DEF FindingType
<1>5. \A n : line(n)[1] = "SHADOWED"
  OBVIOUS
<1> HIDE DEF M, a, z, said, line
<1> DEFINE X == {said(k) : k \in 1 .. a} \cup {line(k) : k \in 1 .. z}
<1>6. F \in Seq(X) /\ Len(F) = a /\ S \in Seq(X) /\ Len(S) = z
  BY <1>2
<1>7. /\ \A k \in 1 .. a : F[k] = said(k)
      /\ \A k \in 1 .. z : S[k] = line(k)
  BY <1>2
<1> HIDE DEF F, S, X
<1>8. out = F \o S
  <2>1. M \o F = F
    BY <1>3, <1>6
  <2> QED
    BY <1>1, <2>1
<1>9. /\ DOMAIN out = 1 .. a + z
      /\ \A k \in 1 .. a : out[k] = F[k]
      /\ \A n \in 1 .. z : out[a + n] = S[n]
  <2>1. /\ out \in Seq(X) /\ Len(out) = a + z
        /\ \A k \in 1 .. a + z : out[k] = IF k <= a THEN F[k] ELSE S[k - a]
    <3>1. /\ F \o S \in Seq(X) /\ Len(F \o S) = Len(F) + Len(S)
          /\ \A k \in 1 .. Len(F) + Len(S) :
               (F \o S)[k] = IF k <= Len(F) THEN F[k] ELSE S[k - Len(F)]
      BY <1>6, ConcatProperties
    <3> QED
      BY <1>6, <1>8, <3>1
  <2>2. DOMAIN out = 1 .. a + z
    BY <2>1
  <2>3. ASSUME NEW k \in 1 .. a PROVE out[k] = F[k]
    <3>1. k \in 1 .. a + z /\ k <= a
      BY <1>2
    <3> QED
      BY <2>1, <3>1
  <2>4. ASSUME NEW n \in 1 .. z PROVE out[a + n] = S[n]
    <3>1. a + n \in 1 .. a + z /\ ~(a + n <= a) /\ (a + n) - a = n
      BY <1>2
    <3> QED
      BY <2>1, <3>1
  <2> QED
    BY <2>2, <2>3, <2>4
<1>10. ASSUME NEW k \in DOMAIN out PROVE k \in 1 .. a \/ \E n \in 1 .. z : k = a + n
  <2>1. CASE k <= a
    BY <1>2, <1>9, <2>1
  <2>2. CASE k > a
    <3>1. k - a \in 1 .. z /\ k = a + (k - a)
      BY <1>2, <1>9, <2>2
    <3> QED
      BY <3>1
  <2> QED
    BY <1>2, <1>9, <2>1, <2>2
<1>11. Printed = {a + n : n \in DOMAIN shadows}
  <2>1. ASSUME NEW k \in Printed PROVE \E n \in 1 .. z : k = a + n
    <3>1. k \in DOMAIN out /\ out[k][1] = "SHADOWED"
      BY DEF Printed
    <3>2. k \notin 1 .. a
      BY <1>4, <1>7, <1>9, <3>1
    <3> QED
      BY <1>10, <3>1, <3>2
  <2>2. ASSUME NEW n \in 1 .. z PROVE a + n \in Printed
    <3>1. a + n \in DOMAIN out
      BY <1>2, <1>9
    <3>2. out[a + n][1] = "SHADOWED"
      BY <1>5, <1>7, <1>9
    <3> QED
      BY <3>1, <3>2 DEF Printed
  <2> QED
    BY <1>2, <2>1, <2>2
<1>12. \A n \in DOMAIN shadows : out[a + n] = line(n)
  BY <1>2, <1>7, <1>9
<1> QED
  BY <1>2, <1>11, <1>12 DEF line

(* As many lines are printed as shadows are expected. *)
LEMMA AsManyAsExpected ==
  ASSUME AuditInv, RejectInv, TablesInv, TypesInv, mode = "path", Completed
  PROVE  Cardinality(Printed) = Cardinality(Expected)
<1> DEFINE D == DOMAIN shadows
<1>1. PICK b \in Nat : Printed = {b + n : n \in D}
  BY ShadowsArePrinted
<1>2. IsFiniteSet(D) /\ D \subseteq Nat
  <2>1. shadows \in Seq(ShadowType)
    BY DEF TypesInv, TypeOK, ShadowType
  <2>2. D = 1 .. Len(shadows) /\ Len(shadows) \in Nat
    BY <2>1
  <2> QED
    BY <2>2, FS_Interval
<1> DEFINE f == [n \in D |-> b + n]
           g == [n \in D |-> <<shadows[n].command, shadows[n].shadow>>]
<1>3. Once(shadows)
  BY DEF AuditInv, Scanning
<1>4. \A m, n \in D : f[m] = f[n] => m = n
  BY <1>2
<1>5. \A m, n \in D : g[m] = g[n] => m = n
  BY <1>3 DEF Once
<1>6. Printed = {f[n] : n \in D}
  BY <1>1
<1>7. ASSUME NEW n \in D PROVE g[n] \in Expected
  BY ShadowsAreShown
<1>8. \A x \in Expected : \E n \in D : g[n] = x
  BY NoShadowIsMissed
<1>9. f \in Bijection(D, Printed)
  <2>1. f \in [D -> Printed] /\ \A y \in Printed : \E n \in D : f[n] = y
    BY <1>6
  <2> HIDE DEF f
  <2> QED
    BY <1>4, <2>1 DEF Bijection, Injection, Surjection, IsInjective
<1>10. g \in Bijection(D, Expected)
  <2>1. g \in [D -> Expected]
    BY <1>7
  <2> HIDE DEF g
  <2> QED
    BY <1>5, <1>8, <2>1 DEF Bijection, Injection, Surjection, IsInjective
<1> HIDE DEF f, g, D
<1>11. ExistsBijection(D, Printed) /\ ExistsBijection(D, Expected)
  BY <1>9, <1>10 DEF ExistsBijection
<1>12. Cardinality(D) = Cardinality(Printed) /\ Cardinality(D) = Cardinality(Expected)
  BY <1>2, <1>11, FS_Bijection
<1> QED
  BY <1>12

(* A completed --path run prints, for each command, each realpath that     *)
(* comes after a different first one, once, ordered by the command and     *)
(* then by the first component that shows it: whatever order readdir()     *)
(* gives the names in, whatever the hashes are, and however often the      *)
(* indices grew.                                                           *)
THEOREM ShadowsAreExactlyThose == Spec => []ShadowsAreExact
<1>1. AuditInv /\ RejectInv /\ TablesInv /\ TypesInv => ShadowsAreExact
  <2>1. SUFFICES ASSUME AuditInv, RejectInv, TablesInv, TypesInv, mode = "path", Completed
                 PROVE  ShadowsAreExact
    BY DEF ShadowsAreExact
  <2>2. PICK b \in Nat :
          /\ Printed = {b + n : n \in DOMAIN shadows}
          /\ \A n \in DOMAIN shadows :
               out[b + n] = <<"SHADOWED", shadows[n].command, shadows[n].winner,
                              shadows[n].shadow>>
    BY <2>1, ShadowsArePrinted
  <2>3. \A n \in DOMAIN shadows : n \in Nat /\ shadows[n].command \in Nat
    <3>1. shadows \in Seq(ShadowType)
      BY <2>1 DEF TypesInv, TypeOK, ShadowType
    <3>2. ASSUME NEW n \in DOMAIN shadows PROVE n \in Nat /\ shadows[n].command \in Commands
      <4>1. shadows[n] \in ShadowType /\ n \in Nat
        BY <3>1
      <4> QED
        BY <4>1 DEF ShadowType
    <3> QED
      BY <3>2, PathauditAssumption
  <2>4. ASSUME NEW n \in DOMAIN shadows
        PROVE  /\ <<shadows[n].command, shadows[n].shadow>> \in Expected
               /\ shadows[n].winner = Hit(First(Hits(shadows[n].command)), shadows[n].command)
               /\ shadows[n].index = FirstShown(shadows[n].command, shadows[n].shadow)
               /\ shadows[n].index \in Nat
               /\ Hit(shadows[n].index, shadows[n].command) = shadows[n].shadow
    BY <2>1, ShadowsAreShown
  <2>5. ASSUME NEW m \in DOMAIN shadows, NEW n \in DOMAIN shadows, m < n
        PROVE  \/ shadows[m].command < shadows[n].command
               \/ /\ shadows[m].command = shadows[n].command
                  /\ shadows[m].index < shadows[n].index
    <3>1. ~ShadowBefore(shadows[n], shadows[m])
      BY <2>1, <2>5 DEF AuditInv, InPlace
    <3>2. ASSUME shadows[m].command = shadows[n].command,
                 shadows[m].index = shadows[n].index
          PROVE  FALSE
      <4>1. shadows[m].shadow = shadows[n].shadow
        BY <2>4, <3>2
      <4>2. m = n
        BY <2>1, <3>2, <4>1 DEF AuditInv, Scanning, Once
      <4> QED
        BY <2>3, <2>5, <4>2
    <3>3. /\ shadows[m].command \in Nat /\ shadows[n].command \in Nat
          /\ shadows[m].index \in Nat /\ shadows[n].index \in Nat
      BY <2>3, <2>4
    <3> QED
      BY <3>1, <3>2, <3>3 DEF ShadowBefore
  <2>6. ASSUME NEW k \in Printed
        PROVE  /\ <<out[k][2], out[k][4]>> \in Expected
               /\ out[k][3] = Hit(First(Hits(out[k][2])), out[k][2])
    <3>1. PICK n \in DOMAIN shadows : k = b + n
      BY <2>2
    <3>2. /\ out[k][2] = shadows[n].command /\ out[k][3] = shadows[n].winner
          /\ out[k][4] = shadows[n].shadow
      BY <2>2, <3>1
    <3> QED
      BY <2>4, <3>2
  <2>7. ASSUME NEW k \in Printed, NEW m \in Printed, m < k
        PROVE  \/ out[m][2] < out[k][2]
               \/ /\ out[m][2] = out[k][2]
                  /\ FirstShown(out[m][2], out[m][4]) < FirstShown(out[k][2], out[k][4])
    <3>1. PICK n \in DOMAIN shadows : k = b + n
      BY <2>2
    <3>2. PICK l \in DOMAIN shadows : m = b + l
      BY <2>2
    <3>3. /\ out[k][2] = shadows[n].command /\ out[k][4] = shadows[n].shadow
          /\ out[m][2] = shadows[l].command /\ out[m][4] = shadows[l].shadow
      BY <2>2, <3>1, <3>2
    <3>4. l < n
      BY <2>3, <2>7, <3>1, <3>2
    <3>5. /\ shadows[n].index = FirstShown(shadows[n].command, shadows[n].shadow)
          /\ shadows[l].index = FirstShown(shadows[l].command, shadows[l].shadow)
      BY <2>4
    <3> QED
      BY <2>5, <3>3, <3>4, <3>5
  <2>8. Cardinality(Printed) = Cardinality(Expected)
    BY <2>1, AsManyAsExpected
  <2> QED
    BY <2>6, <2>7, <2>8 DEF ShadowsAreExact
<1> QED
  BY <1>1, AuditInvAlways, RejectInvAlways, TablesInvAlways, TypesInvAlways, PTL

-----------------------------------------------------------------------------
(* The findings, counted. *)

Unit(b) == IF b THEN 1 ELSE 0

(* How often a finding is in the buffer. *)
Often(buf, f) == Cardinality({k \in DOMAIN buf : buf[k] = f})

(* How many of the calls of Finding() ask for it. *)
Asks(call, f) == call.root = f.root /\ call.index = f.index /\ f.code \in call.codes
Called(h, f) == Cardinality({k \in DOMAIN h : Asks(h[k], f)})

(* Whether a stranger's directory asks for it, under the component that    *)
(* was the first to be blamed.                                             *)
Owed(blames, f) ==
  f.code = "UNSAFE_OWNER" /\ f.root \in DOMAIN blames /\ blames[f.root] = f.index

Tally(buf, directs, trusts, blames) ==
  /\ buf \in Seq(FindingType) /\ IsFiniteSet(DOMAIN directs) /\ IsFiniteSet(DOMAIN trusts)
  /\ \A f \in FindingType :
       Often(buf, f) = Called(directs, f) + Called(trusts, f) + Unit(Owed(blames, f))

(* A sequence has one more of what is appended. *)
LEMMA OneMoreOften ==
  ASSUME NEW buf \in Seq(FindingType), NEW x \in FindingType, NEW f
  PROVE  /\ Often(buf, f) \in Nat
         /\ Often(Append(buf, x), f) = Often(buf, f) + Unit(x = f)
<1> DEFINE T == FindingType
           n == Len(buf)
           A == {k \in DOMAIN buf : buf[k] = f}
           B == {k \in DOMAIN Append(buf, x) : Append(buf, x)[k] = f}
<1>1. /\ n \in Nat /\ DOMAIN buf = 1 .. n /\ DOMAIN Append(buf, x) = 1 .. n + 1
      /\ Append(buf, x)[n + 1] = x
      /\ \A k \in 1 .. n : Append(buf, x)[k] = buf[k]
  <2>1. buf \in Seq(T) /\ x \in T
    OBVIOUS
  <2> HIDE DEF T
  <2> QED
    BY <2>1
<1>2. IsFiniteSet(A) /\ n + 1 \notin A
  <2>1. A \in SUBSET (1 .. n) /\ n + 1 \notin 1 .. n
    BY <1>1
  <2>2. IsFiniteSet(1 .. n)
    BY <1>1, FS_Interval
  <2> HIDE DEF A
  <2> QED
    BY <2>1, <2>2, FS_Subset
<1>3. B = A \cup (IF x = f THEN {n + 1} ELSE {})
  BY <1>1
<1>4. Cardinality(A) \in Nat
  BY <1>2, FS_CardinalityType
<1>5. Cardinality(A \cup {n + 1}) = Cardinality(A) + 1
  <2> HIDE DEF A, n
  <2> QED
    BY <1>2, FS_AddElement
<1>6. Cardinality(B) = Cardinality(A) + Unit(x = f)
  <2> HIDE DEF A, B, n
  <2>1. CASE x = f
    BY <1>3, <1>5, <2>1 DEF Unit
  <2>2. CASE x # f
    <3>1. B = A
      BY <1>3, <2>2
    <3> QED
      BY <1>4, <2>2, <3>1 DEF Unit
  <2> QED
    BY <2>1, <2>2
<1> QED
  BY <1>4, <1>6 DEF Often

(* A call asks for each of its codes once. *)
LEMMA CodesAreApart ==
  \A k, m \in 1 .. 7 : Codes[k] = Codes[m] => k = m
BY DEF Codes

LEMMA FindingOnce ==
  ASSUME NEW buf \in Seq(FindingType), NEW root \in Seq(Nat), NEW index \in 1 .. MaxCount,
         NEW codes, NEW f \in FindingType
  PROVE  /\ buf \o Finding(root, index, codes) \in Seq(FindingType)
         /\ Often(buf \o Finding(root, index, codes), f)
              = Often(buf, f) + Unit(root = f.root /\ index = f.index /\ f.code \in codes)
<1> DEFINE made == CHOOSE g : Making(g, root, index, codes, Len(Codes))
           new(k) == [root |-> root, index |-> index, code |-> Codes[k]]
           told(m) == Unit(/\ root = f.root /\ index = f.index /\ f.code \in codes
                           /\ \E k \in 1 .. m : Codes[k] = f.code)
           S == {m \in Nat : m <= 7 => /\ made[m] \in Seq(FindingType)
                                       /\ buf \o made[m] \in Seq(FindingType)
                                       /\ Often(buf \o made[m], f) = Often(buf, f) + told(m)}
<1>1. Finding(root, index, codes) = made[Len(Codes)]
  BY DEF Finding, Making
<1>2. /\ Len(Codes) = 7 /\ DOMAIN Codes = 1 .. 7 /\ \A k \in 1 .. 7 : Codes[k] \in CodeSet
      /\ CodeSet = {Codes[k] : k \in 1 .. 7}
  <2>1. Codes \in Seq(CodeSet) /\ Len(Codes) = 7 /\ DOMAIN Codes = 1 .. 7
    BY CodesAreCodes
  <2>2. \A k \in 1 .. Len(Codes) : Codes[k] \in CodeSet
    BY <2>1, ElementOfSeq
  <2>3. CodeSet = {Codes[k] : k \in DOMAIN Codes}
    BY DEF CodeSet, ToSet
  <2> QED
    BY <2>1, <2>2, <2>3
<1>3. Making(made, root, index, codes, 7)
  <2>1. \E g : Making(g, root, index, codes, Len(Codes))
    BY <1>2, MakingIsPossible
  <2> QED
    BY <1>2, <2>1
<1> HIDE DEF made
<1>4. /\ made[0] = <<>>
      /\ \A k \in 1 .. 7 : made[k] = IF Codes[k] \in codes
                                     THEN Append(made[k - 1], new(k)) ELSE made[k - 1]
  <2>1. \A k \in 0 .. 7 : made[k] = IF k = 0 THEN <<>> ELSE IF Codes[k] \in codes
                                     THEN Append(made[k - 1], new(k)) ELSE made[k - 1]
    BY <1>3, Zenon DEF Making
  <2> HIDE DEF new
  <2> QED
    BY <2>1
<1>5. \A k \in 1 .. 7 : /\ new(k) \in FindingType
                        /\ new(k) = f <=> root = f.root /\ index = f.index /\ Codes[k] = f.code
  BY <1>2 DEF FindingType
<1> HIDE DEF new
<1>6. Often(buf, f) \in Nat
  <2>1. f \in FindingType
    OBVIOUS
  <2> QED
    BY <2>1, OneMoreOften
<1>7. 0 \in S
  <2>1. <<>> \in Seq(FindingType) /\ buf \o <<>> = buf
    OBVIOUS
  <2>2. told(0) = 0
    BY DEF Unit
  <2> HIDE DEF told
  <2>3. made[0] \in Seq(FindingType) /\ buf \o made[0] = buf
    BY <1>4, <2>1
  <2>4. Often(buf \o made[0], f) = Often(buf, f) + told(0)
    BY <1>6, <2>2, <2>3
  <2> QED
    BY <2>3, <2>4
<1>8. ASSUME NEW m \in Nat, m \in S PROVE m + 1 \in S
  <2> HIDE DEF told
  <2>1. SUFFICES ASSUME m + 1 <= 7
                 PROVE  /\ made[m + 1] \in Seq(FindingType)
                        /\ buf \o made[m + 1] \in Seq(FindingType)
                        /\ Often(buf \o made[m + 1], f) = Often(buf, f) + told(m + 1)
    OBVIOUS
  <2> USE DEF told
  <2>2. m <= 7 /\ m + 1 \in 1 .. 7 /\ (m + 1) - 1 = m
    BY <2>1
  <2>3. /\ made[m] \in Seq(FindingType) /\ buf \o made[m] \in Seq(FindingType)
        /\ Often(buf \o made[m], f) = Often(buf, f) + told(m)
    BY <1>8, <2>2
  <2>4. new(m + 1) \in FindingType
    BY <1>5, <2>2
  <2>5. \A k \in 1 .. m + 1 : k \in 1 .. m \/ k = m + 1
    OBVIOUS
  <2>6. ~(\E k \in 1 .. m : Codes[k] = Codes[m + 1])
    <3>1. \A k \in 1 .. m : k \in 1 .. 7 /\ k # m + 1
      BY <2>2
    <3> QED
      BY <2>2, <3>1, CodesAreApart
  <2>7. told(m) \in {0, 1} /\ told(m + 1) \in {0, 1}
    BY DEF Unit
  <2>8. CASE Codes[m + 1] \notin codes
    <3>1. made[m + 1] = made[m]
      BY <1>4, <2>2, <2>8
    <3>2. told(m + 1) = told(m)
      <4>1. f.code \in codes =>
              ((\E k \in 1 .. m + 1 : Codes[k] = f.code) <=> \E k \in 1 .. m : Codes[k] = f.code)
        BY <2>5, <2>8
      <4> QED
        BY <4>1 DEF Unit
    <3> HIDE DEF told
    <3> QED
      BY <2>3, <3>1, <3>2
  <2>9. CASE Codes[m + 1] \in codes
    <3>1. made[m + 1] = Append(made[m], new(m + 1))
      BY <1>4, <2>2, <2>9
    <3> DEFINE T == FindingType
               x == new(m + 1)
               s == made[m]
    <3>2. Append(s, x) \in Seq(T) /\ buf \o Append(s, x) = Append(buf \o s, x)
          /\ Append(buf \o s, x) \in Seq(T)
      <4>1. s \in Seq(T) /\ buf \in Seq(T) /\ x \in T /\ buf \o s \in Seq(T)
        BY <2>3, <2>4
      <4> HIDE DEF T, x, s
      <4>2. Append(s, x) \in Seq(T) /\ Append(buf \o s, x) \in Seq(T)
        BY <4>1
      <4>3. buf \o Append(s, x) = Append(buf \o s, x)
        <5>1. /\ <<x>> \in Seq(T) /\ Append(s, x) = s \o <<x>>
              /\ Append(buf \o s, x) = (buf \o s) \o <<x>>
          BY <4>1
        <5>2. (buf \o s) \o <<x>> = buf \o (s \o <<x>>)
          BY <4>1, <5>1, ConcatAssociative
        <5> QED
          BY <5>1, <5>2
      <4> QED
        BY <4>2, <4>3
    <3>3. Often(Append(buf \o s, x), f) = Often(buf \o s, f) + Unit(x = f)
      <4> DEFINE b == buf \o s
      <4>1. b \in Seq(FindingType) /\ x \in FindingType
        BY <2>3, <2>4
      <4> HIDE DEF x, b
      <4>2. Often(Append(b, x), f) = Often(b, f) + Unit(x = f)
        BY <4>1, OneMoreOften
      <4> QED
        BY <4>2 DEF b
    <3>4. told(m + 1) = told(m) + Unit(x = f)
      <4>1. x = f <=> root = f.root /\ index = f.index /\ Codes[m + 1] = f.code
        BY <1>5, <2>2
      <4> HIDE DEF x
      <4>2. CASE x = f
        <5>1. told(m) = 0
          BY <2>6, <4>1, <4>2 DEF Unit
        <5>2. told(m + 1) = 1
          <6>1. m + 1 \in 1 .. m + 1
            OBVIOUS
          <6> QED
            BY <2>9, <4>1, <4>2, <6>1 DEF Unit
        <5>3. Unit(x = f) = 1
          BY <4>2 DEF Unit
        <5> HIDE DEF told
        <5> QED
          BY <5>1, <5>2, <5>3
      <4>3. CASE x # f
        <5>1. told(m + 1) = told(m)
          <6>1. root = f.root /\ index = f.index =>
                  ((\E k \in 1 .. m + 1 : Codes[k] = f.code)
                     <=> \E k \in 1 .. m : Codes[k] = f.code)
            BY <2>5, <4>1, <4>3
          <6> QED
            BY <6>1 DEF Unit
        <5>2. Unit(x = f) = 0
          BY <4>3 DEF Unit
        <5> HIDE DEF told
        <5> QED
          BY <2>7, <5>1, <5>2
      <4> QED
        BY <4>2, <4>3
    <3>5. Unit(x = f) \in {0, 1}
      BY DEF Unit
    <3>6. Often(buf \o s, f) = Often(buf, f) + told(m) /\ made[m + 1] = Append(s, x)
      BY <2>3, <3>1
    <3> HIDE DEF told, x, s
    <3>7. Often(buf \o made[m + 1], f) = Often(buf, f) + told(m + 1)
      <4>1. Often(buf \o made[m + 1], f) = (Often(buf, f) + told(m)) + Unit(x = f)
        BY <3>2, <3>3, <3>6
      <4> QED
        BY <1>6, <2>7, <3>4, <3>5, <4>1
    <3> QED
      BY <3>2, <3>6, <3>7

  <2> HIDE DEF told
  <2> QED
    BY <2>8, <2>9
<1>9. 7 \in S
  <2> HIDE DEF S
  <2> QED
    BY <1>7, <1>8, EveryNatural
<1>10. told(7) = Unit(root = f.root /\ index = f.index /\ f.code \in codes)
  <2>1. \E k \in 1 .. 7 : Codes[k] = f.code
    BY <1>2 DEF FindingType
  <2> QED
    BY <2>1
<1> HIDE DEF told
<1> QED
  BY <1>1, <1>2, <1>9, <1>10

(* A history of calls that has one more of them. *)
ByOne(h, h2, k, call) ==
  /\ k \notin DOMAIN h /\ DOMAIN h2 = DOMAIN h \cup {k} /\ h2[k] = call
  /\ \A x \in DOMAIN h : h2[x] = h[x]

LEMMA CalledOnce ==
  ASSUME NEW h, NEW h2, NEW k, NEW call, NEW f, IsFiniteSet(DOMAIN h), ByOne(h, h2, k, call)
  PROVE  /\ IsFiniteSet(DOMAIN h2) /\ Called(h, f) \in Nat
         /\ Called(h2, f) = Called(h, f) + Unit(Asks(call, f))
<1> DEFINE A == {x \in DOMAIN h : Asks(h[x], f)}
           B == {x \in DOMAIN h2 : Asks(h2[x], f)}
<1>1. IsFiniteSet(A) /\ k \notin A
  <2>1. A \in SUBSET DOMAIN h /\ k \notin A
    BY DEF ByOne
  <2> HIDE DEF A
  <2> QED
    BY <2>1, FS_Subset
<1>2. B = A \cup (IF Asks(call, f) THEN {k} ELSE {})
  BY DEF ByOne
<1>3. Cardinality(A) \in Nat
  BY <1>1, FS_CardinalityType
<1>4. Cardinality(A \cup {k}) = Cardinality(A) + 1
  <2> HIDE DEF A
  <2> QED
    BY <1>1, FS_AddElement
<1>5. Cardinality(B) = Cardinality(A) + Unit(Asks(call, f))
  <2> HIDE DEF A, B
  <2>1. CASE Asks(call, f)
    BY <1>2, <1>4, <2>1 DEF Unit
  <2>2. CASE ~Asks(call, f)
    <3>1. B = A
      BY <1>2, <2>2
    <3> QED
      BY <1>3, <2>2, <3>1 DEF Unit
  <2> QED
    BY <2>1, <2>2
<1>6. IsFiniteSet(DOMAIN h2)
  <2>1. IsFiniteSet(DOMAIN h \cup {k})
    BY FS_AddElement
  <2> QED
    BY <2>1 DEF ByOne
<1> QED
  BY <1>3, <1>5, <1>6 DEF Called

(* So the count stays right when the findings of one more call are added.  *)
LEMMA TallyGrows ==
  ASSUME NEW buf, NEW d, NEW t, NEW b, NEW h2, NEW k, NEW call, Tally(buf, d, t, b),
         call.root \in Seq(Nat), call.index \in 1 .. MaxCount
  PROVE  LET more == buf \o Finding(call.root, call.index, call.codes)
         IN  /\ ByOne(d, h2, k, call) => Tally(more, h2, t, b)
             /\ ByOne(t, h2, k, call) => Tally(more, d, h2, b)
<1> DEFINE more == buf \o Finding(call.root, call.index, call.codes)
<1>1. /\ buf \in Seq(FindingType) /\ IsFiniteSet(DOMAIN d) /\ IsFiniteSet(DOMAIN t)
      /\ \A f \in FindingType :
           Often(buf, f) = Called(d, f) + Called(t, f) + Unit(Owed(b, f))
  BY DEF Tally
<1>2. ASSUME NEW f \in FindingType
      PROVE  /\ more \in Seq(FindingType) /\ Often(more, f) = Often(buf, f) + Unit(Asks(call, f))
             /\ Called(d, f) \in Nat /\ Called(t, f) \in Nat
             /\ Unit(Owed(b, f)) \in Nat /\ Unit(Asks(call, f)) \in Nat
  <2>1. /\ more \in Seq(FindingType) /\ Often(more, f) = Often(buf, f) + Unit(Asks(call, f))
    <3> DEFINE root == call.root
               index == call.index
               codes == call.codes
    <3>1. root \in Seq(Nat) /\ index \in 1 .. MaxCount
      OBVIOUS
    <3>2. Asks(call, f) = (root = f.root /\ index = f.index /\ f.code \in codes)
      BY DEF Asks
    <3> HIDE DEF root, index, codes
    <3>3. /\ buf \o Finding(root, index, codes) \in Seq(FindingType)
          /\ Often(buf \o Finding(root, index, codes), f)
               = Often(buf, f) + Unit(root = f.root /\ index = f.index /\ f.code \in codes)
      BY <1>1, <3>1, FindingOnce
    <3> QED
      BY <3>2, <3>3 DEF root, index, codes
  <2>2. Called(d, f) \in Nat /\ Called(t, f) \in Nat
    <3>1. ASSUME NEW h, IsFiniteSet(DOMAIN h) PROVE Called(h, f) \in Nat
      <4>1. {x \in DOMAIN h : Asks(h[x], f)} \in SUBSET DOMAIN h
        OBVIOUS
      <4>2. IsFiniteSet({x \in DOMAIN h : Asks(h[x], f)})
        BY <3>1, <4>1, FS_Subset
      <4> QED
        BY <4>2, FS_CardinalityType DEF Called
    <3> QED
      BY <1>1, <3>1
  <2> QED
    BY <2>1, <2>2 DEF Unit
<1> DEFINE made == [root |-> <<>>, index |-> 1, code |-> "EMPTY_ROOT"]
<1>3. more \in Seq(FindingType)
  <2>1. made \in FindingType
    <3>1. 1 \in 1 .. MaxCount
      BY PathauditAssumption
    <3>2. "EMPTY_ROOT" \in CodeSet /\ <<>> \in Seq(Nat)
      BY CodesAreCodes
    <3> QED
      BY <3>1, <3>2 DEF FindingType
  <2> QED
    BY <1>2, <2>1
<1> HIDE DEF more
<1>4. ASSUME ByOne(d, h2, k, call) PROVE Tally(more, h2, t, b)
  <2>1. IsFiniteSet(DOMAIN h2)
    BY <1>1, <1>4, CalledOnce
  <2>2. ASSUME NEW f \in FindingType
        PROVE  Often(more, f) = Called(h2, f) + Called(t, f) + Unit(Owed(b, f))
    <3>1. Called(h2, f) = Called(d, f) + Unit(Asks(call, f))
      BY <1>1, <1>4, CalledOnce
    <3> QED
      BY <1>1, <1>2, <3>1
  <2> QED
    BY <1>1, <1>3, <2>1, <2>2 DEF Tally
<1>5. ASSUME ByOne(t, h2, k, call) PROVE Tally(more, d, h2, b)
  <2>1. IsFiniteSet(DOMAIN h2)
    BY <1>1, <1>5, CalledOnce
  <2>2. ASSUME NEW f \in FindingType
        PROVE  Often(more, f) = Called(d, f) + Called(h2, f) + Unit(Owed(b, f))
    <3>1. Called(h2, f) = Called(t, f) + Unit(Asks(call, f))
      BY <1>1, <1>5, CalledOnce
    <3> QED
      BY <1>1, <1>2, <3>1
  <2> QED
    BY <1>1, <1>3, <2>1, <2>2 DEF Tally
<1> QED
  BY <1>4, <1>5 DEF more

(* Nothing of a directory is found but what it is blamed for once. *)
Stranger(owner, d, t) ==
  /\ \A x \in DOMAIN d : "UNSAFE_OWNER" \notin d[x].codes
  /\ \A x \in DOMAIN t : t[x].root # owner

(* The directories of a component that come to those that were blamed. *)
With(b, owners, index) ==
  [o \in DOMAIN b \cup owners |-> IF o \in DOMAIN b THEN b[o] ELSE index]

LEMMA NobodyAsks ==
  ASSUME NEW d, NEW t, NEW owner, Stranger(owner, d, t), NEW f,
         f.code = "UNSAFE_OWNER", f.root = owner
  PROVE  Called(d, f) = 0 /\ Called(t, f) = 0
<1>1. {x \in DOMAIN d : Asks(d[x], f)} = {} /\ {x \in DOMAIN t : Asks(t[x], f)} = {}
  BY DEF Stranger, Asks
<1> QED
  BY <1>1, FS_EmptySet DEF Called

LEMMA NotedIsOwed ==
  ASSUME NEW buf, NEW d, NEW t, NEW b, NEW owner, Tally(buf, d, t, b), Stranger(owner, d, t),
         NEW k \in Noted(buf, owner)
  PROVE  owner \in DOMAIN b /\ b[owner] = buf[k].index
<1> DEFINE f == buf[k]
           A == {m \in DOMAIN buf : buf[m] = f}
<1>1. /\ buf \in Seq(FindingType) /\ k \in DOMAIN buf
      /\ f.code = "UNSAFE_OWNER" /\ f.root = owner
  BY DEF Tally, Noted
<1>2. f \in FindingType
  <2> DEFINE T == FindingType
  <2>1. buf \in Seq(T)
    BY <1>1
  <2> HIDE DEF T
  <2>2. f \in T
    BY <1>1, <2>1
  <2> QED
    BY <2>2 DEF T
<1>3. Often(buf, f) \in Nat /\ Often(buf, f) # 0
  <2>1. IsFiniteSet(A)
    <3>1. DOMAIN buf = 1 .. Len(buf) /\ Len(buf) \in Nat
      BY <1>1
    <3>2. IsFiniteSet(DOMAIN buf)
      BY <3>1, FS_Interval
    <3>3. A \in SUBSET DOMAIN buf
      OBVIOUS
    <3> HIDE DEF A
    <3> QED
      BY <3>2, <3>3, FS_Subset
  <2>2. k \in A
    BY <1>1
  <2> HIDE DEF A
  <2>3. Cardinality(A) \in Nat /\ Cardinality(A) # 0
    BY <2>1, <2>2, FS_EmptySet, FS_CardinalityType
  <2> QED
    BY <2>3 DEF Often, A
<1> HIDE DEF f
<1>4. Often(buf, f) = Called(d, f) + Called(t, f) + Unit(Owed(b, f))
  BY <1>2 DEF Tally
<1>5. Called(d, f) = 0 /\ Called(t, f) = 0
  BY <1>1, NobodyAsks
<1>6. Owed(b, f)
  BY <1>3, <1>4, <1>5 DEF Unit
<1> QED
  BY <1>1, <1>6 DEF Owed, f

LEMMA OwnerNoted ==
  ASSUME NEW buf, NEW d, NEW t, NEW b, NEW owner \in Seq(Nat), NEW index \in 1 .. MaxCount,
         Tally(buf, d, t, b), Stranger(owner, d, t), \A o \in DOMAIN b : b[o] \in 1 .. index
  PROVE  Tally(NoteOwner(buf, owner, index), d, t, With(b, {owner}, index))
<1> DEFINE b2 == With(b, {owner}, index)
           note == NoteOwner(buf, owner, index)
<1>1. /\ buf \in Seq(FindingType) /\ IsFiniteSet(DOMAIN d) /\ IsFiniteSet(DOMAIN t)
      /\ \A f \in FindingType :
           Often(buf, f) = Called(d, f) + Called(t, f) + Unit(Owed(b, f))
  BY DEF Tally
<1>2. MaxCount \in Nat
  BY PathauditAssumption
<1>3. CASE owner \notin DOMAIN b
  <2>1. Noted(buf, owner) = {}
    BY <1>3, NotedIsOwed
  <2>2. note = buf \o Finding(owner, index, {"UNSAFE_OWNER"})
    BY <2>1 DEF NoteOwner
  <2> HIDE DEF note
  <2> DEFINE made == [root |-> owner, index |-> index, code |-> "UNSAFE_OWNER"]
  <2>3. made \in FindingType
    BY CodesAreCodes DEF FindingType
  <2>4. note \in Seq(FindingType)
    <3> HIDE DEF made
    <3> QED
      BY <1>1, <2>2, <2>3, FindingOnce
  <2>5. ASSUME NEW f \in FindingType
        PROVE  Often(note, f) = Called(d, f) + Called(t, f) + Unit(Owed(b2, f))
    <3>1. Often(note, f) = Often(buf, f) + Unit(/\ owner = f.root /\ index = f.index
                                               /\ f.code \in {"UNSAFE_OWNER"})
      BY <1>1, <2>2, FindingOnce
    <3>2. Often(buf, f) = Called(d, f) + Called(t, f) + Unit(Owed(b, f))
      BY <1>1
    <3>3. CASE f.code = "UNSAFE_OWNER" /\ f.root = owner
      <4>1. Called(d, f) = 0 /\ Called(t, f) = 0
        BY <3>3, NobodyAsks
      <4>2. ~Owed(b, f) /\ (Owed(b2, f) <=> index = f.index)
        BY <1>3, <3>3 DEF Owed, With
      <4>3. Unit(Owed(b, f)) = 0 /\ Unit(Owed(b2, f)) = Unit(index = f.index)
        BY <4>2 DEF Unit
      <4>4. /\ Unit(owner = f.root /\ index = f.index /\ f.code \in {"UNSAFE_OWNER"})
               = Unit(index = f.index)
            /\ Unit(index = f.index) \in Nat
        BY <3>3 DEF Unit
      <4> HIDE DEF b2
      <4> QED
        BY <3>1, <3>2, <4>1, <4>3, <4>4
    <3>4. CASE ~(f.code = "UNSAFE_OWNER" /\ f.root = owner)
      <4>1. Owed(b2, f) <=> Owed(b, f)
        BY <3>4 DEF Owed, With
      <4>2. Unit(Owed(b2, f)) = Unit(Owed(b, f))
        BY <4>1 DEF Unit
      <4>3. Unit(owner = f.root /\ index = f.index /\ f.code \in {"UNSAFE_OWNER"}) = 0
        BY <3>4 DEF Unit
      <4>4. Often(buf, f) \in Nat
        <5>1. PICK x : x \in FindingType
          BY <2>3
        <5> QED
          BY <1>1, <5>1, OneMoreOften
      <4> HIDE DEF b2
      <4> QED
        BY <3>1, <3>2, <4>2, <4>3, <4>4
    <3> QED
      BY <3>3, <3>4
  <2> HIDE DEF b2
  <2> QED
    BY <1>1, <2>4, <2>5 DEF Tally, b2, note
<1>4. CASE owner \in DOMAIN b
  <2> DEFINE noted == Noted(buf, owner)
             least == CHOOSE n \in noted : \A m \in noted : n <= m
             made == [root |-> owner, index |-> b[owner], code |-> "UNSAFE_OWNER"]
             A == {m \in DOMAIN buf : buf[m] = made}
  <2>1. b[owner] \in 1 .. index /\ b[owner] \in 1 .. MaxCount
    <3>1. b[owner] \in 1 .. index
      BY <1>4
    <3> QED
      BY <1>2, <3>1
  <2>2. made \in FindingType
    BY <2>1, CodesAreCodes DEF FindingType
  <2>3. noted # {}
    <3>1. Unit(Owed(b, made)) = 1
      BY <1>4 DEF Owed, Unit
    <3>2. Called(d, made) = 0 /\ Called(t, made) = 0
      <4>1. made.code = "UNSAFE_OWNER" /\ made.root = owner
        OBVIOUS
      <4> HIDE DEF made
      <4> QED
        BY <4>1, NobodyAsks
    <3> HIDE DEF made
    <3>3. Often(buf, made) = 1
      BY <1>1, <2>2, <3>1, <3>2
    <3>4. A # {}
      <4>1. Often(buf, made) = Cardinality(A)
        BY DEF Often
      <4> HIDE DEF A
      <4>2. A = {} => Cardinality(A) = 0
        BY FS_EmptySet, Zenon
      <4> QED
        BY <3>3, <4>1, <4>2
    <3>5. PICK m \in DOMAIN buf : buf[m] = made
      BY <3>4
    <3>6. m \in noted
      BY <3>5 DEF Noted, made
    <3> QED
      BY <3>6
  <2>4. noted \subseteq DOMAIN buf /\ noted \subseteq Nat
    <3>1. DOMAIN buf = 1 .. Len(buf) /\ Len(buf) \in Nat
      BY <1>1
    <3> QED
      BY <3>1 DEF Noted
  <2>5. least \in noted
    <3>1. \E n \in noted : \A m \in noted : n <= m
      BY <2>3, <2>4, LeastNatural
    <3> QED
      BY <3>1
  <2>6. note = [buf EXCEPT ![least].index = IF index < @ THEN index ELSE @]
    BY <2>3 DEF NoteOwner
  <2> HIDE DEF least, noted, made
  <2>7. buf[least].index = b[owner]
    BY <2>5, NotedIsOwed DEF noted
  <2>8. ~(index < buf[least].index)
    BY <1>2, <2>1, <2>7
  <2>9. note = [buf EXCEPT ![least] = [buf[least] EXCEPT !.index = buf[least].index]]
    BY <2>6, <2>8
  <2>10. [buf[least] EXCEPT !.index = buf[least].index] = buf[least]
    <3>1. buf[least] \in FindingType
      <4> DEFINE T == FindingType
      <4>1. buf \in Seq(T)
        BY <1>1
      <4> HIDE DEF T
      <4>2. buf[least] \in T
        BY <2>4, <2>5, <4>1
      <4> QED
        BY <4>2 DEF T
    <3> DEFINE x == buf[least]
    <3> SUFFICES ASSUME x \in FindingType PROVE [x EXCEPT !.index = x.index] = x
      BY <3>1
    <3> HIDE DEF x
    <3> QED
      BY DEF FindingType
  <2>11. note = buf
    <3> DEFINE T == FindingType
    <3>1. buf \in Seq(T)
      BY <1>1
    <3>2. note = [buf EXCEPT ![least] = buf[least]]
      BY <2>9, <2>10
    <3> HIDE DEF T, note
    <3> QED
      BY <3>1, <3>2
  <2>12. \A f : Owed(b2, f) <=> Owed(b, f)
    BY <1>4 DEF Owed, With
  <2>13. \A f : Unit(Owed(b2, f)) = Unit(Owed(b, f))
    BY <2>12 DEF Unit
  <2> HIDE DEF note, b2
  <2> QED
    BY <1>1, <2>11, <2>13 DEF Tally, note, b2
<1> QED
  BY <1>3, <1>4

(* Nor is one blamed twice for what two of its directories have in common. *)
LEMMA OwnersNoted ==
  ASSUME NEW buf, NEW d, NEW t, NEW b, NEW o \in Outcome, NEW index \in 1 .. MaxCount,
         Tally(buf, d, t, b), \A x \in ToSet(o.owners) : Stranger(x, d, t),
         \A x \in DOMAIN b : b[x] \in 1 .. index
  PROVE  Tally(NoteOwners(buf, o, index), d, t,
               With(b, IF o.kind \in {"dir", "shut"} THEN ToSet(o.owners) ELSE {}, index))
<1> DEFINE n == Len(o.owners)
           f == CHOOSE g : Noting(g, buf, o.owners, index, n)
           upto(m) == {o.owners[k] : k \in 1 .. m}
           S == {m \in Nat : m <= n => Tally(f[m], d, t, With(b, upto(m), index))}
<1>1. NoteOwners(buf, o, index) = IF o.kind \in {"dir", "shut"} THEN f[n] ELSE buf
  BY DEF NoteOwners, Noting
<1>2. /\ n \in Nat /\ DOMAIN o.owners = 1 .. n /\ \A m \in 1 .. n : o.owners[m] \in Seq(Nat)
  BY DEF Outcome
<1>3. Noting(f, buf, o.owners, index, n)
  <2>1. \E g : Noting(g, buf, o.owners, index, n)
    BY <1>2, NotingIsPossible
  <2> QED
    BY <2>1
<1> HIDE DEF f
<1>4. f = [m \in 0 .. n |-> IF m = 0 THEN buf ELSE NoteOwner(f[m - 1], o.owners[m], index)]
  BY <1>3 DEF Noting
<1>5. /\ f[0] = buf
      /\ \A m \in 1 .. n : f[m] = NoteOwner(f[m - 1], o.owners[m], index)
  <2>1. \A m \in 0 .. n :
          f[m] = IF m = 0 THEN buf ELSE NoteOwner(f[m - 1], o.owners[m], index)
    BY <1>4
  <2> QED
    BY <1>2, <2>1
<1> HIDE DEF n
<1>6. ASSUME NEW b2, \A g : Owed(b2, g) <=> Owed(b, g) PROVE Tally(buf, d, t, b2)
  <2>1. \A g : Unit(Owed(b2, g)) = Unit(Owed(b, g))
    BY <1>6 DEF Unit
  <2> QED
    BY <2>1 DEF Tally
<1>7. \A g : Owed(With(b, {}, index), g) <=> Owed(b, g)
  BY DEF Owed, With
<1>8. Tally(buf, d, t, With(b, {}, index))
  BY <1>6, <1>7
<1>9. 0 \in S
  <2>1. upto(0) = {}
    OBVIOUS
  <2> HIDE DEF upto
  <2> QED
    BY <1>5, <1>8, <2>1
<1>10. ASSUME NEW m \in Nat, m \in S PROVE m + 1 \in S
  <2>1. SUFFICES ASSUME m + 1 <= n PROVE Tally(f[m + 1], d, t, With(b, upto(m + 1), index))
    OBVIOUS
  <2>2. m <= n /\ m + 1 \in 1 .. n /\ (m + 1) - 1 = m
    BY <1>2, <2>1
  <2> DEFINE owner == o.owners[m + 1]
             c == With(b, upto(m), index)
  <2>3. Tally(f[m], d, t, c) /\ f[m + 1] = NoteOwner(f[m], owner, index)
    BY <1>5, <1>10, <2>2
  <2>4. owner \in Seq(Nat) /\ Stranger(owner, d, t)
    <3>1. owner \in ToSet(o.owners)
      BY <1>2, <2>2 DEF ToSet
    <3> QED
      BY <1>2, <2>2, <3>1
  <2>5. \A x \in DOMAIN c : c[x] \in 1 .. index
    <3>1. index \in 1 .. index
      BY PathauditAssumption
    <3> HIDE DEF upto
    <3> QED
      BY <3>1 DEF With
  <2>6. With(c, {owner}, index) = With(b, upto(m + 1), index)
    <3>1. upto(m + 1) = upto(m) \cup {owner}
      <4>1. 1 .. m + 1 = 1 .. m \cup {m + 1}
        OBVIOUS
      <4> QED
        BY <4>1
    <3> HIDE DEF upto, owner
    <3>2. /\ DOMAIN c = DOMAIN b \cup upto(m)
          /\ \A x \in DOMAIN c : c[x] = IF x \in DOMAIN b THEN b[x] ELSE index
      BY DEF With
    <3> HIDE DEF c
    <3>3. DOMAIN c \cup {owner} = DOMAIN b \cup upto(m + 1)
      BY <3>1, <3>2
    <3>4. ASSUME NEW x \in DOMAIN c \cup {owner}
          PROVE  (IF x \in DOMAIN c THEN c[x] ELSE index)
                   = (IF x \in DOMAIN b THEN b[x] ELSE index)
      BY <3>2
    <3> QED
      BY <3>3, <3>4 DEF With
  <2> HIDE DEF c, owner, upto
  <2>7. Tally(NoteOwner(f[m], owner, index), d, t, With(c, {owner}, index))
    BY <2>3, <2>4, <2>5, OwnerNoted
  <2> QED
    BY <2>3, <2>6, <2>7
<1>11. n \in S
  <2> HIDE DEF S
  <2> QED
    BY <1>2, <1>9, <1>10, EveryNatural
<1>12. Tally(f[n], d, t, With(b, upto(n), index))
  BY <1>2, <1>11
<1>13. upto(n) = ToSet(o.owners)
  BY <1>2 DEF ToSet
<1> HIDE DEF upto
<1> QED
  BY <1>1, <1>8, <1>12, <1>13

(* The sorting keeps the count. *)
LEMMA SortingKeepsTheCount ==
  ASSUME NEW buf \in Seq(FindingType), NEW t, NEW p, Permuted(buf, t, Len(buf), p), NEW f
  PROVE  Often(t, f) = Often(buf, f)
<1> DEFINE n == Len(buf)
           A == {k \in DOMAIN buf : buf[k] = f}
           B == {k \in DOMAIN t : t[k] = f}
           g == [k \in B |-> p[k]]
<1>1. n \in Nat /\ DOMAIN buf = 1 .. n
  OBVIOUS
<1>2. /\ p \in [1 .. n -> 1 .. n] /\ DOMAIN t = 1 .. n
      /\ \A r \in 1 .. n : t[r] = buf[p[r]]
      /\ \A q, r \in 1 .. n : p[q] = p[r] => q = r
      /\ \A k \in 1 .. n : \E r \in 1 .. n : p[r] = k
  BY DEF Permuted
<1> HIDE DEF n
<1>3. IsFiniteSet(B)
  <2>1. B \in SUBSET (1 .. n)
    BY <1>2
  <2>2. IsFiniteSet(1 .. n)
    BY <1>1, FS_Interval
  <2> HIDE DEF B
  <2> QED
    BY <2>1, <2>2, FS_Subset
<1>4. g \in [B -> A] /\ \A q, r \in B : g[q] = g[r] => q = r
  BY <1>1, <1>2
<1>5. \A k \in A : \E r \in B : g[r] = k
  BY <1>1, <1>2
<1> HIDE DEF A, B, g
<1>6. g \in Bijection(B, A)
  BY <1>4, <1>5 DEF Bijection, Injection, Surjection, IsInjective
<1>7. Cardinality(A) = Cardinality(B)
  BY <1>3, <1>6, FS_Bijection DEF ExistsBijection
<1> QED
  BY <1>7 DEF Often, A, B

-----------------------------------------------------------------------------
(* What was inspected so far, and what should be said of it. *)

Alive == pc # "done" \/ status # 2

Classified ==
  {r \in DOMAIN roots : /\ pc \notin {"load", "split", "join"}
                        /\ pc \in {"classify", "query"} => r < i}
Executed ==
  {x \in (DOMAIN roots) \X Commands :
     \/ mode = "path" /\ Scanning /\ x[1] \in Seen(x[2])
     \/ mode = "command" /\ x[1] \in Classified /\ x[2] = command /\ Holds(x[1])}
Blamed == {r \in Classified : Relevant(r)}

Directs ==
  [r \in Classified |-> [root |-> roots[r].text, index |-> roots[r].index, codes |-> Due(r)]]
Trusts ==
  [x \in Executed |-> [root |-> Hit(x[1], x[2]), index |-> roots[x[1]].index,
                       codes |-> Trust[Hit(x[1], x[2])[1]]]]
Blames ==
  [o \in UNION {Owners(r) : r \in Blamed} |-> First({r \in Blamed : o \in Owners(r)})]

(* A mode has its own loops. *)
ModesInv ==
  /\ mode \in {"path", "command", "roots"}
  /\ pc \in {"load", "split", "join"} => findings = <<>> /\ matches = <<>>
  /\ pc = "classify" => mode # "command"
  /\ pc = "query" => mode = "command"
  /\ pc \in {"scan", "entries"} => mode = "path"

InspectedInv ==
  /\ \A r \in Classified :
       /\ roots[r].text \in DOMAIN fs \/ (roots[r].text = <<>> /\ mode # "command")
       /\ mode = "command" => <<roots[r].text, command>> \in DOMAIN exe
  /\ pc = "query" => (seen_match <=> \E r \in Classified : Holds(r))

InRanks(buf) == \A k \in 2 .. Len(buf) : ~FindingBefore(buf[k], buf[k - 1])

FindingsInv ==
  Alive => /\ ModesInv /\ InspectedInv /\ Tally(findings, Directs, Trusts, Blames)
           /\ pc = "emit" \/ Completed => InRanks(findings)
           /\ Completed => out = Lines

(* What was found of an executable is not found differently later. *)
Retained == \A x \in DOMAIN exe : x \in DOMAIN exe' /\ exe'[x] = exe[x]

LEMMA WhatIsTriedStays ==
  ASSUME NEW text, NEW o, NEW c, NEW e \in Candidate(text, o, c), Tried(text, c, e)
  PROVE  Retained /\ <<text, c>> \in DOMAIN exe' /\ exe'[<<text, c>>] = e
BY DEF Candidate, Tried, Retained

(* So what should be said of a component stays, once it was inspected. *)
LEMMA InspectionsStay ==
  ASSUME InspectedInv, RejectInv, UNCHANGED <<mode, command, roots>>, Remembered, Retained,
         NEW r \in Classified
  PROVE  /\ Due(r)' = Due(r) /\ Relevant(r)' = Relevant(r)
         /\ Relevant(r) => Owners(r)' = Owners(r)
         /\ mode = "command" => Holds(r)' = Holds(r)
<1>1. roots[r].text \in DOMAIN fs \/ (roots[r].text = <<>> /\ mode # "command")
  BY DEF InspectedInv
<1>2. mode = "command" => \A s \in Classified : Holds(s)' = Holds(s)
  BY DEF InspectedInv, Holds, Retained
<1>3. \A s \in 1 .. r - 1 : s \in Classified
  <2>1. PICK n \in Nat : DOMAIN roots = 1 .. n
    BY DEF RejectInv
  <2>2. i \in Nat /\ r \in 1 .. n
    BY <2>1 DEF RejectInv, Classified
  <2> QED
    BY <2>1, <2>2 DEF Classified
<1>4. Relevant(r)' = Relevant(r)
  <2>1. mode = "command" => ((\A s \in 1 .. r - 1 : ~Holds(s)') <=> \A s \in 1 .. r - 1 : ~Holds(s))
    BY <1>2, <1>3
  <2>2. Relevant(r)' <=> Relevant(r)
    BY <1>2, <2>1 DEF Relevant
  <2>3. Relevant(r)' \in BOOLEAN /\ Relevant(r) \in BOOLEAN
    BY DEF Relevant
  <2> QED
    BY <2>2, <2>3
<1>5. roots[r].text \in DOMAIN fs => fs'[roots[r].text] = fs[roots[r].text]
  BY DEF Remembered
<1>6. Due(r)' = Due(r)
  <2>1. CASE roots[r].text = <<>> /\ mode # "command"
    BY <2>1, SMTT(30) DEF Due
  <2>2. CASE roots[r].text \in DOMAIN fs
    BY <1>4, <1>5, <2>2 DEF Due, DirectoryCodes, Relative
  <2> QED
    BY <1>1, <2>1, <2>2
<1>7. Relevant(r) => Owners(r)' = Owners(r)
  <2>1. CASE roots[r].text = <<>> /\ mode # "command"
    BY <2>1 DEF Relevant
  <2>2. CASE roots[r].text \in DOMAIN fs
    BY <1>5, <2>2 DEF Owners
  <2> QED
    BY <1>1, <2>1, <2>2
<1> QED
  BY <1>2, <1>4, <1>6, <1>7

LEMMA FirstStays ==
  ASSUME NEW S, S \subseteq Nat, S # {}, NEW n \in Nat, \A s \in S : s < n,
         NEW T, S \subseteq T, T \subseteq S \cup {n}
  PROVE  First(T) = First(S) /\ First(S) \in S
<1>1. PICK m \in S : \A s \in S : m <= s
  BY LeastNatural
<1>2. Least(S, m)
  BY <1>1 DEF Least
<1>3. Least(T, m) /\ T \subseteq Nat
  <2>1. m <= n
    BY <1>1
  <2> QED
    BY <1>1, <2>1 DEF Least
<1>4. First(S) = m
  BY <1>2, FirstIsLeast
<1>5. First(T) = m
  BY <1>3, FirstIsLeast
<1> QED
  BY <1>1, <1>4, <1>5

LEMMA FirstOfOne ==
  ASSUME NEW n \in Nat
  PROVE  First({n}) = n
<1>1. Least({n}, n) /\ {n} \subseteq Nat
  BY DEF Least
<1> QED
  BY <1>1, FirstIsLeast

(* One component after the other is inspected. *)
Inspects ==
  /\ pc \in {"classify", "query"} /\ pc' = pc /\ i \in DOMAIN roots /\ i' = i + 1
  /\ UNCHANGED <<mode, command, roots>> /\ Remembered /\ Retained

LEMMA OneMoreIsClassified ==
  ASSUME RejectInv, Inspects
  PROVE  /\ Classified' = Classified \cup {i} /\ i \notin Classified /\ i \in Nat
         /\ Classified = 1 .. i - 1
<1>1. PICK n \in Nat : DOMAIN roots = 1 .. n
  BY DEF RejectInv
<1>2. i \in 1 .. n
  BY <1>1 DEF Inspects
<1>3. \A r \in 1 .. n : r < i' <=> r < i \/ r = i
  BY <1>2 DEF Inspects
<1>4. Classified = {r \in 1 .. n : r < i} /\ Classified' = {r \in 1 .. n : r < i'}
  BY <1>1 DEF Classified, Inspects
<1> QED
  BY <1>2, <1>3, <1>4

(* In what follows k is the number that i had before the step: Due(i)'     *)
(* would be about the next component.                                      *)
LEMMA DirectsGrow ==
  ASSUME NEW k, k = i, InspectedInv, RejectInv, Inspects
  PROVE  ByOne(Directs, Directs', i,
               [root |-> roots[i].text, index |-> roots[i].index, codes |-> Due(k)'])
<1>1. Classified' = Classified \cup {i} /\ i \notin Classified
  BY OneMoreIsClassified
<1>2. \A r \in Classified : Due(r)' = Due(r)
  BY InspectionsStay DEF Inspects
<1>3. UNCHANGED roots
  BY DEF Inspects
<1>4. DOMAIN Directs = Classified /\ DOMAIN Directs' = Classified'
  BY DEF Directs
<1>5. ASSUME NEW r \in Classified PROVE Directs'[r] = Directs[r]
  BY <1>1, <1>2, <1>3 DEF Directs
<1>6. Directs'[i] = [root |-> roots[i].text, index |-> roots[i].index, codes |-> Due(k)']
  BY <1>1, <1>3 DEF Directs
<1> QED
  BY <1>1, <1>4, <1>5, <1>6 DEF ByOne

LEMMA BlamesGrow ==
  ASSUME NEW k, k = i, InspectedInv, RejectInv, Inspects
  PROVE  /\ Blames' = With(Blames, IF Relevant(k)' THEN Owners(k)' ELSE {}, i)
         /\ \A o \in DOMAIN Blames : Blames[o] \in 1 .. i
<1> DEFINE owners == IF Relevant(k)' THEN Owners(k)' ELSE {}
           by(o) == {r \in Blamed : o \in Owners(r)}
           after(o) == {r \in Blamed' : o \in Owners(r)'}
<1>1. Classified' = Classified \cup {i} /\ i \notin Classified /\ i \in Nat
      /\ Classified = 1 .. i - 1
  BY OneMoreIsClassified
<1>2. \A r \in Classified : /\ Relevant(r)' = Relevant(r)
                            /\ Relevant(r) => Owners(r)' = Owners(r)
  BY InspectionsStay DEF Inspects
<1>3. /\ Blamed \subseteq 1 .. i - 1 /\ i \notin Blamed
      /\ Blamed' = Blamed \cup (IF Relevant(k)' THEN {i} ELSE {})
  BY <1>1, <1>2 DEF Blamed
<1>4. \A r \in Blamed : Owners(r)' = Owners(r)
  BY <1>2 DEF Blamed
<1>5. /\ DOMAIN Blames = {o \in UNION {Owners(r) : r \in Blamed} : TRUE}
      /\ \A o \in DOMAIN Blames : Blames[o] = First(by(o)) /\ by(o) # {}
  BY DEF Blames
<1>6. /\ DOMAIN Blames' = {o \in UNION {Owners(r)' : r \in Blamed'} : TRUE}
      /\ \A o \in DOMAIN Blames' : Blames'[o] = First(after(o))
      /\ Blames' = [o \in DOMAIN Blames' |-> Blames'[o]]
  BY DEF Blames, First
<1>7. DOMAIN Blames' = DOMAIN Blames \cup owners
  <2>1. ASSUME NEW o PROVE o \in DOMAIN Blames' <=> o \in DOMAIN Blames \cup owners
    BY <1>3, <1>4, <1>5, <1>6
  <2> QED
    BY <2>1
<1>8. \A o : after(o) = by(o) \cup (IF o \in owners THEN {i} ELSE {})
  BY <1>3, <1>4
<1>9. ASSUME NEW o \in DOMAIN Blames PROVE Blames'[o] = Blames[o] /\ Blames[o] \in 1 .. i
  <2>1. by(o) # {} /\ Blames[o] = First(by(o)) /\ Blames'[o] = First(after(o))
    BY <1>5, <1>6, <1>7
  <2>2. by(o) \subseteq 1 .. i - 1 /\ by(o) \subseteq Nat /\ \A s \in by(o) : s < i
    <3>1. by(o) \subseteq Blamed
      OBVIOUS
    <3> HIDE DEF by
    <3>2. \A s \in 1 .. i - 1 : s \in Nat /\ s < i
      BY <1>1
    <3> QED
      BY <1>3, <3>1, <3>2
  <2>3. by(o) \subseteq after(o) /\ after(o) \subseteq by(o) \cup {i}
    BY <1>8
  <2> HIDE DEF by, after
  <2>4. First(after(o)) = First(by(o)) /\ First(by(o)) \in by(o)
    BY <1>1, <2>1, <2>2, <2>3, FirstStays
  <2> QED
    BY <1>1, <2>1, <2>2, <2>4
<1>10. ASSUME NEW o \in DOMAIN Blames', o \notin DOMAIN Blames PROVE Blames'[o] = i
  <2>1. by(o) = {}
    BY <1>5, <1>10
  <2>2. o \in owners
    BY <1>7, <1>10
  <2>3. after(o) = {i} /\ Blames'[o] = First(after(o))
    BY <1>6, <1>8, <2>1, <2>2
  <2> HIDE DEF after
  <2> QED
    BY <1>1, <2>3, FirstOfOne
<1> HIDE DEF owners
<1>11. Blames' = With(Blames, owners, i)
  <2>1. \A o \in DOMAIN Blames' : Blames'[o] = IF o \in DOMAIN Blames THEN Blames[o] ELSE i
    BY <1>9, <1>10
  <2>2. Blames' = [o \in DOMAIN Blames' |-> Blames'[o]]
    BY <1>6
  <2>3. Blames' = [o \in DOMAIN Blames \cup owners |->
                     IF o \in DOMAIN Blames THEN Blames[o] ELSE i]
    BY <1>7, <2>1, <2>2
  <2> QED
    BY <2>3 DEF With
<1> QED
  BY <1>9, <1>11 DEF owners

(* The codes of a component never blame its owner: that is said under the  *)
(* directory that the owner has.                                           *)
LEMMA NoOwnerIsDue ==
  ASSUME NEW text, NEW o \in Outcome
  PROVE  "UNSAFE_OWNER" \notin DirectoryCodes(text, o)
<1>1. o.codes \subseteq {"GROUP_WRITABLE", "WORLD_WRITABLE"}
  BY DEF Outcome, Permissions
<1> QED
  BY <1>1 DEF DirectoryCodes

LEMMA NoOwnerWasDue ==
  ASSUME InspectedInv, TypesInv, NEW r \in Classified
  PROVE  "UNSAFE_OWNER" \notin Due(r)
<1> DEFINE text == roots[r].text
<1>1. text \in DOMAIN fs \/ (text = <<>> /\ mode # "command")
  BY DEF InspectedInv
<1>2. text \in DOMAIN fs => fs[text] \in Outcome
  BY PathauditAssumption DEF TypesInv, SeenInv
<1>3. "UNSAFE_OWNER" \notin (IF text = <<>> THEN {"EMPTY_ROOT"} ELSE DirectoryCodes(text, fs[text]))
  BY <1>1, <1>2, NoOwnerIsDue
<1> QED
  BY <1>3 DEF Due

(* While the components are inspected, only a search for one command has   *)
(* tried candidates.                                                       *)
LEMMA TriedWhileInspecting ==
  ASSUME ModesInv, InspectedInv, TablesInv, pc \in {"classify", "query"}, NEW x \in Executed
  PROVE  /\ mode = "command" /\ x[1] \in Classified /\ x[2] = command /\ Holds(x[1])
         /\ Hit(x[1], x[2]) = exe[<<roots[x[1]].text, command>>]
         /\ Hit(x[1], x[2]) \in Realpaths
<1>1. mode = "command" /\ x[1] \in Classified /\ x[2] = command /\ Holds(x[1])
  BY DEF ModesInv, Executed, Scanning, Completed
<1>2. <<roots[x[1]].text, command>> \in DOMAIN exe
  BY <1>1 DEF InspectedInv
<1>3. Hit(x[1], x[2]) = exe[<<roots[x[1]].text, command>>]
  BY <1>1 DEF Hit
<1>4. Hit(x[1], x[2]) \in {NoMatch, Uninspected} \cup Realpaths
  BY <1>2, <1>3 DEF TablesInv, ExeInv
<1> QED
  BY <1>1, <1>3, <1>4 DEF Holds, Match

LEMMA OwnersAreStrangers ==
  ASSUME NEW k, k = i, ModesInv, InspectedInv, TypesInv, TablesInv, RejectInv, Inspects,
         NEW o \in Outcomes, NEW owner \in ToSet(o.owners), "UNSAFE_OWNER" \notin Due(k)'
  PROVE  Stranger(owner, Directs', Trusts)
<1>1. ASSUME NEW r \in DOMAIN Directs' PROVE "UNSAFE_OWNER" \notin Directs'[r].codes
  <2>1. r \in Classified \cup {i}
    BY OneMoreIsClassified DEF Directs
  <2>2. Directs'[r].codes = Due(r)'
    BY DEF Directs
  <2>3. r \in Classified => Due(r)' = Due(r)
    BY InspectionsStay DEF Inspects
  <2> QED
    BY <2>1, <2>2, <2>3, NoOwnerWasDue
<1>2. ASSUME NEW x \in DOMAIN Trusts PROVE Trusts[x].root # owner
  <2>1. x \in Executed /\ Trusts[x].root = Hit(x[1], x[2])
    BY DEF Trusts
  <2>2. Hit(x[1], x[2]) \in Realpaths
    BY <2>1, TriedWhileInspecting DEF Inspects
  <2>3. PICK n \in DOMAIN o.owners : owner = o.owners[n]
    BY DEF ToSet
  <2> QED
    BY <2>1, <2>2, <2>3, PathauditAssumption DEF Realpaths
<1> QED
  BY <1>1, <1>2 DEF Stranger

LEMMA RootsAreTyped ==
  ASSUME TypesInv, NEW r \in DOMAIN roots
  PROVE  roots[r].text \in Seq(Nat) /\ roots[r].index \in 1 .. MaxCount
<1> DEFINE T == RootType
<1>1. roots \in Seq(T)
  BY DEF TypesInv, TypeOK, RootType
<1> HIDE DEF T
<1>2. roots[r] \in T
  BY <1>1
<1> QED
  BY <1>2 DEF T, RootType

LEMMA RootsAreNumbered ==
  ASSUME SplitInv, mode # "roots", NEW r \in DOMAIN roots
  PROVE  roots[r].index = r
BY DEF SplitInv, ComponentsInv, Piece

LEMMA DirectsTally ==
  ASSUME NEW k, k = i, InspectedInv, RejectInv, TypesInv, Inspects,
         Tally(findings, Directs, Trusts, Blames)
  PROVE  Tally(findings \o Finding(roots[i].text, roots[i].index, Due(k)'),
               Directs', Trusts, Blames)
<1> DEFINE call == [root |-> roots[i].text, index |-> roots[i].index, codes |-> Due(k)']
<1>1. ByOne(Directs, Directs', i, call)
  BY DirectsGrow
<1>2. call.root \in Seq(Nat) /\ call.index \in 1 .. MaxCount
  BY RootsAreTyped DEF Inspects
<1> HIDE DEF call
<1>3. Tally(findings \o Finding(call.root, call.index, call.codes), Directs', Trusts, Blames)
  BY <1>1, <1>2, TallyGrows
<1> QED
  BY <1>3 DEF call

LEMMA OwnersTally ==
  ASSUME NEW k, k = i, ModesInv, InspectedInv, TypesInv, TablesInv, RejectInv, SplitInv, Inspects,
         mode # "roots", NEW o \in Outcomes, "UNSAFE_OWNER" \notin Due(k)',
         fs'[roots[i].text] = o, Relevant(k)',
         NEW buf, Tally(buf, Directs', Trusts, Blames)
  PROVE  Tally(NoteOwners(buf, o, roots[i].index), Directs', Trusts, Blames')
<1> DEFINE index == roots[i].index
           owners == IF o.kind \in {"dir", "shut"} THEN ToSet(o.owners) ELSE {}
<1>1. i \in DOMAIN roots /\ UNCHANGED roots
  BY DEF Inspects
<1>2. index = i /\ index \in 1 .. MaxCount
  BY <1>1, RootsAreTyped, RootsAreNumbered
<1>3. o \in Outcome
  BY PathauditAssumption
<1>4. Owners(k)' = owners
  BY <1>1 DEF Owners
<1>5. Blames' = With(Blames, owners, i) /\ \A x \in DOMAIN Blames : Blames[x] \in 1 .. i
  BY <1>4, BlamesGrow
<1>6. \A x \in ToSet(o.owners) : Stranger(x, Directs', Trusts)
  BY OwnersAreStrangers
<1> HIDE DEF index
<1>7. Tally(NoteOwners(buf, o, index), Directs', Trusts, With(Blames, owners, index))
  BY <1>2, <1>3, <1>5, <1>6, OwnersNoted
<1> QED
  BY <1>2, <1>5, <1>7 DEF index

LEMMA NoOwnersTally ==
  ASSUME NEW k, k = i, InspectedInv, RejectInv, Inspects, ~Relevant(k)',
         NEW buf, Tally(buf, Directs', Trusts, Blames)
  PROVE  Tally(buf, Directs', Trusts, Blames')
<1>1. Blames' = With(Blames, {}, i)
  BY BlamesGrow
<1>2. With(Blames, {}, i) = [o \in DOMAIN Blames |-> Blames[o]]
  BY DEF With
<1>3. Blames = [o \in DOMAIN Blames |-> Blames[o]]
  BY DEF Blames
<1> QED
  BY <1>1, <1>2, <1>3

LEMMA InspectedGrows ==
  ASSUME NEW k, k = i, InspectedInv, RejectInv, Inspects,
         roots[i].text \in DOMAIN fs' \/ (roots[i].text = <<>> /\ mode # "command"),
         mode = "command" => <<roots[i].text, command>> \in DOMAIN exe',
         pc = "query" => mode = "command" /\ (seen_match' <=> seen_match \/ Holds(k)')
  PROVE  InspectedInv'
<1>1. Classified' = Classified \cup {i} /\ UNCHANGED <<pc, mode, command, roots>>
  BY OneMoreIsClassified DEF Inspects
<1>2. ASSUME NEW r \in Classified'
      PROVE  /\ roots'[r].text \in DOMAIN fs' \/ (roots'[r].text = <<>> /\ mode' # "command")
             /\ mode' = "command" => <<roots'[r].text, command'>> \in DOMAIN exe'
  BY <1>1, <1>2 DEF InspectedInv, Inspects, Remembered, Retained
<1>3. ASSUME pc' = "query" PROVE seen_match' <=> \E r \in Classified' : Holds(r)'
  <2>1. \A r \in Classified : Holds(r)' = Holds(r)
    BY <1>1, <1>3, InspectionsStay DEF Inspects
  <2>2. seen_match <=> \E r \in Classified : Holds(r)
    BY <1>1, <1>3 DEF InspectedInv
  <2> QED
    BY <1>1, <1>3, <2>1, <2>2
<1> QED
  BY <1>2, <1>3 DEF InspectedInv

LEMMA FindingsClassify ==
  ASSUME FindingsInv, RejectInv, SplitInv, TypesInv, TablesInv, Classify
  PROVE  FindingsInv'
<1> DEFINE text == roots[i].text
           index == roots[i].index
<1>0. PICK k : k = i
  OBVIOUS
<1>1. /\ pc = "classify" /\ i \in DOMAIN roots /\ UNCHANGED exe /\ Alive /\ Retained
      /\ Remembered
  BY LaterSteps DEF Classify, Alive, Retained, LaterActions
<1>2. /\ ModesInv /\ InspectedInv /\ Tally(findings, Directs, Trusts, Blames)
      /\ mode \in {"path", "roots"}
  BY <1>1 DEF FindingsInv, ModesInv
<1>3. CASE Fail("INSPECTION_ERROR")
  BY <1>3 DEF Fail, FindingsInv, Alive
<1>4. CASE i' = i + 1 /\ UNCHANGED <<pc, mode, command, roots, matches>>
  <2>1. Inspects
    BY <1>1, <1>4 DEF Inspects
  <2>2. Trusts' = Trusts
    <3>1. Executed = {} /\ Executed' = {}
      BY <1>1, <1>2, <1>4 DEF Executed, Scanning, Completed
    <3> QED
      BY <3>1 DEF Trusts
  <2>3. Tally(findings \o Finding(text, index, Due(k)'), Directs', Trusts, Blames)
    BY <1>0, <1>2, <2>1, DirectsTally
  <2>4. ASSUME InspectedInv', Tally(findings', Directs', Trusts, Blames')
        PROVE  FindingsInv'
    BY <1>1, <1>2, <1>4, <2>2, <2>4 DEF FindingsInv, ModesInv, Completed
  <2>5. CASE text = <<>> /\ findings' = findings \o Finding(<<>>, index, {"EMPTY_ROOT"})
    <3>1. Due(k)' = {"EMPTY_ROOT"} /\ ~Relevant(k)'
      BY <1>0, <1>2, <1>4, <2>5 DEF Due, Relevant
    <3>2. InspectedInv'
      BY <1>0, <1>1, <1>2, <2>1, <2>5, InspectedGrows
    <3>3. Tally(findings', Directs', Trusts, Blames)
      BY <2>3, <2>5, <3>1
    <3> QED
      BY <1>0, <1>2, <2>1, <2>4, <3>1, <3>2, <3>3, NoOwnersTally
  <2>6. ASSUME NEW o \in Found(text), Looked(text, o), text # <<>>,
               LET direct == findings \o Finding(text, index, DirectoryCodes(text, o))
               IN  findings' = IF mode = "path" THEN NoteOwners(direct, o, index) ELSE direct
        PROVE  FindingsInv'
    <3> DEFINE direct == findings \o Finding(text, index, DirectoryCodes(text, o))
    <3>1. /\ o \in Outcomes /\ o \in Outcome /\ text \in DOMAIN fs' /\ fs'[text] = o
      BY <2>6, WhatIsSeenStays, PathauditAssumption DEF Found, TypesInv, SeenInv
    <3>2. Due(k)' = DirectoryCodes(text, o)
      BY <1>0, <1>2, <1>4, <2>6, <3>1 DEF Due
    <3>3. "UNSAFE_OWNER" \notin Due(k)'
      BY <3>1, <3>2, NoOwnerIsDue
    <3>4. InspectedInv'
      BY <1>0, <1>1, <1>2, <2>1, <3>1, InspectedGrows
    <3>5. Tally(direct, Directs', Trusts, Blames)
      BY <2>3, <3>2
    <3> HIDE DEF direct
    <3>6. CASE mode = "path"
      <4>1. Relevant(k)'
        BY <1>0, <1>4, <2>6, <3>6 DEF Relevant
      <4>2. findings' = NoteOwners(direct, o, index)
        BY <2>6, <3>6 DEF direct
      <4>3. Tally(NoteOwners(direct, o, index), Directs', Trusts, Blames')
        BY <1>0, <1>2, <2>1, <3>1, <3>3, <3>5, <3>6, <4>1, OwnersTally
      <4> QED
        BY <2>4, <3>4, <4>2, <4>3
    <3>7. CASE mode = "roots"
      <4>1. ~Relevant(k)'
        BY <1>0, <1>4, <3>7 DEF Relevant
      <4>2. findings' = direct
        BY <2>6, <3>7 DEF direct
      <4> QED
        BY <1>0, <1>2, <2>1, <2>4, <3>4, <3>5, <4>1, <4>2, NoOwnersTally
    <3> QED
      BY <1>2, <3>6, <3>7
  <2>7. CASE text = <<>>
    <3>1. findings' = findings \o Finding(<<>>, index, {"EMPTY_ROOT"})
      BY <2>7 DEF Classify
    <3> QED
      BY <2>5, <2>7, <3>1
  <2>8. CASE text # <<>>
    <3>1. PICK o \in Found(text) :
            /\ Looked(text, o)
            /\ \/ Fail("INSPECTION_ERROR")
               \/ LET direct == findings \o Finding(text, index, DirectoryCodes(text, o))
                  IN  findings' = IF mode = "path" THEN NoteOwners(direct, o, index) ELSE direct
      BY <2>8, Zenon DEF Classify
    <3> QED
      BY <1>3, <2>6, <2>8, <3>1
  <2> QED
    BY <2>7, <2>8

<1> QED
  BY <1>3, <1>4 DEF Classify, invocation, query

LEMMA TrustsGrow ==
  ASSUME NEW k, k = i, ModesInv, InspectedInv, RejectInv, TypesInv, TablesInv, Inspects,
         mode = "command",
         NEW e, exe'[<<roots[i].text, command>>] = e
  PROVE  /\ Holds(k)' <=> Match(e)
         /\ ~Match(e) => Trusts' = Trusts
         /\ Match(e) => ByOne(Trusts, Trusts', <<i, command>>,
                              [root |-> e, index |-> roots[i].index, codes |-> Trust[e[1]]])
<1>1. /\ Classified' = Classified \cup {i} /\ i \notin Classified /\ command \in Commands
      /\ UNCHANGED <<mode, command, roots>> /\ i \in DOMAIN roots
  BY OneMoreIsClassified DEF Inspects, TypesInv
<1>2. (Holds(k)' <=> Match(e)) /\ Hit(k, command)' = e
  BY <1>1 DEF Holds, Hit
<1>3. \A r \in Classified : Holds(r)' = Holds(r)
  BY InspectionsStay DEF Inspects
<1>4. /\ Executed = {x \in (DOMAIN roots) \X Commands :
                       x[1] \in Classified /\ x[2] = command /\ Holds(x[1])}
      /\ Executed' = {x \in (DOMAIN roots) \X Commands :
                        x[1] \in Classified' /\ x[2] = command /\ Holds(x[1])'}
  BY <1>1 DEF Executed
<1>5. Executed' = Executed \cup (IF Match(e) THEN {<<i, command>>} ELSE {})
  <2>1. ASSUME NEW x \in (DOMAIN roots) \X Commands
        PROVE  x \in Executed' <=> x \in Executed \/ (Match(e) /\ x = <<i, command>>)
    <3>1. CASE x[1] = i
      BY <1>1, <1>2, <1>4, <3>1
    <3>2. CASE x[1] # i
      BY <1>1, <1>3, <1>4, <3>2
    <3> QED
      BY <3>1, <3>2
  <2>2. <<i, command>> \in (DOMAIN roots) \X Commands
    BY <1>1
  <2> QED
    BY <1>4, <2>1, <2>2
<1>6. <<i, command>> \notin Executed
  BY <1>1, <1>4
<1>7. ASSUME NEW x \in Executed
      PROVE  /\ Hit(x[1], x[2])' = Hit(x[1], x[2])
             /\ x \in Executed'
             /\ Trusts'[x] = Trusts[x]
  <2>1. <<roots[x[1]].text, x[2]>> \in DOMAIN exe
    BY <1>4 DEF InspectedInv
  <2>2. Hit(x[1], x[2])' = Hit(x[1], x[2])
    BY <1>1, <2>1 DEF Hit, Inspects, Retained
  <2>3. x \in Executed'
    BY <1>5
  <2> QED
    BY <1>1, <2>2, <2>3 DEF Trusts
<1>8. DOMAIN Trusts = Executed /\ DOMAIN Trusts' = Executed'
  BY DEF Trusts
<1>9. CASE Match(e)
  <2>1. Trusts'[<<i, command>>] = [root |-> e, index |-> roots[i].index, codes |-> Trust[e[1]]]
    BY <1>1, <1>2, <1>5, <1>9 DEF Trusts
  <2> QED
    BY <1>2, <1>5, <1>6, <1>7, <1>8, <1>9, <2>1 DEF ByOne
<1>10. CASE ~Match(e)
  <2>1. DOMAIN Trusts' = DOMAIN Trusts
    BY <1>5, <1>8, <1>10
  <2>2. Trusts' = [x \in DOMAIN Trusts' |-> Trusts'[x]] /\ Trusts = [x \in DOMAIN Trusts |-> Trusts[x]]
    BY DEF Trusts
  <2> QED
    BY <1>2, <1>7, <1>8, <1>10, <2>1, <2>2
<1> QED
  BY <1>9, <1>10

LEMMA TrustsTally ==
  ASSUME TypesInv, i \in DOMAIN roots, NEW e \in Realpaths, NEW buf, NEW d, NEW b,
         Tally(buf, d, Trusts, b), NEW k,
         ByOne(Trusts, Trusts', k, [root |-> e, index |-> roots[i].index, codes |-> Trust[e[1]]])
  PROVE  Tally(buf \o TrustFindings(e, roots[i].index), d, Trusts', b)
<1> DEFINE call == [root |-> e, index |-> roots[i].index, codes |-> Trust[e[1]]]
<1>1. ByOne(Trusts, Trusts', k, call) /\ call.root \in Seq(Nat) /\ call.index \in 1 .. MaxCount
  BY RealpathsAreTexts, RootsAreTyped
<1>2. Finding(call.root, call.index, call.codes) = TrustFindings(e, roots[i].index)
  BY DEF TrustFindings
<1> HIDE DEF call
<1>3. Tally(buf \o Finding(call.root, call.index, call.codes), d, Trusts', b)
  BY <1>1, TallyGrows
<1> QED
  BY <1>2, <1>3

(* What is due of a component of a search is what classify_command_        *)
(* component() says of it.                                                 *)
LEMMA QueriesAreDue ==
  ASSUME NEW k, k = i, InspectedInv, RejectInv, Inspects, pc = "query", mode = "command",
         NEW e, exe'[<<roots[i].text, command>>] = e, NEW o, fs'[roots[i].text] = o
  PROVE  /\ Relevant(k)' <=> Applicable(e)
         /\ Due(k)' = QueryCodes(roots[i].text, o, e)
<1> DEFINE text == roots[i].text
<1>1. /\ Classified = 1 .. i - 1 /\ UNCHANGED <<mode, command, roots>>
      /\ \A r \in Classified : Holds(r)' = Holds(r)
  BY OneMoreIsClassified, InspectionsStay DEF Inspects
<1>2. Holds(k)' <=> Match(e)
  BY <1>1 DEF Holds
<1>3. seen_match <=> \E r \in Classified : Holds(r)
  BY DEF InspectedInv
<1>4. Relevant(k)' <=> Applicable(e)
  BY <1>1, <1>2, <1>3 DEF Relevant, Applicable
<1>5. Due(k)' = LET all == IF text = <<>> THEN {"EMPTY_ROOT"} ELSE DirectoryCodes(text, o)
                IN  {c \in all : /\ c \in Permissions => Relevant(k)'
                                 /\ c \in {"MISSING_ROOT", "NON_DIRECTORY_ROOT"} => Relative(text)}
  BY <1>1 DEF Due
<1>6. CASE text = <<>>
  <2>1. QueryCodes(text, o, e) = {"EMPTY_ROOT"}
    BY <1>6 DEF QueryCodes
  <2>2. Due(k)' = {c \in {"EMPTY_ROOT"} :
                     /\ c \in Permissions => Relevant(k)'
                     /\ c \in {"MISSING_ROOT", "NON_DIRECTORY_ROOT"} => Relative(text)}
    BY <1>5, <1>6
  <2>3. "EMPTY_ROOT" \notin Permissions
    BY DEF Permissions
  <2>4. Due(k)' = {"EMPTY_ROOT"}
    BY <2>2, <2>3
  <2> QED
    BY <1>4, <2>1, <2>4
<1>7. CASE text # <<>>
  <2>1. Due(k)' = {c \in DirectoryCodes(text, o) :
                     /\ c \in Permissions => Applicable(e)
                     /\ c \in {"MISSING_ROOT", "NON_DIRECTORY_ROOT"} => Relative(text)}
    BY <1>4, <1>5, <1>7
  <2>2. QueryCodes(text, o, e)
          = DirectoryCodes(text, o)
              \ ((IF Relative(text) THEN {} ELSE {"MISSING_ROOT", "NON_DIRECTORY_ROOT"})
                 \cup (IF Applicable(e) THEN {} ELSE Permissions))
    BY <1>7 DEF QueryCodes
  <2> HIDE DEF text
  <2>3. Due(k)' = QueryCodes(text, o, e)
    BY <2>1, <2>2, SMTT(30)
  <2> QED
    BY <1>4, <2>3 DEF text

<1> QED
  BY <1>4, <1>6, <1>7

LEMMA FindingsQuery ==
  ASSUME FindingsInv, RejectInv, SplitInv, TypesInv, TablesInv, Query
  PROVE  FindingsInv'
<1> DEFINE text == roots[i].text
           index == roots[i].index
<1>0. PICK k : k = i
  OBVIOUS
<1>1. pc = "query" /\ i \in DOMAIN roots /\ Alive /\ Remembered
  BY LaterSteps DEF Query, Alive, LaterActions
<1>2. /\ ModesInv /\ InspectedInv /\ Tally(findings, Directs, Trusts, Blames)
      /\ mode = "command"
  BY <1>1 DEF FindingsInv, ModesInv
<1> DEFINE Owned(o, e) == LET direct == findings \o Finding(text, index, QueryCodes(text, o, e))
                          IN  IF Applicable(e) THEN NoteOwners(direct, o, index) ELSE direct
<1>3. PICK o \in Found(text) : \E e \in Candidate(text, o, command) :
        /\ Looked(text, o) /\ Tried(text, command, e)
        /\ \/ Fail("INSPECTION_ERROR")
           \/ /\ findings' = IF Match(e) THEN Owned(o, e) \o TrustFindings(e, index) ELSE Owned(o, e)
              /\ seen_match' = (seen_match \/ Match(e))
              /\ i' = i + 1 /\ UNCHANGED <<pc, mode, command, roots>>
  BY ZenonT(60) DEF Query, invocation
<1>4. PICK e \in Candidate(text, o, command) :
        /\ Looked(text, o) /\ Tried(text, command, e)
        /\ \/ Fail("INSPECTION_ERROR")
           \/ /\ findings' = IF Match(e) THEN Owned(o, e) \o TrustFindings(e, index) ELSE Owned(o, e)
              /\ seen_match' = (seen_match \/ Match(e))
              /\ i' = i + 1 /\ UNCHANGED <<pc, mode, command, roots>>
  BY <1>3
<1>5. CASE Fail("INSPECTION_ERROR")
  BY <1>5 DEF Fail, FindingsInv, Alive
<1>6. CASE /\ findings' = IF Match(e) THEN Owned(o, e) \o TrustFindings(e, index) ELSE Owned(o, e)
           /\ seen_match' = (seen_match \/ Match(e))
           /\ i' = i + 1 /\ UNCHANGED <<pc, mode, command, roots>>
  <2>1. /\ o \in Outcomes /\ o \in Outcome /\ text \in DOMAIN fs' /\ fs'[text] = o
    BY <1>4, WhatIsSeenStays, PathauditAssumption, SMTT(30) DEF Found, TypesInv, SeenInv
  <2>2. Retained /\ <<text, command>> \in DOMAIN exe' /\ exe'[<<text, command>>] = e
    BY <1>4, WhatIsTriedStays
  <2>3. Inspects
    BY <1>1, <1>6, <2>2 DEF Inspects
  <2>4. /\ Holds(k)' <=> Match(e)
        /\ ~Match(e) => Trusts' = Trusts
        /\ Match(e) => ByOne(Trusts, Trusts', <<i, command>>,
                             [root |-> e, index |-> index, codes |-> Trust[e[1]]])
    BY <1>0, <1>2, <2>2, <2>3, TrustsGrow
  <2>5. (Relevant(k)' <=> Applicable(e)) /\ Due(k)' = QueryCodes(text, o, e)
    BY <1>0, <1>1, <1>2, <2>1, <2>2, <2>3, QueriesAreDue
  <2>6. "UNSAFE_OWNER" \notin Due(k)'
    <3>1. "UNSAFE_OWNER" \notin DirectoryCodes(text, o)
      BY <2>1, NoOwnerIsDue
    <3> QED
      BY <2>5, <3>1 DEF QueryCodes
  <2>7. InspectedInv'
    BY <1>0, <1>2, <1>6, <2>1, <2>2, <2>3, <2>4, InspectedGrows
  <2> DEFINE direct == findings \o Finding(text, index, QueryCodes(text, o, e))
             owned == Owned(o, e)
  <2>8. Tally(direct, Directs', Trusts, Blames)
    BY <1>0, <1>2, <2>3, <2>5, DirectsTally
  <2>9. owned = IF Applicable(e) THEN NoteOwners(direct, o, index) ELSE direct
    OBVIOUS
  <2> HIDE DEF direct, owned
  <2>10. Tally(owned, Directs', Trusts, Blames')
    <3>1. CASE Applicable(e)
      <4>1. Tally(NoteOwners(direct, o, index), Directs', Trusts, Blames')
        BY <1>0, <1>2, <2>1, <2>3, <2>5, <2>6, <2>8, <3>1, OwnersTally
      <4> QED
        BY <2>9, <3>1, <4>1
    <3>2. CASE ~Applicable(e)
      BY <1>0, <1>2, <2>3, <2>5, <2>8, <2>9, <3>2, NoOwnersTally
    <3> QED
      BY <3>1, <3>2
  <2>11. findings' = IF Match(e) THEN owned \o TrustFindings(e, index) ELSE owned
    BY <1>6 DEF owned
  <2>12. Tally(findings', Directs', Trusts', Blames')
    <3>1. CASE Match(e)
      <4>1. e \in Realpaths
        BY <3>1, CandidatesAreKnown DEF Match, TablesInv
      <4>2. Tally(owned \o TrustFindings(e, index), Directs', Trusts', Blames')
        BY <1>1, <2>4, <2>10, <3>1, <4>1, TrustsTally
      <4> QED
        BY <2>11, <3>1, <4>2
    <3>2. CASE ~Match(e)
      BY <2>4, <2>10, <2>11, <3>2
    <3> QED
      BY <3>1, <3>2
  <2> QED
    BY <1>1, <1>2, <1>6, <2>7, <2>12, SMTT(30) DEF FindingsInv, ModesInv, Completed
<1> QED
  BY <1>4, <1>5, <1>6

LEMMA NothingIsCounted ==
  ASSUME NEW d, NEW t, NEW b, DOMAIN d = {}, DOMAIN t = {}, DOMAIN b = {}
  PROVE  Tally(<<>>, d, t, b)
<1>1. ASSUME NEW f \in FindingType
      PROVE  Often(<<>>, f) = Called(d, f) + Called(t, f) + Unit(Owed(b, f))
  <2>1. /\ {k \in DOMAIN <<>> : <<>>[k] = f} = {}
        /\ {k \in DOMAIN d : Asks(d[k], f)} = {} /\ {k \in DOMAIN t : Asks(t[k], f)} = {}
    OBVIOUS
  <2>2. Often(<<>>, f) = 0 /\ Called(d, f) = 0 /\ Called(t, f) = 0
    BY <2>1, FS_EmptySet DEF Often, Called
  <2>3. Unit(Owed(b, f)) = 0
    BY DEF Owed, Unit
  <2> QED
    BY <2>2, <2>3
<1>2. <<>> \in Seq(FindingType) /\ IsFiniteSet({})
  BY FS_EmptySet
<1> QED
  BY <1>1, <1>2 DEF Tally

(* Before the first component is inspected. *)
LEMMA FindingsBegin ==
  ASSUME FindingsInv, RejectInv', TypesInv, pc \in {"load", "split", "join"},
         pc' \in {"load", "split", "join", "classify", "query"},
         pc' \in {"classify", "query"} => i' = 1,
         pc' = "classify" => mode # "command", pc' = "query" => mode = "command",
         UNCHANGED <<mode, findings, matches, seen_match>>
  PROVE  FindingsInv'
<1>1. /\ ModesInv /\ findings = <<>> /\ matches = <<>>
  BY DEF FindingsInv, Alive, ModesInv
<1>2. Classified' = {}
  <2>1. \A r \in DOMAIN roots' : r \in Nat /\ r >= 1
    BY DEF RejectInv
  <2>2. pc' \in {"classify", "query"} => \A r \in DOMAIN roots' : ~(r < i')
    BY <2>1
  <2> QED
    BY <2>2 DEF Classified
<1>3. Executed' = {}
  BY <1>2 DEF Executed, Scanning, Completed
<1>4. DOMAIN Directs' = {} /\ DOMAIN Trusts' = {} /\ DOMAIN Blames' = {}
  BY <1>2, <1>3 DEF Directs, Trusts, Blames, Blamed
<1>5. Tally(findings', Directs', Trusts', Blames')
  BY <1>1, <1>4, NothingIsCounted
<1>6. ~seen_match'
  <2>1. seen_match = (matches # <<>>)
    BY DEF TypesInv, TypeOK
  <2> QED
    BY <1>1, <2>1
<1>7. InspectedInv'
  BY <1>2, <1>6 DEF InspectedInv
<1> QED
  BY <1>1, <1>5, <1>7 DEF FindingsInv, ModesInv, Completed

(* While nothing is looked at, nothing else should be said. *)
LEMMA CallsStay ==
  ASSUME UNCHANGED <<mode, command, roots, fs, exe>>, Classified' = Classified,
         Executed' = Executed
  PROVE  /\ Directs' = Directs /\ Trusts' = Trusts /\ Blames' = Blames
         /\ \A r : Holds(r)' <=> Holds(r)
<1>1. \A r : Relevant(r)' <=> Relevant(r)
  BY DEF Relevant, Holds
<1>2. \A r : Due(r)' = Due(r) /\ Owners(r)' = Owners(r)
  BY <1>1 DEF Due, Owners
<1>3. \A r, c : Hit(r, c)' = Hit(r, c)
  BY DEF Hit
<1>4. Blamed' = Blamed
  BY <1>1 DEF Blamed
<1>5. Directs' = Directs
  BY <1>2 DEF Directs
<1>6. Trusts' = Trusts
  BY <1>3 DEF Trusts
<1>7. Blames' = Blames
  BY <1>2, <1>4 DEF Blames
<1> QED
  BY <1>5, <1>6, <1>7 DEF Holds

LEMMA QuietKeepsFindings ==
  ASSUME FindingsInv, Alive, pc \notin {"load", "split", "join"},
         UNCHANGED <<mode, command, roots, fs, exe>>,
         Classified' = Classified, Executed' = Executed,
         pc' \notin {"load", "split", "join", "classify", "query"},
         pc' \in {"scan", "entries"} => mode = "path",
         Tally(findings', Directs, Trusts, Blames),
         pc' = "emit" \/ Completed' => InRanks(findings'),
         Completed' => out' = Lines'
  PROVE  FindingsInv'
<1>1. ModesInv /\ InspectedInv
  BY DEF FindingsInv
<1>2. Tally(findings', Directs', Trusts', Blames')
  BY CallsStay
<1>3. InspectedInv'
  BY <1>1 DEF InspectedInv
<1>4. ModesInv'
  BY <1>1 DEF ModesInv
<1> QED
  BY <1>2, <1>3, <1>4 DEF FindingsInv, Completed

LEMMA AllAreClassified ==
  ASSUME RejectInv, pc \notin {"load", "split", "join"},
         pc \in {"classify", "query"} => i \notin DOMAIN roots
  PROVE  Classified = DOMAIN roots
<1>1. PICK n \in Nat : DOMAIN roots = 1 .. n
  BY DEF RejectInv
<1>2. i \in Nat \ {0}
  BY DEF RejectInv
<1>3. i \notin 1 .. n => \A r \in 1 .. n : r < i
  BY <1>2
<1> QED
  BY <1>1, <1>3 DEF Classified

(* The same components are visited. *)
LEMMA VisitedAreExecuted ==
  ASSUME UNCHANGED <<mode, command, roots, fs, exe>>, Scanning, Scanning',
         Classified' = Classified,
         \A c \in Commands : \A r \in DOMAIN roots :
           Scanned(r) => ((r < i \/ (r = i /\ pc = "entries" /\ c \notin left))
                            <=> (r < i' \/ (r = i' /\ pc' = "entries" /\ c \notin left')))
  PROVE  Executed' = Executed
<1>1. \A c \in Commands : Visited(c)' = Visited(c)
  BY VisitsStay
<1>2. \A r, c : Hit(r, c)' = Hit(r, c)
  BY DEF Hit
<1>3. \A c \in Commands : Seen(c)' = Seen(c)
  BY <1>1, <1>2 DEF Seen
<1>4. \A r : Holds(r)' <=> Holds(r)
  BY DEF Holds
<1>5. \A x \in (DOMAIN roots) \X Commands : x[2] \in Commands
  OBVIOUS
<1> QED
  BY <1>3, <1>4, <1>5 DEF Executed

LEMMA FindingsScan ==
  ASSUME FindingsInv, RejectInv, ScanOpen \/ ScanEnds \/ AllScanned
  PROVE  FindingsInv'
<1>1. pc \in {"scan", "entries"} /\ Alive /\ ModesInv /\ mode = "path"
  BY DEF ScanOpen, ScanEnds, AllScanned, Alive, FindingsInv, ModesInv
<1>2. i \in Nat \ {0} /\ \E n \in Nat : DOMAIN roots = 1 .. n
  BY DEF RejectInv
<1>3. ASSUME pc' \in {"scan", "entries", "sort"},
             UNCHANGED <<mode, command, roots, fs, exe, findings>>,
             \A c \in Commands : \A r \in DOMAIN roots :
               Scanned(r) => ((r < i \/ (r = i /\ pc = "entries" /\ c \notin left))
                                <=> (r < i' \/ (r = i' /\ pc' = "entries" /\ c \notin left')))
      PROVE  FindingsInv'
  <2>1. Classified' = Classified
    BY <1>1, <1>3 DEF Classified
  <2>2. Executed' = Executed
    BY <1>1, <1>3, <2>1, VisitedAreExecuted DEF Scanning
  <2>3. Tally(findings', Directs, Trusts, Blames)
    BY <1>1, <1>3 DEF FindingsInv
  <2> QED
    BY <1>1, <1>3, <2>1, <2>2, <2>3, QuietKeepsFindings DEF Completed
<1>4. CASE ScanOpen
  <2>1. /\ pc = "scan" /\ pc' \in {"scan", "entries"}
        /\ UNCHANGED <<mode, command, roots, fs, exe, findings>>
        /\ \/ Scanned(i) /\ pc' = "entries" /\ left' = Commands /\ i' = i
           \/ ~Scanned(i) /\ pc' = "scan" /\ i' = i + 1
    BY <1>4 DEF ScanOpen, Scanned, invocation, disk
  <2>2. \A c \in Commands : \A r \in DOMAIN roots :
          Scanned(r) => ((r < i \/ (r = i /\ pc = "entries" /\ c \notin left))
                           <=> (r < i' \/ (r = i' /\ pc' = "entries" /\ c \notin left')))
    BY <1>2, <2>1
  <2> QED
    BY <1>3, <2>1, <2>2
<1>5. CASE ScanEnds
  <2>1. CASE Fail("INSPECTION_ERROR")
    BY <2>1 DEF Fail, FindingsInv, Alive
  <2>2. CASE /\ pc = "entries" /\ left = {} /\ pc' = "scan" /\ i' = i + 1
             /\ UNCHANGED <<invocation, tied, roots, j, disk, left, findings, tables, query,
                            result>>
    <3>1. UNCHANGED <<mode, command, roots, fs, exe, findings>>
      BY <2>2 DEF invocation, disk
    <3>2. \A c \in Commands : \A r \in DOMAIN roots :
            Scanned(r) => ((r < i \/ (r = i /\ pc = "entries" /\ c \notin left))
                             <=> (r < i' \/ (r = i' /\ pc' = "entries" /\ c \notin left')))
      BY <1>2, <2>2
    <3> QED
      BY <1>3, <2>2, <3>1, <3>2
  <2> QED
    BY <1>5, <2>1, <2>2 DEF ScanEnds
<1>6. CASE AllScanned
  <2>1. /\ pc = "scan" /\ pc' = "sort" /\ i \notin DOMAIN roots /\ UNCHANGED i
        /\ UNCHANGED <<mode, command, roots, fs, exe, findings>>
    BY <1>6 DEF AllScanned, invocation, loops, disk
  <2>2. \A c \in Commands : \A r \in DOMAIN roots :
          Scanned(r) => ((r < i \/ (r = i /\ pc = "entries" /\ c \notin left))
                           <=> (r < i' \/ (r = i' /\ pc' = "entries" /\ c \notin left')))
    BY <2>1
  <2> QED
    BY <1>3, <2>1, <2>2
<1> QED
  BY <1>4, <1>5, <1>6

(* The inspection of the components ends. *)
LEMMA FindingsInspected ==
  ASSUME FindingsInv, RejectInv, RejectInv', ClassifyEnds \/ QueryEnds
  PROVE  FindingsInv'
<1>1. /\ pc \in {"classify", "query"} /\ Alive /\ ModesInv /\ i \notin DOMAIN roots
      /\ UNCHANGED <<mode, command, roots, fs, exe, findings>>
      /\ \/ mode = "path" /\ pc' = "scan" /\ i' = 1
         \/ mode # "path" /\ pc' = "sort"
  BY DEF ClassifyEnds, QueryEnds, Alive, FindingsInv, ModesInv, invocation, disk
<1>2. Classified' = DOMAIN roots /\ Classified = DOMAIN roots
  <2>1. Classified = DOMAIN roots
    BY <1>1, AllAreClassified
  <2>2. Classified' = DOMAIN roots'
    BY <1>1 DEF Classified
  <2> QED
    BY <1>1, <2>1, <2>2
<1>3. Executed' = Executed
  <2>1. CASE mode = "path"
    <3>1. Executed = {}
      BY <1>1, <2>1 DEF Executed, Scanning, Completed
    <3>2. \A r \in DOMAIN roots' : ~(r < i') /\ pc' = "scan"
      BY <1>1, <2>1 DEF RejectInv
    <3>3. \A c : Visited(c)' = {}
      BY <3>2 DEF Visited
    <3>4. Executed' = {}
      BY <1>1, <2>1, <3>3 DEF Executed, Seen
    <3> QED
      BY <3>1, <3>4
  <2>2. CASE mode # "path"
    <3>1. \A r : Holds(r)' <=> Holds(r)
      BY <1>1 DEF Holds
    <3> QED
      BY <1>1, <1>2, <2>2, <3>1 DEF Executed
  <2> QED
    BY <2>1, <2>2
<1>4. Tally(findings', Directs, Trusts, Blames)
  BY <1>1 DEF FindingsInv
<1> QED
  BY <1>1, <1>2, <1>3, <1>4, QuietKeepsFindings DEF Completed

LEMMA EntriesAreExecuted ==
  ASSUME AuditInv, RejectInv, mode = "path", pc = "entries", i \in DOMAIN roots,
         NEW c \in Commands, c \in left, NEW o, NEW e \in Candidate(roots[i].text, o, c),
         Tried(roots[i].text, c, e),
         UNCHANGED <<mode, pc, roots, fs, i>>, left' = left \ {c}
  PROVE  /\ ~Match(e) => Trusts' = Trusts
         /\ Match(e) => ByOne(Trusts, Trusts', <<i, c>>,
                              [root |-> e, index |-> roots[i].index, codes |-> Trust[e[1]]])
<1>1. /\ ~Match(e) => History' = History
      /\ Match(e) => Extends(History, History', c, i, e)
  <2>1. DOMAIN roots \subseteq Nat
    BY DEF RejectInv
  <2> QED
    BY <2>1, VisitsGrow
<1>2. /\ \A d \in Commands : /\ DOMAIN History[d] = Seen(d)
                             /\ \A r \in Seen(d) : History[d][r] = Hit(r, d)
      /\ \A d \in Commands : /\ DOMAIN History'[d] = Seen(d)'
                             /\ \A r \in Seen(d)' : History'[d][r] = Hit(r, d)'
  BY DEF History
<1>3. /\ Executed = {x \in (DOMAIN roots) \X Commands : x[1] \in DOMAIN History[x[2]]}
      /\ Executed' = {x \in (DOMAIN roots) \X Commands : x[1] \in DOMAIN History'[x[2]]}
      /\ \A x \in Executed : Hit(x[1], x[2]) = History[x[2]][x[1]]
      /\ \A x \in Executed' : Hit(x[1], x[2])' = History'[x[2]][x[1]]
  <2>1. Executed = {x \in (DOMAIN roots) \X Commands : x[1] \in Seen(x[2])}
    BY DEF Executed, Scanning
  <2>2. Executed' = {x \in (DOMAIN roots) \X Commands : x[1] \in Seen(x[2])'}
    BY DEF Executed, Scanning
  <2>3. \A x \in (DOMAIN roots) \X Commands : x[2] \in Commands
    OBVIOUS
  <2> QED
    BY <1>2, <2>1, <2>2, <2>3
<1> DEFINE call(g, x) == [root |-> g[x[2]][x[1]], index |-> roots[x[1]].index,
                          codes |-> Trust[g[x[2]][x[1]][1]]]
<1>4. /\ DOMAIN Trusts = Executed /\ DOMAIN Trusts' = Executed'
      /\ \A x \in Executed : Trusts[x] = call(History, x)
      /\ \A x \in Executed' : Trusts'[x] = call(History', x)
      /\ Trusts = [x \in Executed |-> Trusts[x]] /\ Trusts' = [x \in Executed' |-> Trusts'[x]]
  BY <1>3 DEF Trusts
<1>5. CASE ~Match(e)
  <2>1. Executed' = Executed /\ History' = History
    BY <1>1, <1>3, <1>5
  <2>2. \A x \in Executed : Trusts'[x] = Trusts[x]
    BY <1>4, <2>1
  <2> HIDE DEF call
  <2>3. Trusts' = Trusts
    BY <1>4, <2>1, <2>2
  <2> QED
    BY <1>5, <2>3
<1>6. CASE Match(e)
  <2> DEFINE g == History
             g2 == History'
             k == <<i, c>>
  <2> HIDE DEF g, g2
  <2>1. /\ DOMAIN g2[c] = DOMAIN g[c] \cup {i} /\ g2[c][i] = e
        /\ \A r \in DOMAIN g[c] : g2[c][r] = g[c][r] /\ r \in Nat /\ r < i
        /\ i \in Nat /\ \A d \in Commands \ {c} : g2[d] = g[d]
    BY <1>1, <1>6 DEF Extends, Longer, g, g2
  <2>2. i \notin DOMAIN g[c]
    BY <2>1
  <2>3. k \notin Executed
    BY <1>3, <2>2 DEF g
  <2>4. Executed' = Executed \cup {k}
    <3>1. ASSUME NEW x \in (DOMAIN roots) \X Commands
          PROVE  x[1] \in DOMAIN g2[x[2]] <=> x[1] \in DOMAIN g[x[2]] \/ x = k
      <4>1. CASE x[2] = c
        BY <2>1, <4>1
      <4>2. CASE x[2] # c
        BY <2>1, <4>2
      <4> QED
        BY <4>1, <4>2
    <3>2. k \in (DOMAIN roots) \X Commands
      OBVIOUS
    <3> HIDE DEF k
    <3> QED
      BY <1>3, <3>1, <3>2 DEF g, g2
  <2>5. ASSUME NEW x \in Executed PROVE Trusts'[x] = Trusts[x]
    <3>1. x[1] \in DOMAIN g[x[2]] /\ x[2] \in Commands
      BY <1>3 DEF g
    <3>2. g2[x[2]][x[1]] = g[x[2]][x[1]]
      BY <2>1, <3>1
    <3>3. call(g2, x) = call(g, x)
      BY <3>2
    <3> HIDE DEF call
    <3> QED
      BY <1>4, <2>4, <3>3 DEF g, g2
  <2>6. Trusts'[k] = [root |-> e, index |-> roots[i].index, codes |-> Trust[e[1]]]
    <3>1. call(g2, k) = [root |-> e, index |-> roots[i].index, codes |-> Trust[e[1]]]
      BY <2>1
    <3> HIDE DEF call, k
    <3> QED
      BY <1>4, <2>4, <3>1 DEF g2
  <2> QED
    BY <1>4, <1>6, <2>3, <2>4, <2>5, <2>6 DEF ByOne
<1> QED
  BY <1>5, <1>6

LEMMA FindingsEntry ==
  ASSUME FindingsInv, AuditInv, RejectInv, TypesInv, TablesInv, NEW c \in Commands, ScanEntry(c)
  PROVE  FindingsInv'
<1> DEFINE root == roots[i]
<1>1. /\ pc = "entries" /\ Alive /\ c \in left /\ UNCHANGED fs /\ i \in DOMAIN roots
  BY DEF ScanEntry, Alive, TypesInv
<1>2. ModesInv /\ InspectedInv /\ Tally(findings, Directs, Trusts, Blames) /\ mode = "path"
  BY <1>1 DEF FindingsInv, ModesInv
<1>3. PICK e \in Candidate(root.text, fs[root.text], c) :
        /\ Tried(root.text, c, e)
        /\ \/ Fail("INSPECTION_ERROR")
           \/ /\ left' = left \ {c}
              /\ IF Match(e) THEN findings' = findings \o TrustFindings(e, root.index)
                             ELSE UNCHANGED findings
              /\ \/ pc' = "done" /\ status' = 2
                 \/ UNCHANGED pc
              /\ UNCHANGED <<mode, command, roots, i>>
  BY DEF ScanEntry, invocation, loops
<1>4. CASE Fail("INSPECTION_ERROR")
  BY <1>4 DEF Fail, FindingsInv, Alive
<1>5. CASE pc' = "done" /\ status' = 2
  BY <1>5 DEF FindingsInv, Alive
<1>6. CASE /\ left' = left \ {c} /\ UNCHANGED <<pc, mode, command, roots, i>>
           /\ IF Match(e) THEN findings' = findings \o TrustFindings(e, root.index)
                          ELSE UNCHANGED findings
  <2>1. Remembered /\ Retained
    BY <1>1, <1>3, WhatIsTriedStays DEF Remembered
  <2>2. Classified' = Classified
    BY <1>1, <1>6 DEF Classified
  <2>3. \A r \in Classified : /\ Due(r)' = Due(r) /\ Relevant(r)' = Relevant(r)
                              /\ Relevant(r) => Owners(r)' = Owners(r)
    BY <1>2, <1>6, <2>1, InspectionsStay
  <2>4. Directs' = Directs
    BY <1>6, <2>2, <2>3 DEF Directs
  <2>5. Blames' = Blames
    <3>1. Blamed' = Blamed /\ \A r \in Blamed : Owners(r)' = Owners(r)
      BY <2>2, <2>3 DEF Blamed
    <3> QED
      BY <3>1 DEF Blames
  <2>6. /\ ~Match(e) => Trusts' = Trusts
        /\ Match(e) => ByOne(Trusts, Trusts', <<i, c>>,
                             [root |-> e, index |-> roots[i].index, codes |-> Trust[e[1]]])
    BY <1>1, <1>2, <1>3, <1>6, EntriesAreExecuted
  <2>7. Tally(findings', Directs', Trusts', Blames')
    <3>1. CASE Match(e)
      <4>1. e \in Realpaths
        BY <3>1, CandidatesAreKnown DEF Match, TablesInv
      <4>2. Tally(findings \o TrustFindings(e, roots[i].index), Directs, Trusts', Blames)
        BY <1>1, <1>2, <2>6, <3>1, <4>1, TrustsTally
      <4> QED
        BY <1>6, <2>4, <2>5, <3>1, <4>2
    <3>2. CASE ~Match(e)
      BY <1>2, <1>6, <2>4, <2>5, <2>6, <3>2
    <3> QED
      BY <3>1, <3>2
  <2>8. InspectedInv'
    BY <1>1, <1>2, <1>6, <2>1, <2>2 DEF InspectedInv, Remembered
  <2> QED
    BY <1>1, <1>2, <1>6, <2>7, <2>8 DEF FindingsInv, ModesInv, Completed
<1> QED
  BY <1>3, <1>4, <1>5, <1>6

LEMMA FindingsSort ==
  ASSUME FindingsInv, RejectInv, TypesInv, Sort
  PROVE  FindingsInv'
<1>1. /\ pc = "sort" /\ pc' = "emit" /\ findings' = Sorted(findings, FindingBefore)
      /\ UNCHANGED <<mode, command, roots, fs, exe, i>>
  BY DEF Sort, invocation, loops, disk
<1>2. Alive /\ Tally(findings, Directs, Trusts, Blames)
  BY <1>1 DEF FindingsInv, Alive
<1>3. Classified' = Classified /\ Executed' = Executed
  <2>1. Classified' = Classified
    BY <1>1 DEF Classified
  <2> QED
    BY <1>1, <2>1, VisitedAreExecuted DEF Scanning
<1> DEFINE n == Len(findings)
<1>4. /\ findings \in Seq(FindingType) /\ n \in Nat /\ DOMAIN findings = 1 .. n
      /\ \A k \in 1 .. n : findings[k] \in FindingType
  <2> DEFINE T == FindingType
  <2>1. findings \in Seq(T)
    BY <1>2 DEF Tally
  <2> HIDE DEF T
  <2>2. n \in Nat /\ DOMAIN findings = 1 .. n /\ \A k \in 1 .. n : findings[k] \in T
    BY <2>1
  <2> QED
    BY <2>1, <2>2 DEF T
<1>5. \A k \in 1 .. n : /\ findings[k].root \in Seq(Nat) /\ findings[k].index \in Nat
                        /\ findings[k].code \in CodeSet
  BY <1>4 DEF FindingType
<1> HIDE DEF n
<1>6. PICK p : /\ Permuted(findings, findings', n, p)
               /\ \A q, r \in 1 .. n : q < r => ~FindingBefore(findings[p[r]], findings[p[q]])
  BY <1>1, <1>4, <1>5, FindingsAreSorted
<1>7. findings' \in Seq(FindingType) /\ Len(findings') = n
  <2>1. findings' \in Seq(FindingType)
    <3>1. TypesInv'
      BY TypesSort
    <3> QED
      BY <3>1 DEF TypesInv, TypeOK, FindingType, CodeSet
  <2>2. DOMAIN findings' = 1 .. n
    BY <1>6 DEF Permuted
  <2> QED
    BY <1>4, <2>1, <2>2
<1>8. Tally(findings', Directs, Trusts, Blames)
  <2>1. \A f : Often(findings', f) = Often(findings, f)
    BY <1>4, <1>6, SortingKeepsTheCount DEF n
  <2> QED
    BY <1>2, <1>7, <2>1 DEF Tally
<1>9. InRanks(findings')
  <2>1. ASSUME NEW k \in 2 .. n PROVE ~FindingBefore(findings'[k], findings'[k - 1])
    <3>1. k \in 1 .. n /\ k - 1 \in 1 .. n /\ k - 1 < k
      BY <1>4
    <3>2. findings'[k] = findings[p[k]] /\ findings'[k - 1] = findings[p[k - 1]]
      BY <1>6, <3>1 DEF Permuted
    <3> QED
      BY <1>6, <3>1, <3>2
  <2> QED
    BY <1>7, <2>1 DEF InRanks
<1> QED
  BY <1>1, <1>2, <1>3, <1>8, <1>9, QuietKeepsFindings DEF Completed

LEMMA FindingsEmit ==
  ASSUME FindingsInv, RejectInv, Emit
  PROVE  FindingsInv'
<1>1. /\ pc = "emit" /\ pc' = "done"
      /\ status' = 2 \/ out' = Lines
      /\ UNCHANGED <<mode, command, roots, fs, exe, i, left, findings, matches, shadows>>
  BY DEF Emit, invocation, loops, disk, tables, query
<1>2. CASE status' = 2
  BY <1>1, <1>2 DEF FindingsInv, Alive
<1>3. CASE status' # 2
  <2>1. Alive /\ Tally(findings, Directs, Trusts, Blames) /\ InRanks(findings)
    BY <1>1 DEF FindingsInv, Alive
  <2>2. Classified' = Classified
    BY <1>1 DEF Classified
  <2>3. Executed' = Executed
    BY <1>1, <1>3, <2>2, VisitedAreExecuted DEF Scanning, Completed
  <2>4. out' = Lines'
    BY <1>1, <1>3 DEF Lines
  <2> QED
    BY <1>1, <2>1, <2>2, <2>3, <2>4, QuietKeepsFindings
<1> QED
  BY <1>2, <1>3

LEMMA FindingsInvAlways == Spec => []FindingsInv
<1>1. Init => FindingsInv
  <2>1. SUFFICES ASSUME Init PROVE FindingsInv
    OBVIOUS
  <2>2. /\ pc = "load" /\ findings = <<>> /\ matches = <<>> /\ mode \in {"path", "command", "roots"}
    BY <2>1, PathauditAssumption DEF Init
  <2>3. Classified = {} /\ Executed = {}
    BY <2>2 DEF Classified, Executed, Scanning, Completed
  <2>4. DOMAIN Directs = {} /\ DOMAIN Trusts = {} /\ DOMAIN Blames = {}
    BY <2>3 DEF Directs, Trusts, Blames, Blamed
  <2>5. Tally(findings, Directs, Trusts, Blames)
    BY <2>2, <2>4, NothingIsCounted
  <2> QED
    BY <2>2, <2>3, <2>5 DEF FindingsInv, ModesInv, InspectedInv, Completed
<1>2. FindingsInv /\ AuditInv /\ RejectInv /\ RejectInv' /\ SplitInv /\ TablesInv /\ TypesInv
        /\ [Next]_vars => FindingsInv'
  <2>1. SUFFICES ASSUME FindingsInv, AuditInv, RejectInv, RejectInv', SplitInv, TablesInv,
                        TypesInv, [Next]_vars
                 PROVE  FindingsInv'
    OBVIOUS
  <2>2. CASE \E why : Fail(why)
    BY <2>2 DEF Fail, FindingsInv, Alive
  <2>3. CASE Load
    <3>1. /\ pc = "load" /\ (mode = "command" => pc' # "classify")
          /\ \/ \E why : Fail(why)
             \/ /\ pc' \in {"split", "classify"}
                /\ UNCHANGED <<mode, findings, matches, seen_match, i>>
      BY <2>3 DEF Load, OutOfMemory, Fail, invocation, query, loops
    <3>2. i = 1
      BY <2>1, <3>1 DEF RejectInv
    <3> QED
      BY <2>1, <2>2, <3>1, <3>2, FindingsBegin
  <2>4. CASE Split \/ Join
    <3>1. /\ pc \in {"split", "join"} /\ pc' \in {"split", "join"}
          /\ UNCHANGED <<mode, findings, matches, seen_match>>
      BY <2>4 DEF Split, Join, GiveUp, invocation, query
    <3> QED
      BY <2>1, <3>1, FindingsBegin
  <2>5. CASE SplitEnds
    <3>1. /\ pc = "split" /\ i' = 1 /\ pc' = (IF mode = "path" THEN "classify" ELSE "query")
          /\ UNCHANGED <<mode, findings, matches, seen_match>>
      BY <2>5 DEF SplitEnds, invocation, query
    <3>2. mode \in {"path", "command"}
      BY <2>1, <3>1 DEF SplitInv, FindingsInv, Alive, ModesInv
    <3> QED
      BY <2>1, <3>1, <3>2, FindingsBegin
  <2>6. CASE NoMemory
    BY <2>2, <2>6 DEF NoMemory, OutOfMemory
  <2>7. CASE Terminated \/ UNCHANGED vars
    <3>1. UNCHANGED <<mode, command, roots, fs, exe, winners, shadows, matches, seen_match,
                      findings, i, left, pc, status, out>>
      BY <2>7 DEF Terminated, vars, invocation, loops, disk, tables, query, result
    <3>2. Classified' = Classified
      BY <3>1 DEF Classified
    <3>3. Executed' = Executed
      <4>1. \A r : Holds(r)' <=> Holds(r)
        BY <3>1 DEF Holds
      <4>2. \A c : Seen(c)' = Seen(c)
        BY <3>1 DEF Seen, Visited, Hit, Scanned
      <4>3. Scanning' <=> Scanning
        BY <3>1 DEF Scanning, Completed
      <4> QED
        BY <3>1, <3>2, <4>1, <4>2, <4>3 DEF Executed
    <3>4. /\ Directs' = Directs /\ Trusts' = Trusts /\ Blames' = Blames
          /\ \A r : Holds(r)' <=> Holds(r)
      BY <3>1, <3>2, <3>3, CallsStay
    <3>5. ModesInv' <=> ModesInv
      BY <3>1 DEF ModesInv
    <3>6. InspectedInv' <=> InspectedInv
      BY <3>1, <3>2, <3>4 DEF InspectedInv
    <3>7. Lines' = Lines
      BY <3>1 DEF Lines
    <3> QED
      BY <2>1, <3>1, <3>4, <3>5, <3>6, <3>7 DEF FindingsInv, Alive, Completed
  <2> QED
    BY <2>1, <2>3, <2>4, <2>5, <2>6, <2>7, FindingsClassify, FindingsQuery, FindingsScan,
       FindingsInspected, FindingsEntry, FindingsSort, FindingsEmit DEF Next
<1> QED
  BY <1>1, <1>2, AuditInvAlways, RejectInvAlways, SplitInvAlways, TablesInvAlways,
     TypesInvAlways, PTL DEF Spec

(* Of a completed run, what was executed is what the file system shows. *)
LEMMA ExecutedIsAll ==
  ASSUME AuditInv, RejectInv, TypesInv, Completed
  PROVE  /\ Classified = DOMAIN roots
         /\ Executed = {x \in (DOMAIN roots) \X Commands : x[2] \in Executables(x[1])}
<1>1. Classified = DOMAIN roots
  BY DEF Classified, Completed
<1>2. command \in Commands
  BY DEF TypesInv
<1>3. ASSUME NEW x \in (DOMAIN roots) \X Commands
      PROVE  x \in Executed <=> x[2] \in Executables(x[1])
  <2>1. x[1] \in DOMAIN roots /\ x[2] \in Commands
    OBVIOUS
  <2>2. CASE mode = "path"
    <3>1. Seen(x[2]) = Hits(x[2])
      <4>1. DOMAIN History[x[2]] = Hits(x[2])
        BY <2>1, <2>2, HistoryIsAll
      <4>2. DOMAIN History[x[2]] = Seen(x[2])
        BY <2>1 DEF History
      <4> QED
        BY <4>1, <4>2
    <3>2. x \in Executed <=> x[1] \in Seen(x[2])
      BY <2>2 DEF Executed, Scanning
    <3>3. x[2] \in Executables(x[1]) <=> x[1] \in Hits(x[2])
      BY <2>1, <2>2 DEF Executables
    <3> QED
      BY <3>1, <3>2, <3>3
  <2>3. CASE mode # "path"
    BY <1>1, <1>2, <2>1, <2>3 DEF Executed, Executables
  <2> QED
    BY <2>2, <2>3
<1> QED
  BY <1>1, <1>3 DEF Executed

(* The owners that are blamed are the owners of a directory. *)
LEMMA OwnersAreTexts ==
  ASSUME InspectedInv, TypesInv, NEW r \in Classified, Relevant(r), NEW o \in Owners(r)
  PROVE  o \in Seq(Nat)
<1>1. roots[r].text \in DOMAIN fs
  BY DEF InspectedInv, Relevant
<1>2. fs[roots[r].text] \in Outcome
  BY <1>1, PathauditAssumption DEF TypesInv, SeenInv
<1>3. PICK n \in DOMAIN fs[roots[r].text].owners : o = fs[roots[r].text].owners[n]
  BY DEF Owners, ToSet
<1> DEFINE s == fs[roots[r].text].owners
           T == Seq(Nat)
<1>4. s \in Seq(T)
  BY <1>2 DEF Outcome
<1>5. o = s[n] /\ n \in DOMAIN s
  BY <1>3
<1> HIDE DEF s, T
<1>6. o \in T
  BY <1>4, <1>5
<1> QED
  BY <1>6 DEF T

LEMMA FirstIsAMember ==
  ASSUME NEW S, S \subseteq Nat, S # {}
  PROVE  First(S) \in S
<1>1. PICK m \in S : \A s \in S : m <= s
  BY LeastNatural
<1>2. Least(S, m)
  BY <1>1 DEF Least
<1> QED
  BY <1>1, <1>2, FirstIsLeast

(* A finding is in the buffer as often as it should be said. *)
LEMMA FindingsAreCounted ==
  ASSUME FindingsInv, AuditInv, RejectInv, SplitInv, TypesInv, Completed,
         NEW root \in Seq(Nat), NEW index \in DOMAIN roots, NEW code \in ToSet(Codes)
  PROVE  Often(findings, [root |-> root, index |-> index, code |-> code])
           = Times(root, index, code)
<1> DEFINE f == [root |-> root, index |-> index, code |-> code]
           at == {r \in DOMAIN roots : roots[r].index = index}
           blamed == {r \in DOMAIN roots : Relevant(r) /\ root \in Owners(r)}
           A == {r \in at : roots[r].text = root /\ code \in Due(r)}
           B == {x \in at \X Commands : /\ x[2] \in Executables(x[1])
                                        /\ Hit(x[1], x[2]) = root
                                        /\ code \in Trust[root[1]]}
           C == code = "UNSAFE_OWNER" /\ blamed # {} /\ First(blamed) \in at
<1>1. Times(root, index, code) = Cardinality(A) + Cardinality(B) + Unit(C)
  BY DEF Times, Unit
<1>2. ModesInv /\ InspectedInv /\ Tally(findings, Directs, Trusts, Blames)
  BY DEF FindingsInv, Alive, Completed
<1>3. /\ Classified = DOMAIN roots
      /\ Executed = {x \in (DOMAIN roots) \X Commands : x[2] \in Executables(x[1])}
  BY ExecutedIsAll
<1>4. A = {r \in DOMAIN Directs : Asks(Directs[r], f)}
  <2>1. ASSUME NEW r \in DOMAIN roots
        PROVE  Asks(Directs[r], f) <=> /\ roots[r].index = index /\ roots[r].text = root
                                       /\ code \in Due(r)
    BY <1>3 DEF Directs, Asks
  <2>2. DOMAIN Directs = DOMAIN roots
    BY <1>3 DEF Directs
  <2> QED
    BY <2>1, <2>2
<1>5. B = {x \in DOMAIN Trusts : Asks(Trusts[x], f)}
  <2>1. DOMAIN Trusts = Executed
    BY DEF Trusts
  <2>2. ASSUME NEW x \in Executed
        PROVE  Asks(Trusts[x], f) <=> /\ Hit(x[1], x[2]) = root
                                      /\ roots[x[1]].index = index
                                      /\ code \in Trust[root[1]]
    BY DEF Trusts, Asks
  <2>3. ASSUME NEW x
        PROVE  x \in B <=> /\ x \in Executed /\ roots[x[1]].index = index
                           /\ Hit(x[1], x[2]) = root /\ code \in Trust[root[1]]
    BY <1>3
  <2> HIDE DEF B, f
  <2> QED
    BY <2>1, <2>2, <2>3
<1>6. Unit(C) = Unit(Owed(Blames, f))
  <2>1. blamed = {r \in Blamed : root \in Owners(r)}
    BY <1>3 DEF Blamed
  <2>2. (root \in DOMAIN Blames <=> blamed # {})
        /\ (root \in DOMAIN Blames => Blames[root] = First(blamed))
    BY <2>1 DEF Blames
  <2>3. ASSUME blamed # {} PROVE First(blamed) \in at <=> First(blamed) = index
    <3>1. mode # "roots"
      BY <2>3 DEF Relevant
    <3>2. blamed \subseteq Nat
      BY DEF RejectInv
    <3> HIDE DEF blamed
    <3>3. First(blamed) \in blamed
      BY <2>3, <3>2, FirstIsAMember
    <3>4. First(blamed) \in DOMAIN roots
      BY <3>3 DEF blamed
    <3>5. roots[First(blamed)].index = First(blamed)
      BY <3>1, <3>4, RootsAreNumbered
    <3> QED
      BY <3>4, <3>5
  <2> HIDE DEF at, blamed
  <2>4. C <=> Owed(Blames, f)
    BY <2>2, <2>3 DEF Owed
  <2> QED
    BY <2>4 DEF Unit
<1> HIDE DEF A, B, C, f
<1>7. CASE index \in 1 .. MaxCount
  <2>1. f \in FindingType
    BY <1>7 DEF f, FindingType, CodeSet
  <2>2. Often(findings, f) = Called(Directs, f) + Called(Trusts, f) + Unit(Owed(Blames, f))
    BY <1>2, <2>1 DEF Tally
  <2> QED
    BY <1>1, <1>4, <1>5, <1>6, <2>2 DEF Called, f
<1>8. CASE index \notin 1 .. MaxCount
  <2>1. \A r \in DOMAIN roots : roots[r].index # index
    BY <1>8, RootsAreTyped
  <2>2. A = {} /\ B = {}
    BY <2>1 DEF A, B
  <2>3. ~C
    BY <2>1 DEF C
  <2>4. Often(findings, f) = 0
    <3> DEFINE T == FindingType
    <3>1. findings \in Seq(T)
      BY <1>2 DEF Tally
    <3>2. \A x \in T : x # f
      BY <1>8 DEF FindingType, f
    <3> HIDE DEF T
    <3>3. \A k \in DOMAIN findings : findings[k] \in T
      BY <3>1
    <3>4. {k \in DOMAIN findings : findings[k] = f} = {}
      BY <3>2, <3>3
    <3> QED
      BY <3>4, FS_EmptySet DEF Often
  <2>5. Cardinality({}) = 0
    BY FS_EmptySet
  <2> QED
    BY <1>1, <2>2, <2>3, <2>4, <2>5 DEF Unit, f
<1> QED
  BY <1>7, <1>8

(* The lines of the findings follow those of the matches. *)
LEMMA FindingsArePrinted ==
  ASSUME TypesInv, out = Lines
  PROVE  LET b == Len(matches)
             a == Len(findings)
         IN  /\ b \in Nat /\ a \in Nat /\ Said = {b + n : n \in 1 .. a}
             /\ \A n \in 1 .. a : out[b + n] = <<findings[n].code, findings[n].root>>
<1> DEFINE line(n) == <<"SHADOWED", shadows[n].command, shadows[n].winner, shadows[n].shadow>>
           said(k) == <<findings[k].code, findings[k].root>>
           match(k) == <<"MATCH", matches[k]>>
           M == [k \in DOMAIN matches |-> match(k)]
           F == [k \in DOMAIN findings |-> said(k)]
           S == [k \in DOMAIN shadows |-> line(k)]
           b == Len(matches)
           a == Len(findings)
           z == Len(shadows)
<1>1. out = (M \o F) \o S
  BY DEF Lines
<1>2. /\ a \in Nat /\ DOMAIN findings = 1 .. a /\ \A k \in 1 .. a : findings[k] \in FindingType
      /\ z \in Nat /\ DOMAIN shadows = 1 .. z
      /\ b \in Nat /\ DOMAIN matches = 1 .. b
  <2> DEFINE T == FindingType
             Z == ShadowType
             N == Seq(Paths)
  <2>1. findings \in Seq(T) /\ shadows \in Seq(Z) /\ matches \in Seq(N)
    BY DEF TypesInv, TypeOK, FindingType, CodeSet, ShadowType
  <2> HIDE DEF T, Z, N
  <2>2. /\ a \in Nat /\ DOMAIN findings = 1 .. a /\ \A k \in 1 .. a : findings[k] \in T
        /\ z \in Nat /\ DOMAIN shadows = 1 .. z
        /\ b \in Nat /\ DOMAIN matches = 1 .. b
    BY <2>1
  <2> QED
    BY <2>2 DEF T
<1>3. /\ \A k \in 1 .. a : said(k)[1] \in CodeSet
      /\ \A k : line(k)[1] \notin CodeSet /\ match(k)[1] \notin CodeSet
  <2>1. "SHADOWED" \notin CodeSet
    BY CodesAreCodes
  <2>2. "MATCH" \notin CodeSet
    <3>1. CodeSet = {Codes[k] : k \in DOMAIN Codes} /\ DOMAIN Codes = 1 .. 7
      BY CodesAreCodes DEF CodeSet, ToSet
    <3>2. \A k \in 1 .. 7 : Codes[k] # "MATCH"
      BY DEF Codes
    <3> QED
      BY <3>1, <3>2
  <2> QED
    BY <1>2, <2>1, <2>2 DEF FindingType
<1> HIDE DEF a, b, z, said, line, match
<1> DEFINE X == {said(k) : k \in 1 .. a} \cup {line(k) : k \in 1 .. z} \cup {match(k) : k \in 1 .. b}
<1>4. M \in Seq(X) /\ Len(M) = b /\ F \in Seq(X) /\ Len(F) = a /\ S \in Seq(X) /\ Len(S) = z
  <2>1. ASSUME NEW n \in Nat, NEW H \in [1 .. n -> X] PROVE H \in Seq(X) /\ Len(H) = n
    <3> HIDE DEF X
    <3> QED
      BY <2>1
  <2>2. M \in [1 .. b -> X]
    <3>1. \A k \in 1 .. b : match(k) \in X
      OBVIOUS
    <3> HIDE DEF X
    <3> QED
      BY <1>2, <3>1
  <2>3. F \in [1 .. a -> X]
    <3>1. \A k \in 1 .. a : said(k) \in X
      OBVIOUS
    <3> HIDE DEF X
    <3> QED
      BY <1>2, <3>1
  <2>4. S \in [1 .. z -> X]
    <3>1. \A k \in 1 .. z : line(k) \in X
      OBVIOUS
    <3> HIDE DEF X
    <3> QED
      BY <1>2, <3>1
  <2> HIDE DEF X, M, F, S
  <2> QED
    BY <1>2, <2>1, <2>2, <2>3, <2>4
<1>5. /\ \A k \in 1 .. a : F[k] = said(k)

      /\ \A k \in 1 .. z : S[k] = line(k)
      /\ \A k \in 1 .. b : M[k] = match(k)
  BY <1>2
<1> HIDE DEF F, S, M, X
<1> DEFINE G == M \o F
<1>6. /\ G \in Seq(X) /\ Len(G) = b + a
      /\ \A k \in 1 .. b + a : G[k] = IF k <= b THEN M[k] ELSE F[k - b]
  <2>1. /\ M \o F \in Seq(X) /\ Len(M \o F) = Len(M) + Len(F)
        /\ \A k \in 1 .. Len(M) + Len(F) :
             (M \o F)[k] = IF k <= Len(M) THEN M[k] ELSE F[k - Len(M)]
    BY <1>4, ConcatProperties
  <2> QED
    BY <1>4, <2>1
<1> HIDE DEF G
<1>7. /\ DOMAIN out = 1 .. b + a + z
      /\ \A k \in 1 .. b + a + z : out[k] = IF k <= b + a THEN G[k] ELSE S[k - (b + a)]
  <2>1. /\ G \o S \in Seq(X) /\ Len(G \o S) = Len(G) + Len(S)
        /\ \A k \in 1 .. Len(G) + Len(S) :
             (G \o S)[k] = IF k <= Len(G) THEN G[k] ELSE S[k - Len(G)]
    <3>1. G \in Seq(X) /\ S \in Seq(X)
      BY <1>4, <1>6
    <3> QED
      BY <3>1, ConcatProperties
  <2>2. out = G \o S
    BY <1>1 DEF G
  <2>3. DOMAIN out = 1 .. Len(out)
    BY <2>1, <2>2
  <2> QED
    BY <1>2, <1>4, <1>6, <2>1, <2>2, <2>3
<1>8. ASSUME NEW n \in 1 .. a PROVE b + n \in DOMAIN out /\ out[b + n] = said(n)
  <2>1. b + n \in 1 .. b + a + z /\ b + n \in 1 .. b + a /\ b + n <= b + a /\ ~(b + n <= b)
        /\ (b + n) - b = n
    BY <1>2
  <2>2. out[b + n] = F[n]
    BY <1>6, <1>7, <2>1
  <2> QED
    BY <1>5, <1>7, <2>1, <2>2
<1>9. ASSUME NEW k \in Said PROVE \E n \in 1 .. a : k = b + n
  <2>1. k \in 1 .. b + a + z /\ out[k][1] \in CodeSet
    BY <1>7 DEF Said, CodeSet
  <2>2. CASE k <= b
    <3>1. k \in 1 .. b /\ k \in 1 .. b + a /\ k <= b + a
      BY <1>2, <2>1, <2>2
    <3>2. out[k] = match(k)
      BY <1>5, <1>6, <1>7, <2>1, <2>2, <3>1
    <3> QED
      BY <1>3, <2>1, <3>2
  <2>3. CASE k > b + a
    <3>1. k - (b + a) \in 1 .. z /\ ~(k <= b + a)
      BY <1>2, <2>1, <2>3
    <3>2. out[k] = line(k - (b + a))
      BY <1>5, <1>7, <2>1, <3>1
    <3> QED
      BY <1>3, <2>1, <3>2
  <2>4. CASE ~(k <= b) /\ ~(k > b + a)
    <3>1. k - b \in 1 .. a /\ k = b + (k - b)
      BY <1>2, <2>1, <2>4
    <3> QED
      BY <3>1
  <2> QED
    BY <2>2, <2>3, <2>4
<1>10. ASSUME NEW n \in 1 .. a PROVE b + n \in Said
  <2>1. said(n)[1] \in CodeSet
    BY <1>3
  <2> QED
    BY <1>8, <2>1 DEF Said, CodeSet
<1>11. Said = {b + n : n \in 1 .. a}
  BY <1>9, <1>10
<1> QED
  BY <1>2, <1>8, <1>11 DEF a, b, said

LEMMA AsManyAsFound ==
  ASSUME NEW b \in Nat, NEW n \in Nat
  PROVE  Cardinality({b + m : m \in 1 .. n}) = n
<1>1. {b + m : m \in 1 .. n} = b + 1 .. b + n
  <2>1. ASSUME NEW k \in b + 1 .. b + n PROVE \E m \in 1 .. n : k = b + m
    <3>1. k - b \in 1 .. n /\ k = b + (k - b)
      OBVIOUS
    <3> QED
      BY <3>1
  <2>2. \A m \in 1 .. n : b + m \in b + 1 .. b + n
    OBVIOUS
  <2> QED
    BY <2>1, <2>2
<1>2. Cardinality(b + 1 .. b + n) = IF b + 1 > b + n THEN 0 ELSE (b + n) - (b + 1) + 1
  BY FS_Interval
<1> DEFINE C == {b + m : m \in 1 .. n}
<1>3. C = b + 1 .. b + n
  BY <1>1
<1> HIDE DEF C
<1>4. b + 1 > b + n => n = 0
  OBVIOUS
<1>5. (b + n) - (b + 1) + 1 = n
  OBVIOUS
<1>6. Cardinality(C) = n
  BY <1>2, <1>3, <1>4, <1>5
<1> QED
  BY <1>6 DEF C

(* A completed run prints each hazard of each component and executable     *)
(* that applies, as often as it applies, and a stranger's directory once,  *)
(* under the first component that depends on it: whatever was found in     *)
(* what order, the lines are sorted by text, position and rank.            *)
THEOREM FindingsAreExactlyThose == Spec => []FindingsAreExact
<1>1. FindingsInv /\ AuditInv /\ RejectInv /\ SplitInv /\ TypesInv => FindingsAreExact
  <2>1. SUFFICES ASSUME FindingsInv, AuditInv, RejectInv, SplitInv, TypesInv, Completed
                 PROVE  FindingsAreExact
    BY DEF FindingsAreExact
  <2>2. InspectedInv /\ InRanks(findings) /\ out = Lines /\ Classified = DOMAIN roots
    BY <2>1, ExecutedIsAll DEF FindingsInv, Alive, Completed
  <2>3. ASSUME NEW root \in {r.text : r \in ToSet(roots)} \cup {<<p>> : p \in Paths}
                            \cup UNION {Owners(r) : r \in {s \in DOMAIN roots : Relevant(s)}},
               NEW index \in DOMAIN roots, NEW code \in ToSet(Codes)
        PROVE  Cardinality({k \in DOMAIN findings :
                              findings[k] = [root |-> root, index |-> index, code |-> code]})
                 = Times(root, index, code)
    <3>1. root \in Seq(Nat)
      <4>1. CASE root \in {r.text : r \in ToSet(roots)}
        <5>1. PICK r \in DOMAIN roots : root = roots[r].text
          BY <4>1 DEF ToSet
        <5> QED
          BY <2>1, <5>1, RootsAreTyped
      <4>2. CASE root \in {<<p>> : p \in Paths}
        BY <4>2, RealpathsAreTexts DEF Realpaths
      <4>3. CASE root \in UNION {Owners(r) : r \in {s \in DOMAIN roots : Relevant(s)}}
        <5>1. PICK r \in Classified : Relevant(r) /\ root \in Owners(r)
          BY <2>2, <4>3
        <5> QED
          BY <2>1, <2>2, <5>1, OwnersAreTexts
      <4> QED
        BY <2>3, <4>1, <4>2, <4>3
    <3> QED
      BY <2>1, <2>3, <3>1, FindingsAreCounted DEF Often
  <2> DEFINE b == Len(matches)
             a == Len(findings)
  <2>4. /\ b \in Nat /\ a \in Nat /\ Said = {b + n : n \in 1 .. a}
        /\ \A n \in 1 .. a : out[b + n] = <<findings[n].code, findings[n].root>>
    BY <2>1, <2>2, FindingsArePrinted
  <2> HIDE DEF b, a
  <2>5. Cardinality(Said) = a
    BY <2>4, AsManyAsFound
  <2>6. ASSUME NEW k \in Said
        PROVE  LET n == Cardinality({m \in Said : m <= k})
               IN  out[k] = <<findings[n].code, findings[n].root>>
    <3>1. PICK n \in 1 .. a : k = b + n
      BY <2>4
    <3>2. {m \in Said : m <= k} = {b + m : m \in 1 .. n}
      <4>1. \A m \in 1 .. a : b + m <= k <=> m <= n
        BY <2>4, <3>1
      <4>2. \A m \in 1 .. a : m <= n <=> m \in 1 .. n
        BY <2>4, <3>1
      <4>3. \A m \in 1 .. n : m \in 1 .. a
        BY <2>4, <3>1
      <4> QED
        BY <2>4, <4>1, <4>2, <4>3
    <3>3. n \in Nat /\ Cardinality({m \in Said : m <= k}) = n
      <4>1. n \in Nat
        BY <2>4, <3>1
      <4>2. Cardinality({b + m : m \in 1 .. n}) = n
        BY <2>4, <4>1, AsManyAsFound
      <4> QED
        BY <3>2, <4>1, <4>2

    <3> QED
      BY <2>4, <3>1, <3>3
  <2> QED
    BY <2>2, <2>3, <2>5, <2>6 DEF FindingsAreExact, InRanks, a
<1> QED
  BY <1>1, FindingsInvAlways, AuditInvAlways, RejectInvAlways, SplitInvAlways, TypesInvAlways, PTL
=============================================================================
