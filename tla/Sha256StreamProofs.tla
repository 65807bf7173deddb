------------------------ MODULE Sha256StreamProofs --------------------------
(***************************************************************************)
(* However a message is cut into pieces, sha256_update() and               *)
(* sha256_final() hand sha256_transform() the blocks of the padded         *)
(* message.                                                                *)
(***************************************************************************)
EXTENDS Sha256Stream, TLAPS

BlockType == [Slots -> Int]

\* The blocks of bs are those of the message from the block numbered from on.
OfMessage(bs, from) == \A i \in 1 .. Len(bs) : \A j \in Slots : bs[i][j] = 64 * (from + i - 1) + j

\* What is known between two calls: the blocks handed on are the message up
\* to the last multiple of 64 bytes, and the rest lies in the buffer.
Received ==
  /\ count \in Nat
  /\ buffer \in BlockType
  /\ blocks \in Seq(BlockType)
  /\ Len(blocks) = count \div 64
  /\ OfMessage(blocks, 0)
  /\ \A j \in Slots : j < (count % 64) => buffer[j] = 64 * (count \div 64) + j

USE DEF Block, LenBytes, Slots, Garbage, Marker, Zero

LEMMA DivMod ==
  ASSUME NEW n \in Nat
  PROVE  n \div 64 \in Nat /\ n % 64 \in 0 .. 63 /\ n = 64 * (n \div 64) + (n % 64)
  OBVIOUS

LEMMA DivModUnique ==
  ASSUME NEW q \in Nat, NEW r \in 0 .. 63
  PROVE  (64 * q + r) \div 64 = q /\ (64 * q + r) % 64 = r
  OBVIOUS

LEMMA BytesOfBlock == ASSUME NEW b \in BlockType PROVE \A j \in Slots : b[j] \in Int
  BY DEF BlockType

LEMMA BlocksOfSequence == ASSUME NEW bs \in Seq(BlockType) PROVE \A i \in 1 .. Len(bs) : bs[i] \in BlockType
  OBVIOUS

\* Blocks of the message, followed by those that come next.
LEMMA Joined ==
  ASSUME NEW s \in Seq(BlockType), NEW t \in Seq(BlockType), NEW from \in Nat,
         OfMessage(s, from), OfMessage(t, from + Len(s))
  PROVE  /\ s \o t \in Seq(BlockType)
         /\ Len(s \o t) = Len(s) + Len(t)
         /\ OfMessage(s \o t, from)
  <1>1. s \o t \in Seq(BlockType) /\ Len(s \o t) = Len(s) + Len(t)
    OBVIOUS
  <1>2. ASSUME NEW i \in 1 .. Len(s \o t), NEW j \in Slots
        PROVE  (s \o t)[i][j] = 64 * (from + i - 1) + j
    <2>1. CASE i <= Len(s)
      <3>1. (s \o t)[i] = s[i] /\ i \in 1 .. Len(s)
        BY <2>1, <1>1
      <3>2. s[i][j] = 64 * (from + i - 1) + j
        BY <3>1 DEF OfMessage
      <3> QED BY <3>1, <3>2
    <2>2. CASE i > Len(s)
      <3>1. (s \o t)[i] = t[i - Len(s)] /\ i - Len(s) \in 1 .. Len(t)
        BY <2>2, <1>1
      <3>2. t[i - Len(s)][j] = 64 * (from + Len(s) + (i - Len(s)) - 1) + j
        BY <3>1 DEF OfMessage
      <3>3. from + Len(s) + (i - Len(s)) - 1 = from + i - 1
        BY <3>1
      <3> QED BY <3>1, <3>2, <3>3
    <2> QED BY <2>1, <2>2
  <1> QED BY <1>1, <1>2 DEF OfMessage

\* sha256_init() leaves nothing received.
LEMMA InitReceives == (ShaInit => Received) /\ (ShaReset => Received')
  <1>1. Unfilled \in BlockType
    BY DEF Unfilled, BlockType
  <1>2. 0 \div 64 = 0 /\ 0 % 64 = 0
    OBVIOUS
  <1>3. << >> \in Seq(BlockType) /\ Len(<< >>) = 0 /\ OfMessage(<< >>, 0)
    BY DEF OfMessage
  <1>4. ASSUME ShaInit PROVE Received
    BY <1>1, <1>2, <1>3, <1>4 DEF ShaInit, Received
  <1>5. ASSUME ShaReset PROVE Received'
    BY <1>1, <1>2, <1>3, <1>5 DEF ShaReset, Received
  <1> QED BY <1>4, <1>5

\* The bytes behind those in the buffer, as sha256_update() copies them.
LEMMA AppendedBytes ==
  ASSUME Received, NEW len \in Nat, len <= 64 - (count % 64)
  PROVE  /\ Appended(len) \in BlockType
         /\ \A j \in Slots : j < (count % 64) + len => Appended(len)[j] = 64 * (count \div 64) + j
  <1> DEFINE idx == count % 64
             old == count \div 64
  <1>1. count \in Nat /\ buffer \in BlockType /\ \A j \in Slots : j < idx => buffer[j] = 64 * old + j
    BY DEF Received
  <1>2. old \in Nat /\ idx \in 0 .. 63 /\ count = 64 * old + idx
    BY <1>1, DivMod
  <1>3. Appended(len) = [j \in Slots |-> IF idx <= j /\ j < idx + len THEN count + j - idx ELSE buffer[j]]
    BY DEF Appended, BufferIdx
  <1> HIDE DEF idx, old
  <1>4. Appended(len) \in BlockType
    BY <1>1, <1>2, <1>3 DEF BlockType
  <1>5. ASSUME NEW j \in Slots, j < idx + len
        PROVE  Appended(len)[j] = 64 * old + j
    <2>1. CASE j < idx
      BY <2>1, <1>1, <1>2, <1>3
    <2>2. CASE ~(j < idx)
      <3>1. Appended(len)[j] = count + j - idx
        BY <2>2, <1>2, <1>3, <1>5
      <3> QED BY <3>1, <1>2
    <2> QED BY <2>1, <2>2
  <1> QED BY <1>4, <1>5 DEF idx, old

\* A short update stays within the block begun.
LEMMA ShortReceives ==
  ASSUME Received, NEW len \in Nat, UpdateShort(len)
  PROVE  Received'
  <1> DEFINE idx == count % 64
             old == count \div 64
  <1>1. count \in Nat /\ old \in Nat /\ idx \in 0 .. 63 /\ count = 64 * old + idx
    BY DivMod DEF Received
  <1>2. /\ len < 64 - idx /\ buffer' = Appended(len) /\ count' = count + len /\ blocks' = blocks
    BY DEF UpdateShort, BufferIdx
  <1>3. /\ Appended(len) \in BlockType
        /\ \A j \in Slots : j < idx + len => Appended(len)[j] = 64 * old + j
    BY <1>1, <1>2, AppendedBytes, SMTT(30)
  <1>4. blocks \in Seq(BlockType) /\ Len(blocks) = old /\ OfMessage(blocks, 0)
    BY DEF Received
  <1> HIDE DEF idx, old
  <1>5. idx + len \in 0 .. 63 /\ count' = 64 * old + (idx + len) /\ count' \in Nat
    BY <1>1, <1>2
  <1>6. count' \div 64 = old /\ count' % 64 = idx + len
    BY <1>1, <1>5, DivModUnique
  <1> QED
    BY <1>2, <1>3, <1>4, <1>5, <1>6 DEF Received

\* A long update completes the block begun, if any, takes whole blocks, and
\* keeps the rest.
LEMMA LongReceives ==
  ASSUME Received, NEW len \in Nat, UpdateLong(len)
  PROVE  Received'
  <1> DEFINE idx == count % 64
             old == count \div 64
             begun == IF idx > 0 THEN 1 ELSE 0
             needed == IF idx > 0 THEN 64 - idx ELSE 0
             completed == IF idx > 0 THEN <<Appended(needed)>> ELSE << >>
             whole == (len - needed) \div 64
             rest == (len - needed) % 64
             start == count + needed
             direct == [i \in 1 .. whole |-> [j \in Slots |-> start + 64 * (i - 1) + j]]
  <1>1. /\ needed <= len
        /\ count' = count + len
        /\ blocks' = blocks \o completed \o direct
        /\ buffer' = [j \in Slots |->
                        IF j < rest THEN start + 64 * whole + j
                        ELSE IF idx > 0 THEN Appended(needed)[j]
                        ELSE buffer[j]]
    BY DEF UpdateLong, BufferIdx
  <1>2. count \in Nat /\ old \in Nat /\ idx \in 0 .. 63 /\ count = 64 * old + idx
    BY DivMod DEF Received
  <1>3. buffer \in BlockType /\ blocks \in Seq(BlockType) /\ Len(blocks) = old /\ OfMessage(blocks, 0)
    BY DEF Received
  <1> HIDE DEF idx, old
  <1>4. needed \in Nat /\ needed <= 64 - idx /\ len - needed \in Nat /\ begun \in {0, 1}
    BY <1>1, <1>2
  <1>5. start = 64 * (old + begun) /\ start \in Nat
    BY <1>2
  <1>6. whole \in Nat /\ rest \in 0 .. 63 /\ len - needed = 64 * whole + rest
    BY <1>4, DivMod
  <1>7. /\ Appended(needed) \in BlockType
        /\ \A j \in Slots : j < idx + needed => Appended(needed)[j] = 64 * old + j
    BY <1>4, AppendedBytes DEF idx, old
  <1>8. completed \in Seq(BlockType) /\ Len(completed) = begun /\ OfMessage(completed, old)
    <2>1. CASE idx > 0
      <3>1. completed = <<Appended(needed)>> /\ begun = 1
        BY <2>1
      <3>2. \A j \in Slots : Appended(needed)[j] = 64 * old + j
        BY <2>1, <1>2, <1>7
      <3> HIDE DEF completed, begun, needed
      <3>3. completed \in Seq(BlockType) /\ Len(completed) = 1 /\ completed[1] = Appended(needed)
        BY <3>1, <1>7
      <3> QED BY <3>1, <3>2, <3>3, <1>2 DEF OfMessage
    <2>2. CASE ~(idx > 0)
      BY <2>2 DEF OfMessage
    <2> QED BY <2>1, <2>2
  <1> HIDE DEF needed, completed, whole, rest, start, begun
  <1>9. direct \in Seq(BlockType) /\ Len(direct) = whole /\ OfMessage(direct, old + begun)
    <2>1. \A i \in 1 .. whole : [j \in Slots |-> start + 64 * (i - 1) + j] \in BlockType
      BY <1>5, <1>6 DEF BlockType
    <2>2. direct \in [1 .. whole -> BlockType]
      BY <2>1
    <2>3. direct \in Seq(BlockType) /\ Len(direct) = whole
      <3> HIDE DEF direct
      <3> QED BY <2>2, <1>6
    <2>4. ASSUME NEW i \in 1 .. whole, NEW j \in Slots
          PROVE  direct[i][j] = 64 * (old + begun + i - 1) + j
      <3>1. direct[i][j] = start + 64 * (i - 1) + j
        OBVIOUS
      <3> QED BY <3>1, <1>2, <1>4, <1>5, <1>6
    <2> QED BY <2>3, <2>4 DEF OfMessage
  <1> HIDE DEF direct
  <1>10. /\ blocks \o completed \in Seq(BlockType)
         /\ Len(blocks \o completed) = old + begun
         /\ OfMessage(blocks \o completed, 0)
    <2>1. OfMessage(completed, 0 + Len(blocks))
      BY <1>2, <1>3, <1>8
    <2> QED BY <2>1, <1>3, <1>8, Joined
  <1>11. blocks' \in Seq(BlockType) /\ Len(blocks') = old + begun + whole /\ OfMessage(blocks', 0)
    <2>1. OfMessage(direct, 0 + Len(blocks \o completed))
      BY <1>2, <1>4, <1>9, <1>10
    <2> QED BY <2>1, <1>1, <1>9, <1>10, Joined
  <1>12. count' \in Nat /\ count' = 64 * (old + begun + whole) + rest
    BY <1>1, <1>2, <1>4, <1>5, <1>6 DEF start
  <1>13. count' \div 64 = old + begun + whole /\ count' % 64 = rest
    <2>1. old + begun + whole \in Nat
      BY <1>2, <1>4, <1>6
    <2> QED BY <2>1, <1>6, <1>12, DivModUnique
  <1>14. buffer' \in BlockType
    <2>1. \A j \in Slots : Appended(needed)[j] \in Int /\ buffer[j] \in Int /\ start + 64 * whole + j \in Int
      <3>1. \A j \in Slots : Appended(needed)[j] \in Int
        BY <1>7, BytesOfBlock
      <3>2. \A j \in Slots : buffer[j] \in Int
        BY <1>3, BytesOfBlock
      <3>3. \A j \in Slots : start + 64 * whole + j \in Int
        BY <1>5, <1>6
      <3> QED BY <3>1, <3>2, <3>3
    <2> QED BY <1>1, <2>1 DEF BlockType
  <1>15. ASSUME NEW j \in Slots, j < rest
         PROVE  buffer'[j] = 64 * (old + begun + whole) + j
    <2>1. buffer'[j] = start + 64 * whole + j
      BY <1>15, <1>1
    <2> QED BY <2>1, <1>2, <1>4, <1>5, <1>6
  <1> QED
    BY <1>11, <1>12, <1>13, <1>14, <1>15 DEF Received

\* sha256_update() keeps what is known, whatever the size of the piece.
THEOREM UpdateReceives == ASSUME Received, NEW len \in Nat, Update(len) PROVE Received'
  BY ShortReceives, LongReceives DEF Update

\* The first blocks of a padded message are those of the message.
LEMMA WholeBlocks ==
  ASSUME NEW n \in Nat, NEW i \in 1 .. n \div 64, NEW j \in Slots
  PROVE  PaddedByte(n, 64 * (i - 1) + j) = 64 * (i - 1) + j
  <1>1. n \div 64 \in Nat /\ n % 64 \in 0 .. 63 /\ n = 64 * (n \div 64) + (n % 64)
    BY DivMod
  <1> DEFINE q == n \div 64
             r == n % 64
  <1> HIDE DEF q, r
  <1>2. 64 * (i - 1) + j < n
    BY <1>1
  <1> QED BY <1>2 DEF PaddedByte

\* A sequence of blocks is the padded message if its bytes are.
LEMMA PaddedBytes ==
  ASSUME NEW n \in Nat, NEW bs \in Seq(BlockType), Len(bs) = PaddedBlocks(n),
         \A i \in 1 .. Len(bs) : \A j \in Slots : bs[i][j] = PaddedByte(n, 64 * (i - 1) + j)
  PROVE  bs = Padded(n)
  <1>1. \A i \in 1 .. Len(bs) : bs[i] = [j \in Slots |-> PaddedByte(n, 64 * (i - 1) + j)]
    <2>1. \A i \in 1 .. Len(bs) : bs[i] \in BlockType
      BY BlocksOfSequence
    <2> QED BY <2>1 DEF BlockType
  <1>2. bs = [i \in 1 .. Len(bs) |-> bs[i]]
    OBVIOUS
  <1> QED BY <1>1, <1>2 DEF Padded

LEMMA TwoMore ==
  ASSUME NEW s \in Seq(BlockType), NEW a \in BlockType, NEW b \in BlockType, NEW t, t = s \o <<a, b>>
  PROVE  /\ t \in Seq(BlockType) /\ Len(t) = Len(s) + 2
         /\ \A i \in 1 .. Len(s) : t[i] = s[i]
         /\ t[Len(s) + 1] = a /\ t[Len(s) + 2] = b
  OBVIOUS

\* sha256_final() hands on the rest of the message with its padding.
THEOREM FinalPads == ASSUME Received, Final PROVE blocks' = Padded(count)
  <1> DEFINE idx == count % 64
             old == count \div 64
  <1>1. count \in Nat /\ idx \in 0 .. 63 /\ old \in Nat /\ count = 64 * old + idx
    BY DivMod DEF Received
  <1>2. /\ buffer \in BlockType /\ blocks \in Seq(BlockType) /\ Len(blocks) = old
        /\ \A j \in Slots : j < idx => buffer[j] = 64 * old + j
    BY DEF Received
  <1>3. \A i \in 1 .. old : \A j \in Slots : blocks[i][j] = PaddedByte(count, 64 * (i - 1) + j)
    <2>1. ASSUME NEW i \in 1 .. old, NEW j \in Slots
          PROVE  blocks[i][j] = PaddedByte(count, 64 * (i - 1) + j)
      <3>1. PaddedByte(count, 64 * (i - 1) + j) = 64 * (i - 1) + j
        BY <1>1, WholeBlocks
      <3>2. blocks[i][j] = 64 * (0 + i - 1) + j
        BY <1>2 DEF Received, OfMessage
      <3> QED BY <3>1, <3>2, <1>1
    <2> QED BY <2>1
  <1>4. /\ Marked(64) = [j \in Slots |-> IF j = idx THEN -1 ELSE IF idx < j /\ j < 64 THEN -2 ELSE buffer[j]]
        /\ Marked(56) = [j \in Slots |-> IF j = idx THEN -1 ELSE IF idx < j /\ j < 56 THEN -2 ELSE buffer[j]]
    BY DEF Marked, BufferIdx
  <1>5. NeedsTwoBlocks(BufferIdx + 1) <=> idx >= 56
    BY <1>1 DEF NeedsTwoBlocks, BufferIdx
  <1>6. PaddedBlocks(count) = (count + 8) \div 64 + 1
    BY DEF PaddedBlocks
  <1> HIDE DEF idx, old
  <1>7. CASE idx >= 56
    <2> DEFINE first == Marked(64)
               second == WithLength(Cleared(first))
    <2>1. blocks' = blocks \o <<first, second>>
      BY <1>5, <1>7 DEF Final
    <2>2. PaddedBlocks(count) = old + 2
      <3>1. count + 8 = 64 * (old + 1) + (idx - 56)
        BY <1>1
      <3>2. (64 * (old + 1) + (idx - 56)) \div 64 = old + 1
        BY <1>1, <1>7, DivModUnique
      <3> QED BY <1>1, <1>6, <3>1, <3>2
    <2>3. second = [j \in Slots |-> IF j >= 56 THEN -3 - (j - 56) ELSE -2]
      BY DEF WithLength, Cleared, LenByte
    <2>4. first \in BlockType /\ second \in BlockType
      <3>1. \A j \in Slots : buffer[j] \in Int
        BY <1>2, BytesOfBlock
      <3>2. first \in BlockType
        BY <1>4, <3>1 DEF BlockType
      <3>3. second \in BlockType
        BY <2>3 DEF BlockType
      <3> QED BY <3>2, <3>3
    <2> HIDE DEF first, second
    <2>5. ASSUME NEW j \in Slots
          PROVE  first[j] = PaddedByte(count, 64 * old + j)
      <3>1. first[j] = IF j = idx THEN -1 ELSE IF idx < j THEN -2 ELSE 64 * old + j
        <4>1. first[j] = IF j = idx THEN -1 ELSE IF idx < j /\ j < 64 THEN -2 ELSE buffer[j]
          BY <1>4 DEF first
        <4>2. j < idx => buffer[j] = 64 * old + j
          BY <1>2
        <4> QED BY <4>1, <4>2, <1>1
      <3>2. 64 * old + j < 64 * (old + 2) - 8
        BY <1>1
      <3>3. PaddedByte(count, 64 * old + j) =
              IF 64 * old + j < count THEN 64 * old + j ELSE IF 64 * old + j = count THEN -1 ELSE -2
        BY <2>2, <3>2 DEF PaddedByte
      <3> QED BY <3>1, <3>3, <1>1
    <2>6. ASSUME NEW j \in Slots
          PROVE  second[j] = PaddedByte(count, 64 * (old + 1) + j)
      <3>1. second[j] = IF j >= 56 THEN -3 - (j - 56) ELSE -2
        BY <2>3
      <3>2. 64 * (old + 1) + j > count
        BY <1>1
      <3>3. PaddedByte(count, 64 * (old + 1) + j) =
              IF 64 * (old + 1) + j < 64 * (old + 2) - 8 THEN -2
              ELSE -3 - (64 * (old + 1) + j - (64 * (old + 2) - 8))
        BY <2>2, <3>2, <1>1 DEF PaddedByte, LenByte
      <3>4. /\ (64 * (old + 1) + j < 64 * (old + 2) - 8) <=> ~(j >= 56)
            /\ 64 * (old + 1) + j - (64 * (old + 2) - 8) = j - 56
        BY <1>1
      <3> QED BY <3>1, <3>3, <3>4
    <2>7. /\ blocks' \in Seq(BlockType) /\ Len(blocks') = old + 2
          /\ \A i \in 1 .. old : blocks'[i] = blocks[i]
          /\ blocks'[old + 1] = first /\ blocks'[old + 2] = second
      <3>1. /\ blocks' \in Seq(BlockType) /\ Len(blocks') = Len(blocks) + 2
            /\ \A i \in 1 .. Len(blocks) : blocks'[i] = blocks[i]
            /\ blocks'[Len(blocks) + 1] = first /\ blocks'[Len(blocks) + 2] = second
        <4>1. blocks \in Seq(BlockType)
          BY <1>2
        <4> QED BY <2>1, <2>4, <4>1, TwoMore
      <3> QED BY <3>1, <1>2
    <2>8. ASSUME NEW i \in 1 .. Len(blocks'), NEW j \in Slots
          PROVE  blocks'[i][j] = PaddedByte(count, 64 * (i - 1) + j)
      <3>1. CASE i <= old
        <4>1. i \in 1 .. old /\ blocks'[i] = blocks[i]
          BY <3>1, <2>7, <1>1
        <4> QED BY <4>1, <1>3
      <3>2. CASE i = old + 1
        <4>1. i - 1 = old BY <3>2, <1>1
        <4> QED BY <4>1, <3>2, <2>5, <2>7
      <3>3. CASE i = old + 2
        <4>1. i - 1 = old + 1 BY <3>3, <1>1
        <4> QED BY <4>1, <3>3, <2>6, <2>7
      <3> QED BY <3>1, <3>2, <3>3, <2>7, <1>1
    <2> QED BY <1>1, <2>2, <2>7, <2>8, PaddedBytes
  <1>8. CASE idx < 56
    <2> DEFINE last == WithLength(Marked(56))
    <2>1. blocks' = Append(blocks, last)
      BY <1>1, <1>5, <1>8 DEF Final
    <2>2. PaddedBlocks(count) = old + 1
      <3>1. count + 8 = 64 * old + (idx + 8)
        BY <1>1
      <3>2. (64 * old + (idx + 8)) \div 64 = old
        BY <1>1, <1>8, DivModUnique
      <3> QED BY <1>1, <1>6, <3>1, <3>2
    <2>3. last = [j \in Slots |-> IF j >= 56 THEN -3 - (j - 56)
                                  ELSE IF j = idx THEN -1 ELSE IF idx < j THEN -2 ELSE buffer[j]]
      BY <1>1, <1>4 DEF WithLength, LenByte
    <2>4. last \in BlockType
      <3>1. \A j \in Slots : buffer[j] \in Int
        BY <1>2, BytesOfBlock
      <3> QED BY <2>3, <3>1 DEF BlockType
    <2> HIDE DEF last
    <2>5. ASSUME NEW j \in Slots
          PROVE  last[j] = PaddedByte(count, 64 * old + j)
      <3>1. last[j] = IF j >= 56 THEN -3 - (j - 56)
                      ELSE IF j = idx THEN -1 ELSE IF idx < j THEN -2 ELSE 64 * old + j
        <4>1. last[j] = IF j >= 56 THEN -3 - (j - 56)
                        ELSE IF j = idx THEN -1 ELSE IF idx < j THEN -2 ELSE buffer[j]
          BY <2>3
        <4>2. j < idx => buffer[j] = 64 * old + j
          BY <1>2
        <4> QED BY <4>1, <4>2, <1>1
      <3>2. /\ (64 * old + j < count) <=> j < idx
            /\ (64 * old + j = count) <=> j = idx
            /\ (64 * old + j < 64 * (old + 1) - 8) <=> j < 56
            /\ 64 * old + j - (64 * (old + 1) - 8) = j - 56
        BY <1>1
      <3>3. PaddedByte(count, 64 * old + j) =
              IF j < idx THEN 64 * old + j
              ELSE IF j = idx THEN -1
              ELSE IF j < 56 THEN -2 ELSE -3 - (j - 56)
        <4> DEFINE k == 64 * old + j
        <4>1. PaddedByte(count, k) =
                IF k < count THEN k ELSE IF k = count THEN -1
                ELSE IF k < 64 * (old + 1) - 8 THEN -2 ELSE -3 - (k - (64 * (old + 1) - 8))
          BY <1>1, <2>2 DEF PaddedByte, LenByte
        <4>2. /\ k < count <=> j < idx
              /\ k = count <=> j = idx
              /\ k < 64 * (old + 1) - 8 <=> j < 56
              /\ k - (64 * (old + 1) - 8) = j - 56
          BY <1>1
        <4>3. PaddedByte(count, k) =
                IF j < idx THEN k ELSE IF j = idx THEN -1 ELSE IF j < 56 THEN -2 ELSE -3 - (j - 56)
          <5> HIDE DEF k
          <5> QED BY <4>1, <4>2, Zenon
        <4> QED BY <4>3
      <3> QED BY <3>1, <3>3, <1>1, <1>8
    <2>6. /\ blocks' \in Seq(BlockType) /\ Len(blocks') = old + 1
          /\ \A i \in 1 .. old : blocks'[i] = blocks[i]
          /\ blocks'[old + 1] = last
      BY <2>1, <2>4, <1>1, <1>2
    <2>7. ASSUME NEW i \in 1 .. Len(blocks'), NEW j \in Slots
          PROVE  blocks'[i][j] = PaddedByte(count, 64 * (i - 1) + j)
      <3>1. CASE i <= old
        <4>1. i \in 1 .. old /\ blocks'[i] = blocks[i]
          BY <3>1, <2>6, <1>1
        <4> QED BY <4>1, <1>3
      <3>2. CASE i = old + 1
        <4>1. i - 1 = old BY <3>2, <1>1
        <4> QED BY <4>1, <3>2, <2>5, <2>6
      <3> QED BY <3>1, <3>2, <2>6, <1>1
    <2> QED BY <1>1, <2>2, <2>6, <2>7, PaddedBytes
  <1> QED BY <1>1, <1>7, <1>8
=============================================================================
