---------------------------- MODULE Sha256Stream ----------------------------
(***************************************************************************)
(* The streaming half of treehash's SHA-256: how sha256_update() cuts what *)
(* it is given, in pieces of any size, into blocks of 64 bytes, and how    *)
(* sha256_final() pads the last one or two.  The rounds over one block are *)
(* arithmetic on words and stay out: what is kept is the sequence of the   *)
(* blocks handed to sha256_transform().                                    *)
(*                                                                         *)
(* A byte of the message is its position in the message; the bytes that    *)
(* the padding adds are negative numbers.                                  *)
(***************************************************************************)
EXTENDS Integers, Sequences

Block == 64        \* bytes of a block
LenBytes == 8      \* bytes of the length that ends the message

Slots == 0 .. Block - 1

Marker == -1       \* 0x80
Zero == -2
LenByte(i) == -3 - i
Garbage == -100    \* what an automatic variable holds before it is written

VARIABLES
  count,           \* bytes given to sha256_update()
  buffer,          \* the block being filled
  blocks           \* the blocks handed to sha256_transform()

shaVars == <<count, buffer, blocks>>

Unfilled == [j \in Slots |-> Garbage]

\* sha256_init(): the buffer is left as it is, that is not initialised.
ShaInit ==
  /\ count = 0
  /\ buffer = Unfilled
  /\ blocks = << >>

ShaReset ==
  /\ count' = 0
  /\ buffer' = Unfilled
  /\ blocks' = << >>

-----------------------------------------------------------------------------
\* The place of the next byte in the buffer.
BufferIdx == count % Block

\* The buffer with len bytes copied behind those it holds.
Appended(len) ==
  [j \in Slots |-> IF BufferIdx <= j /\ j < BufferIdx + len THEN count + j - BufferIdx ELSE buffer[j]]

\* sha256_update() of len bytes that do not complete the block begun.
UpdateShort(len) ==
  /\ BufferIdx > 0
  /\ len < Block - BufferIdx
  /\ buffer' = Appended(len)
  /\ count' = count + len
  /\ UNCHANGED blocks

\* sha256_update() of len bytes that complete the block begun, if there is
\* one: then whole blocks are taken from where they lie, and the remainder is
\* copied to the head of the buffer.
UpdateLong(len) ==
  LET needed == IF BufferIdx > 0 THEN Block - BufferIdx ELSE 0
      completed == IF BufferIdx > 0 THEN <<Appended(needed)>> ELSE << >>
      whole == (len - needed) \div Block
      rest == (len - needed) % Block
      start == count + needed
  IN /\ needed <= len
     /\ blocks' = blocks \o completed
                    \o [i \in 1 .. whole |-> [j \in Slots |-> start + Block * (i - 1) + j]]
     /\ buffer' = [j \in Slots |->
                     IF j < rest THEN start + Block * whole + j
                     ELSE IF BufferIdx > 0 THEN Appended(needed)[j]
                     ELSE buffer[j]]
     /\ count' = count + len

Update(len) == UpdateShort(len) \/ UpdateLong(len)

NeedsTwoBlocks_Mutant(idx) == idx > Block - LenBytes + 1

\* The length does not fit into the block behind the marker.
NeedsTwoBlocks(idx) == idx > Block - LenBytes

\* The buffer with the marker and zeros up to slot upto.
Marked(upto) ==
  [j \in Slots |->
     IF j = BufferIdx THEN Marker
     ELSE IF BufferIdx < j /\ j < upto THEN Zero
     ELSE buffer[j]]

\* The block with the length over its last eight bytes.
WithLength(b) ==
  [j \in Slots |-> IF j >= Block - LenBytes THEN LenByte(j - (Block - LenBytes)) ELSE b[j]]

Cleared(b) == [j \in Slots |-> IF j < Block - LenBytes THEN Zero ELSE b[j]]

\* sha256_final().
Final ==
  /\ IF NeedsTwoBlocks(BufferIdx + 1)
       THEN /\ buffer' = WithLength(Cleared(Marked(Block)))
            /\ blocks' = blocks \o <<Marked(Block), buffer'>>
       ELSE /\ buffer' = WithLength(Marked(Block - LenBytes))
            /\ blocks' = Append(blocks, buffer')
  /\ UNCHANGED count

-----------------------------------------------------------------------------
(***************************************************************************)
(* The padded message of n bytes as FIPS 180-4 defines it: the message, a  *)
(* marker, as few zeros as complete a block together with the length.      *)
(***************************************************************************)
PaddedBlocks(n) == (n + LenBytes) \div Block + 1

PaddedByte(n, k) ==
  IF k < n THEN k
  ELSE IF k = n THEN Marker
  ELSE IF k < Block * PaddedBlocks(n) - LenBytes THEN Zero
  ELSE LenByte(k - (Block * PaddedBlocks(n) - LenBytes))

Padded(n) ==
  [i \in 1 .. PaddedBlocks(n) |-> [j \in Slots |-> PaddedByte(n, Block * (i - 1) + j)]]
=============================================================================
