----------------------------- MODULE ProbeTable -----------------------------
(***************************************************************************)
(* The open-addressing index that pathaudit keeps twice, over its winners  *)
(* and over its shadows (src/src/pathaudit.c): slots hold the positions of *)
(* items in an array, probing is linear, and the table doubles before more *)
(* than half of it is used.                                                *)
(***************************************************************************)
EXTENDS Integers, Sequences, FiniteSets

CONSTANTS
  Hash(_),      \* of a key
  InitialCap,   \* 16, a power of two
  MaxCap        \* the largest capacity whose double is a size_t

Vacant == 0

(* No table yet: index_slots is NULL. *)
NoTable == [cap |-> 0, slots |-> <<>>]
Blank(cap) == [cap |-> cap, slots |-> [s \in 0 .. cap - 1 |-> Vacant]]
Refused == [cap |-> -1, slots |-> <<>>]

SlotAt(t, key, k) == (Hash(key) + k) % t.cap

(* The first slot of the probe sequence that is vacant or holds one of the *)
(* wanted items.                                                           *)
Stops(t, key, wanted) ==
  {k \in 0 .. t.cap - 1 : t.slots[SlotAt(t, key, k)] \in wanted \cup {Vacant}}

Slot(t, key, wanted) ==
  LET stops == Stops(t, key, wanted)
  IN  SlotAt(t, key, CHOOSE k \in stops : \A m \in stops : k <= m)

Lookup(t, key, wanted) ==
  IF t.cap = 0 THEN Vacant ELSE t.slots[Slot(t, key, wanted)]

Place(t, key, n) == [t EXCEPT !.slots[Slot(t, key, {})] = n]

(* Every item is entered again; keys[n] is the key of item n. *)
Counted_Mutant(keys) == Len(keys) - 1
Counted(keys) == Len(keys)

Rehashed(keys, cap) ==
  LET entered[n \in 0 .. Len(keys)] ==
        IF n = 0 THEN Blank(cap) ELSE Place(entered[n - 1], keys[n], n)
  IN  entered[Counted(keys)]

(* Doubled until half of it holds the items; a capacity beyond MaxCap      *)
(* cannot be doubled.                                                      *)
Grown(t, keys) ==
  LET start == IF t.cap = 0 THEN InitialCap ELSE 2 * t.cap
      doubled[n \in 0 .. Len(keys)] == IF n = 0 THEN start ELSE 2 * doubled[n - 1]
      enough == {n \in 0 .. Len(keys) : doubled[n] \div 2 >= Len(keys)}
      cap == doubled[CHOOSE n \in enough : \A m \in enough : n <= m]
  IN  IF cap > 2 * MaxCap THEN Refused ELSE Rehashed(keys, cap)

InsertTail(t, keys) ==
  IF t.cap = 0 \/ Len(keys) > t.cap \div 2
  THEN Grown(t, keys)
  ELSE Place(t, keys[Len(keys)], Len(keys))

(* A probe ends, and it finds an item exactly if there is one. *)
Faithful(t, keys) ==
  /\ t.cap > 0 => \E s \in DOMAIN t.slots : t.slots[s] = Vacant
  /\ \A n \in DOMAIN keys : Lookup(t, keys[n], {m \in DOMAIN keys : keys[m] = keys[n]}) = n
=============================================================================
