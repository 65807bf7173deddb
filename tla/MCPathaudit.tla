----------------------------- MODULE MCPathaudit -----------------------------
(* Instances of Pathaudit for TLC. *)
EXTENDS Pathaudit, TLC

Bare(kind) == [kind |-> kind, codes |-> {}, owners |-> <<>>]

(* The directory that cannot be read is the one with hazards of its own.   *)
MCOutcomes ==
  {[kind |-> "shut", codes |-> Permissions, owners |-> <<<<9>>, <<8>>>>]}
  \cup {Bare(kind) : kind \in Kinds \ {"shut"}}

(* Fields 1 and 2 are absolute, 3 is relative; 4 is longer than allowed.   *)
MCLength == <<1, 2, 1, 9>> @@ (0 :> 0)
MCFieldLists ==
  {<<>>, <<0>>, <<1>>, <<3>>, <<4>>, <<0, 0>>, <<1, 1>>, <<1, 2>>, <<3, 0>>, <<1, 0, 2>>,
   <<1, 2, 1>>, <<2, 1, 3>>, <<2, 2, 2, 2>>, <<1, 1, 1, 1, 1>>}
MCTrust == [p \in Paths |-> IF p = 11 THEN {} ELSE {"WORLD_WRITABLE", "UNSAFE_OWNER"}]
(* Commands collide. *)
MCHash(key) == IF Len(key) = 1 THEN 1 ELSE key[2]
=============================================================================
