------------------------------ MODULE MCSysdiff ------------------------------
(* Instances of Sysdiff for TLC. *)
EXTENDS Sysdiff

L(kind, len, nul, ending, key, value) ==
  [kind |-> kind, len |-> len, nul |-> nul, ending |-> ending, key |-> key, value |-> value]
E(key, value) == L("entry", 3, 0, "lf", key, value)
Other(kind, len, nul, ending) == L(kind, len, nul, ending, 1, <<>>)

Plain == <<"x">>
Arrowed == <<"x">> \o Arrow \o <<"x">>   \* looks like two values
Literal == <<"bs", "x", "hex">>           \* looks like an escaped byte
Unprintable == <<"x", "sp", "hy", "raw", "sp", "x">>   \* looks like it, once escaped

(* Entries under three keys; lines at and around the limit with every     *)
(* ending; one line of each kind that is refused.                         *)
MCLines ==
  {E(1, Plain), E(1, Arrowed), E(1, Literal), E(1, Unprintable), E(2, Plain), E(2, Arrowed),
   E(3, Plain), L("entry", 3, 0, "none", 2, Plain)}
  \cup {Other("skip", len, 0, ending) : len \in {4, 5}, ending \in Endings}
  \cup {Other("skip", 6, 6, "lf"), Other("nosep", 2, 0, "lf"), Other("nokey", 1, 0, "lf"),
        Other("badkey", 3, 2, "lf"), Other("badkey", 3, 0, "lf")}
MCMaxLines == <<3, 2>>
=============================================================================
