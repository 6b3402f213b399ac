----------------------------- MODULE MCAnnouncer -----------------------------
(* A small instance of Announcer: i registers an action under two spellings, *)
(* more than a datagram holds, and j one without a dot.                      *)
EXTENDS Announcer

CONSTANT k   \* a call of Stop

MCRegisters == [s \in Idents |-> IF s = "i" THEN <<"a", "A">> ELSE <<"x">>]
MCToLower == [n \in Names |-> IF n = "A" THEN "a" ELSE n]
=============================================================================
