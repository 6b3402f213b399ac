-------------------------------- MODULE MCRpc --------------------------------
(* Small instances of Rpc.                                                   *)
EXTENDS Rpc, TLC

CONSTANTS c1, c2, c3   \* callers

(* A ticket that is good for one second, and what may be wrong with it.      *)
Good == [parts |-> 7, signer |-> "k", version |-> 1, numbers |-> TRUE, privileges |-> {1, 2},
         privsParse |-> TRUE, timestamp |-> 0, ttl |-> 0]

SomeTickets ==
  {Good, [Good EXCEPT !.parts = 6], [Good EXCEPT !.parts = 5], [Good EXCEPT !.signer = "l"],
   [Good EXCEPT !.signer = NoKey], [Good EXCEPT !.version = 2], [Good EXCEPT !.numbers = FALSE],
   [Good EXCEPT !.privsParse = FALSE], [Good EXCEPT !.privileges = {1}],
   [Good EXCEPT !.timestamp = 1, !.ttl = TimeMax], [Good EXCEPT !.ttl = -1],
   [Good EXCEPT !.timestamp = -2, !.ttl = TimeMax], [Good EXCEPT !.timestamp = TimeMin, !.ttl = -2]}

(* Actions: open to all, for any ticket, for two privileges, for a ticket    *)
(* with a key that lies elsewhere or nowhere.                                *)
MCOptions ==
  [open   |-> [verify |-> FALSE, privs |-> {}, keyPath |-> "default"],
   ticket |-> [verify |-> TRUE, privs |-> {}, keyPath |-> "default"],
   privs  |-> [verify |-> FALSE, privs |-> {1, 2}, keyPath |-> "default"],
   other  |-> [verify |-> TRUE, privs |-> {}, keyPath |-> "elsewhere"],
   nokey  |-> [verify |-> TRUE, privs |-> {}, keyPath |-> "nowhere"]]

MCKeyAt == [default |-> "k", elsewhere |-> "l", nowhere |-> NoKey]

(* Three callers with tickets for an action each, or two: one with a ticket  *)
(* of any kind, one for whom the key is elsewhere or nowhere or who asks for *)
(* an action that is not there.                                              *)
Ask1(action, t) == [action |-> action, ticket |-> t]

MCAsks ==
  {c1 :> Ask1("ticket", Good) @@ c2 :> Ask1("privs", Good) @@ c3 :> Ask1("open", Good)}
  \cup {c1 :> Ask1(a, t) @@ c2 :> Ask1(b, Good) :
          a \in {"ticket", "privs"}, t \in SomeTickets, b \in {"other", "nokey", "missing"}}
=============================================================================
