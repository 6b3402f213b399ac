------------------------------- MODULE MCClient -------------------------------
(* Small instances of Client.                                                *)
EXTENDS Client

CONSTANTS c1, c2,       \* calls of client.Send
          user, other   \* goroutines that call Close
=============================================================================
