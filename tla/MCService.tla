------------------------------ MODULE MCService ------------------------------
(* Small instances of Service.                                               *)
EXTENDS Service

CONSTANTS c1, c2, c3   \* connections
=============================================================================
