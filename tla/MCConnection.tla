----------------------------- MODULE MCConnection -----------------------------
(* Small instances of Connection.                                            *)
EXTENDS Connection, TLC

CONSTANTS A, B,        \* the two ends
          FromA,       \* the Send calls of end A, the others are B's
          TwoChunks,   \* messages of two DATA packets
          OneChunk,    \* messages of one, the others have none
          a1, a2, a3, b1   \* Send calls

MCPeer == (A :> B) @@ (B :> A)
MCSender == [m \in Sends |-> IF m \in FromA THEN A ELSE B]
MCNChunks == [m \in Sends |-> IF m \in TwoChunks THEN 2
                              ELSE IF m \in OneChunk THEN 1 ELSE 0]
(* Every first DATA packet has two bytes and every second one none: WriteJSON *)
(* of a body that is a multiple of the chunk size ends in an empty packet.    *)
MCOffset == [m \in Sends |-> [k \in 0..MCNChunks[m] |-> IF k = 0 THEN 0 ELSE 2]]
=============================================================================
