---------------------------- MODULE MessageChannel ----------------------------
(***************************************************************************)
(* What a pair of connected scamp ends promises its users, whatever happens *)
(* to the stream between them: messages come out in the order in which the  *)
(* Send calls took their place, none twice, none invented, none cut short   *)
(* without an error, and a Send that reports failure has not transmitted    *)
(* its message.  Messages may be lost, but only from the end: what follows  *)
(* a lost message is lost too.                                              *)
(***************************************************************************)
EXTENDS Naturals, Sequences

CONSTANTS
  Ends, Peer,    \* the two ends
  Sends, Sender, \* the Send calls and who makes them
  Foreign        \* ends that may abandon a message they have begun

VARIABLES
  sent,      \* [Ends -> the accepted Send calls, in order]
  received,  \* [Ends -> what came out there: a message, whole or flagged]
  result     \* [Sends -> "pending", "ok" or "err"]

channelVars == <<sent, received, result>>

Init ==
  /\ sent = [e \in Ends |-> <<>>]
  /\ received = [e \in Ends |-> <<>>]
  /\ result = [m \in Sends |-> "pending"]

Accept(m) ==
  /\ result[m] = "pending"
  /\ \A k \in 1..Len(sent[Sender[m]]) : sent[Sender[m]][k] # m
  /\ sent' = [sent EXCEPT ![Sender[m]] = Append(@, m)]
  /\ UNCHANGED <<received, result>>

Arrived(e, m) == \E k \in 1..Len(received[e]) :
                    received[e][k] = [msg |-> m, whole |-> TRUE]

Return(m, r) ==
  /\ result[m] = "pending"
  /\ r = "ok" => \E k \in 1..Len(sent[Sender[m]]) : sent[Sender[m]][k] = m
  /\ r = "err" => ~Arrived(Peer[Sender[m]], m)
  /\ result' = [result EXCEPT ![m] = r]
  /\ UNCHANGED <<sent, received>>

(* The next message in order comes out at end e.                            *)
Deliver(e, whole) ==
  /\ Len(received[e]) < Len(sent[Peer[e]])
  /\ LET m == sent[Peer[e]][Len(received[e]) + 1] IN
       /\ whole => result[m] # "err"
       /\ ~whole => Peer[e] \in Foreign
       /\ received' = [received EXCEPT ![e] = Append(@, [msg |-> m, whole |-> whole])]
  /\ UNCHANGED <<sent, result>>

Next ==
  \/ \E m \in Sends : Accept(m) \/ Return(m, "ok") \/ Return(m, "err")
  \/ \E e \in Ends : \E whole \in BOOLEAN : Deliver(e, whole)

Spec == Init /\ [][Next]_channelVars
=============================================================================
