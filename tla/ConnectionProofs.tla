--------------------------- MODULE ConnectionProofs ---------------------------
(***************************************************************************)
(* Proofs about module Connection, for any pair of ends, any set of Send    *)
(* calls and any bounds: the type invariant, OneMessageAtATime, the         *)
(* refinement of MessageChannel, MisplacedOnlyAfterMalformed and            *)
(* AcksAreSound.                                                            *)
(*                                                                          *)
(* The argument.  A number identifies a Send call of an end (Numbered), the *)
(* lock makes the last one the only one that writes (LockHeld).  So packets *)
(* are on the wire in the order of their numbers and positions (WireInv)    *)
(* and without gaps (GapInv): what precedes a packet is on the wire before  *)
(* it, or was the last thing the reader took.  Hence what the reader has in *)
(* its nursery is a prefix of the message it expects more of (ReadInv).     *)
(*                                                                          *)
(* On top of it: every number the reader counted came out, waits in its     *)
(* hand or is being assembled (OutputInv), which gives the refinement; no   *)
(* number is skipped while no message is malformed (SequenceInv); the ACKs  *)
(* of a message are about one packet after the other (AckInv); and what     *)
(* they count are the bytes of what its Send wrote (BytesInv).              *)
(***************************************************************************)
EXTENDS Connection, TLAPS

-----------------------------------------------------------------------------
(* Sequences *)

(* What Append does to a FIFO: one packet more, at the end.                  *)
LEMMA AppendFacts ==
  ASSUME NEW S, NEW s \in Seq(S), NEW x \in S
  PROVE  /\ Append(s, x) \in Seq(S)
         /\ Len(Append(s, x)) = Len(s) + 1
         /\ \A i \in 1..Len(s) : Append(s, x)[i] = s[i]
         /\ Append(s, x)[Len(s) + 1] = x
  OBVIOUS

(* What Head and Tail do to it: the first packet is taken, the rest move up. *)
LEMMA TailFacts ==
  ASSUME NEW S, NEW s \in Seq(S), s # <<>>
  PROVE  /\ Tail(s) \in Seq(S)
         /\ Len(s) \in Nat \ {0}
         /\ Len(Tail(s)) = Len(s) - 1
         /\ \A i \in 1..(Len(s) - 1) : Tail(s)[i] = s[i + 1]
         /\ Head(s) = s[1]
         /\ Head(s) \in S
  OBVIOUS

-----------------------------------------------------------------------------
(* Sizes *)

LEMMA SizeType ==
  ASSUME NEW m \in Sends, NEW pos \in Nat
  PROVE  Size(m, pos) \in Nat
<1>1. CASE IsData(m, pos)
  <2>1. NChunks[m] \in Nat /\ pos \in 1..NChunks[m]
    BY <1>1, SendsAssumption DEF IsData
  <2>2. pos - 1 \in 0..NChunks[m] /\ pos \in 0..NChunks[m] /\ pos - 1 <= pos
    BY <2>1
  <2>3. Offset[m][pos - 1] \in Nat /\ Offset[m][pos] \in Nat /\ Offset[m][pos - 1] <= Offset[m][pos]
    BY <2>2, OffsetAssumption
  <2> QED
    BY <1>1, <2>3 DEF Size
<1>2. CASE ~IsData(m, pos)
  BY <1>2 DEF Size
<1> QED
  BY <1>1, <1>2

LEMMA PacketAtType ==
  ASSUME NEW m \in Sends, NEW msgNo \in Nat, NEW pos \in Nat
  PROVE  PacketAt(m, msgNo, pos) \in Packet
<1>1. PICK size \in Nat : size = Size(m, pos)
  BY SizeType
<1>2. PICK type \in PacketTypes :
        type = IF pos = 0 THEN "HEADER" ELSE IF pos = EofPos(m) THEN "EOF" ELSE "DATA"
  BY DEF PacketTypes
<1>3. PacketAt(m, msgNo, pos) =
        [type |-> type, msgNo |-> msgNo, msg |-> m, pos |-> pos, bytes |-> size]
  BY <1>1, <1>2 DEF PacketAt
<1> QED
  BY <1>3 DEF Packet

-----------------------------------------------------------------------------
(* Type correctness *)

LEMMA TypeInit == Init => TypeOK
<1> SUFFICES ASSUME Init PROVE TypeOK
  OBVIOUS
<1> USE EndsAssumption, SendsAssumption, BoundsAssumption
<1>1. SendTypes
  BY DEF Init, SendTypes, SendPcs
<1>2. ReadTypes
  BY DEF Init, ReadTypes, MapTypes, ReaderPcs, EmptyMap
<1>3. LinkTypes
  BY DEF Init, LinkTypes, WriteErrors
<1> QED
  BY <1>1, <1>2, <1>3 DEF TypeOK

(* Send changes no type of the reader's; the packets it writes are packets.  *)
LEMMA TypeSend ==
  ASSUME TypeOK, NEW m \in Sends, SendStep(m) \/ AbortSend(m)
  PROVE  TypeOK'
<1> USE EndsAssumption, SendsAssumption, BoundsAssumption
<1>0. /\ Sender[m] \in Ends
      /\ SendTypes /\ ReadTypes /\ LinkTypes
  BY DEF TypeOK
<1>1. ReadTypes'
  <2>1. UNCHANGED readVars
    BY DEF SendStep, AbortSend, Send, SendUnnumbered, WritePacket, WriteSkipped, WriteRetry,
       WriteGiveUp, SendReturn
  <2> QED
    BY <1>0, <2>1 DEF ReadTypes, MapTypes, readVars
<1>2. SendTypes'
  <2>1. CASE Send(m)
    BY <1>0, <2>1 DEF Send, SendTypes, SendPcs
  <2>2. CASE SendUnnumbered(m)
    BY <1>0, <2>2 DEF SendUnnumbered, SendTypes, SendPcs
  <2>3. CASE WritePacket(m)
    BY <1>0, <2>3 DEF WritePacket, SendTypes
  <2>4. CASE WriteSkipped(m)
    BY <1>0, <2>4 DEF WriteSkipped, SendTypes
  <2>5. CASE WriteRetry(m)
    BY <1>0, <2>5 DEF WriteRetry, SendTypes
  <2>6. CASE WriteGiveUp(m)
    BY <1>0, <2>6 DEF WriteGiveUp, Return, SendTypes, SendPcs
  <2>7. CASE SendReturn(m)
    BY <1>0, <2>7 DEF SendReturn, Return, SendTypes, SendPcs
  <2>8. CASE AbortSend(m)
    BY <1>0, <2>8 DEF AbortSend, Return, SendTypes, SendPcs
  <2> QED
    BY <2>1, <2>2, <2>3, <2>4, <2>5, <2>6, <2>7, <2>8 DEF SendStep
<1>3. LinkTypes'
  <2>1. UNCHANGED linkVars
    BY DEF SendStep, AbortSend, Send, SendUnnumbered, WritePacket, WriteSkipped, WriteRetry,
       WriteGiveUp, SendReturn
  <2>2. CASE WritePacket(m)
    <3>1. PacketAt(m, msgno[m], next[m]) \in Packet
      BY <1>0, PacketAtType DEF SendTypes
    <3>2. wire' \in [Ends -> Seq(Packet)] /\ \A d \in Ends : Len(wire'[d]) <= WireCap
      BY <1>0, <2>2, <3>1, AppendFacts DEF WritePacket, CanWrite, HasRoom, LinkTypes
    <3> QED
      BY <1>0, <2>1, <3>2 DEF LinkTypes, linkVars
  <2>3. CASE AbortSend(m)
    <3>0. PICK textSize \in TextSizes :
            wire' = [wire EXCEPT ![Sender[m]] =
                       Append(@, TxErrPacket(m, msgno[m], next[m], textSize))]
      BY <2>3 DEF AbortSend
    <3>1. TxErrPacket(m, msgno[m], next[m], textSize) \in Packet
      BY <1>0, TextSizesAssumption DEF TxErrPacket, Packet, PacketTypes, SendTypes
    <3>2. wire' \in [Ends -> Seq(Packet)] /\ \A d \in Ends : Len(wire'[d]) <= WireCap
      BY <1>0, <2>3, <3>0, <3>1, AppendFacts DEF AbortSend, CanWrite, HasRoom, LinkTypes
    <3> QED
      BY <1>0, <2>1, <3>2 DEF LinkTypes, linkVars
  <2>4. CASE UNCHANGED wire
    BY <1>0, <2>1, <2>4 DEF LinkTypes, linkVars
  <2> QED
    BY <2>2, <2>3, <2>4 DEF SendStep, Send, SendUnnumbered, WriteSkipped, WriteRetry,
       WriteGiveUp, SendReturn
<1> QED
  BY <1>1, <1>2, <1>3 DEF TypeOK

(* The map operations of routePacket: what they do to pktToMsg, and that it  *)
(* stays a map to messages.                                                  *)
LEMMA TrackFacts ==
  ASSUME MapTypes, NEW e \in Ends, NEW n \in Nat, NEW msg \in Message, Track(e, n, msg)
  PROVE  /\ DOMAIN pktToMsg'[e] = DOMAIN pktToMsg[e] \cup {n}
         /\ pktToMsg'[e][n] = msg
         /\ \A k \in DOMAIN pktToMsg[e] : k # n => pktToMsg'[e][k] = pktToMsg[e][k]
         /\ \A d \in Ends : d # e => pktToMsg'[d] = pktToMsg[d]
         /\ MapTypes'
<1>1. /\ DOMAIN pktToMsg' = Ends
      /\ DOMAIN pktToMsg'[e] = DOMAIN pktToMsg[e] \cup {n}
      /\ pktToMsg'[e][n] = msg
      /\ \A k \in DOMAIN pktToMsg[e] : k # n => pktToMsg'[e][k] = pktToMsg[e][k]
      /\ \A d \in Ends : d # e => pktToMsg'[d] = pktToMsg[d]
  BY DEF Track, MapTypes
<1>2. DOMAIN pktToMsg'[e] \subseteq Nat
  BY <1>1 DEF MapTypes
<1>3. ASSUME NEW k \in DOMAIN pktToMsg'[e] PROVE pktToMsg'[e][k] \in Message
  BY <1>1 DEF MapTypes
<1> QED
  BY <1>1, <1>2, <1>3 DEF MapTypes

LEMMA UntrackFacts ==
  ASSUME MapTypes, NEW e \in Ends, NEW n \in Nat, Untrack(e, n)
  PROVE  /\ DOMAIN pktToMsg'[e] = DOMAIN pktToMsg[e] \ {n}
         /\ \A k \in DOMAIN pktToMsg'[e] : pktToMsg'[e][k] = pktToMsg[e][k]
         /\ \A d \in Ends : d # e => pktToMsg'[d] = pktToMsg[d]
         /\ MapTypes'
<1>1. /\ DOMAIN pktToMsg' = Ends
      /\ DOMAIN pktToMsg'[e] = DOMAIN pktToMsg[e] \ {n}
      /\ \A k \in DOMAIN pktToMsg'[e] : pktToMsg'[e][k] = pktToMsg[e][k]
      /\ \A d \in Ends : d # e => pktToMsg'[d] = pktToMsg[d]
  BY DEF Untrack, MapTypes
<1> QED
  BY <1>1 DEF MapTypes

(* The head of the incoming stream is a packet, and consuming it leaves the  *)
(* stream of the other direction alone.                                      *)
LEMMA ConsumeTypes ==
  ASSUME LinkTypes, NEW e \in Ends, Incoming(e) # <<>>, Consume(e)
  PROVE  /\ Head(Incoming(e)) \in Packet
         /\ wire' \in [Ends -> Seq(Packet)]
         /\ \A d \in Ends : Len(wire'[d]) <= WireCap
<1>1. Peer[e] \in Ends /\ wire[Peer[e]] \in Seq(Packet) /\ wire[Peer[e]] # <<>>
  BY EndsAssumption DEF LinkTypes, Incoming
<1> QED
  BY <1>1, TailFacts, BoundsAssumption DEF LinkTypes, Consume, Incoming

LEMMA WriteTypes ==
  ASSUME NEW msg \in Message, NEW chunk \in Chunk, NEW bytes \in Nat
  PROVE  /\ Write(msg, chunk, bytes) \in Message
         /\ [Write(msg, chunk, bytes) EXCEPT !.err = TRUE] \in Message
<1>1. msg.body \in Seq(Chunk) /\ Append(msg.body, chunk) \in Seq(Chunk)
  BY AppendFacts DEF Message
<1>2. msg.bytesWritten + bytes \in Nat
  BY DEF Message
<1> QED
  BY <1>1, <1>2 DEF Write, Message

LEMMA TypeRead ==
  ASSUME TypeOK, NEW e \in Ends, ReaderStep(e) \/ Receive(e)
  PROVE  TypeOK'
<1> USE EndsAssumption
<1> DEFINE pkt == Head(Incoming(e))
<1>0. SendTypes /\ ReadTypes /\ LinkTypes
  BY DEF TypeOK
<1>1. CASE RouteHeader(e)
  <2>1. /\ Incoming(e) # <<>> /\ Consume(e) /\ UNCHANGED <<sendVars, linkVars, readWriterLock>>
        /\ Track(e, pkt.msgNo, NewMessage(pkt.msg))
        /\ UNCHANGED <<reader, current, hand, delivered>>
        /\ incomingmsgno' = [incomingmsgno EXCEPT ![e] = @ + 1]
    BY <1>1 DEF RouteHeader, Arrives
  <2>2. pkt.msgNo \in Nat /\ NewMessage(pkt.msg) \in Message
    BY <1>0, <2>1, ConsumeTypes DEF Packet, NewMessage, Message
  <2>3. ReadTypes'
    <3>1. MapTypes' /\ \A d \in Ends : DOMAIN pktToMsg[d] \subseteq DOMAIN pktToMsg'[d]
      BY ZenonT(30), <1>0, <2>1, <2>2, TrackFacts DEF ReadTypes
    <3> QED
      BY <1>0, <2>1, <3>1 DEF ReadTypes
  <2> QED
    BY <1>0, <2>1, <2>3, ConsumeTypes DEF TypeOK, SendTypes, LinkTypes, sendVars, linkVars
<1>2. CASE RouteData(e)
  <2>1. /\ Incoming(e) # <<>> /\ Consume(e) /\ UNCHANGED <<sendVars, linkVars, readWriterLock>>
        /\ pkt.msgNo \in DOMAIN pktToMsg[e]
        /\ Track(e, pkt.msgNo, Write(pktToMsg[e][pkt.msgNo], <<pkt.msg, pkt.pos>>, pkt.bytes))
        /\ UNCHANGED <<incomingmsgno, hand, delivered>>
        /\ reader[e] = "read"
        /\ reader' = [reader EXCEPT ![e] = "ack"]
        /\ current' = [current EXCEPT ![e] = pkt.msgNo]
    BY <1>2 DEF RouteData, Arrives, Tracking
  <2>2. /\ pkt.msgNo \in Nat
        /\ Write(pktToMsg[e][pkt.msgNo], <<pkt.msg, pkt.pos>>, pkt.bytes) \in Message
    BY <1>0, <2>1, ConsumeTypes, WriteTypes DEF Packet, Chunk, ReadTypes, MapTypes
  <2>3. ReadTypes'
    <3>1. /\ MapTypes' /\ \A d \in Ends : DOMAIN pktToMsg[d] \subseteq DOMAIN pktToMsg'[d]
          /\ pkt.msgNo \in DOMAIN pktToMsg'[e]
      BY ZenonT(30), <1>0, <2>1, <2>2, TrackFacts DEF ReadTypes
    <3> QED
      BY <1>0, <2>1, <2>2, <3>1 DEF ReadTypes, ReaderPcs
  <2> QED
    BY <1>0, <2>1, <2>3, ConsumeTypes DEF TypeOK, SendTypes, LinkTypes, sendVars, linkVars
<1>3. CASE RouteEOF(e)
  <2>1. /\ Incoming(e) # <<>> /\ Consume(e) /\ UNCHANGED <<sendVars, linkVars, readWriterLock>>
        /\ pkt.msgNo \in DOMAIN pktToMsg[e]
        /\ Untrack(e, pkt.msgNo)
        /\ hand' = [hand EXCEPT ![e] = <<pktToMsg[e][pkt.msgNo]>>]
        /\ reader' = [reader EXCEPT ![e] = "deliver"]
        /\ UNCHANGED <<incomingmsgno, current, delivered>>
    BY <1>3 DEF RouteEOF, Arrives, Tracking, HandOver
  <2>2. pkt.msgNo \in Nat /\ pktToMsg[e][pkt.msgNo] \in Message
    BY <1>0, <2>1 DEF ReadTypes, MapTypes
  <2>3. ReadTypes'
    <3>1. MapTypes' /\ \A d \in Ends : d # e => pktToMsg'[d] = pktToMsg[d]
      BY <1>0, <2>1, <2>2, UntrackFacts DEF ReadTypes
    <3>2. hand' \in [Ends -> Seq(Message)] /\ Len(hand'[e]) = 1
      BY <1>0, <2>1, <2>2 DEF ReadTypes
    <3> QED
      BY <1>0, <2>1, <3>1, <3>2 DEF ReadTypes, ReaderPcs
  <2> QED
    BY <1>0, <2>1, <2>3, ConsumeTypes DEF TypeOK, SendTypes, LinkTypes, sendVars, linkVars
<1>4. CASE RouteTXERR(e)
  <2> DEFINE new == [Write(pktToMsg[e][pkt.msgNo], <<pkt.msg, 0>>, pkt.bytes) EXCEPT !.err = TRUE]
  <2>1. /\ Incoming(e) # <<>> /\ Consume(e) /\ UNCHANGED <<sendVars, linkVars, readWriterLock>>
        /\ pkt.msgNo \in DOMAIN pktToMsg[e]
        /\ Track(e, pkt.msgNo, new)
        /\ UNCHANGED <<incomingmsgno, hand, delivered>>
        /\ reader[e] = "read"
        /\ reader' = [reader EXCEPT ![e] = "ack"]
        /\ current' = [current EXCEPT ![e] = pkt.msgNo]
    BY <1>4 DEF RouteTXERR, Arrives, Tracking
  <2>2. pkt.msgNo \in Nat /\ new \in Message
    BY <1>0, <2>1, ConsumeTypes, WriteTypes DEF Packet, Chunk, ReadTypes, MapTypes
  <2> HIDE DEF new
  <2>3. ReadTypes'
    <3>0. MapTypes
      BY <1>0 DEF ReadTypes
    <3>1. /\ MapTypes' /\ \A d \in Ends : DOMAIN pktToMsg[d] \subseteq DOMAIN pktToMsg'[d]
          /\ pkt.msgNo \in DOMAIN pktToMsg'[e]
      <4> HIDE DEF pkt
      <4> QED
        BY <2>1, <2>2, <3>0, TrackFacts
    <3> QED
      BY <1>0, <2>1, <2>2, <3>1 DEF ReadTypes, ReaderPcs
  <2> QED
    BY <1>0, <2>1, <2>3, ConsumeTypes DEF TypeOK, SendTypes, LinkTypes, sendVars, linkVars
<1>5. CASE RouteACK(e)
  BY <1>0, <1>5, ConsumeTypes
  DEF RouteACK, Arrives, TypeOK, SendTypes, ReadTypes, MapTypes, LinkTypes, sendVars,
      readVars, linkVars
<1>6. CASE RouteError(e)
  <2>1. /\ Incoming(e) # <<>> /\ Consume(e) /\ UNCHANGED <<sendVars, linkVars, readWriterLock>>
        /\ reader[e] = "read" /\ reader' = [reader EXCEPT ![e] = "stopped"]
        /\ UNCHANGED <<incomingmsgno, pktToMsg, current, hand, delivered>>
    BY <1>6 DEF RouteError, Misplaced, Arrives, StopReading
  <2>2. ReadTypes'
    BY <1>0, <2>1 DEF ReadTypes, MapTypes, ReaderPcs
  <2> QED
    BY <1>0, <2>1, <2>2, ConsumeTypes DEF TypeOK, SendTypes, LinkTypes, sendVars, linkVars
<1>7. CASE ReadError(e)
  <2>1. ReadTypes'
    BY <1>0, <1>7 DEF ReadError, StopReading, ReadTypes, MapTypes, ReaderPcs
  <2> QED
    BY <1>0, <1>7, <2>1 DEF ReadError, TypeOK, SendTypes, LinkTypes, sendVars, linkVars
<1>8. CASE AckBytes(e)
  <2> DEFINE msg == pktToMsg[e][current[e]]
  <2>1. current[e] \in DOMAIN pktToMsg[e] /\ current[e] \in Nat /\ msg \in Message
    BY <1>0, <1>8 DEF AckBytes, ReadTypes, MapTypes
  <2>2. AckPacket(current[e], msg) \in Packet
    BY <2>1 DEF AckPacket, Packet, PacketTypes, Message
  <2>3. wire' \in [Ends -> Seq(Packet)] /\ \A d \in Ends : Len(wire'[d]) <= WireCap
    <3>1. CASE CanWrite(e) /\ wire' = [wire EXCEPT ![e] = Append(@, AckPacket(current[e], msg))]
      BY <1>0, <2>2, <3>1, AppendFacts, BoundsAssumption DEF CanWrite, HasRoom, LinkTypes
    <3>2. CASE UNCHANGED wire
      BY <1>0, <3>2 DEF LinkTypes
    <3> QED
      BY <1>8, <3>1, <3>2 DEF AckBytes
  <2>4. ReadTypes'
    <3>1. CASE msg.err
      <4>1. /\ Untrack(e, current[e])
            /\ hand' = [hand EXCEPT ![e] = <<msg>>]
            /\ reader' = [reader EXCEPT ![e] = "deliver"]
            /\ current' = [current EXCEPT ![e] = 0]
            /\ UNCHANGED <<incomingmsgno, delivered>>
        BY <1>8, <3>1 DEF AckBytes, HandOver
      <4> QED
        <5>1. MapTypes' /\ \A d \in Ends : d # e => pktToMsg'[d] = pktToMsg[d]
          BY <1>0, <2>1, <4>1, UntrackFacts DEF ReadTypes
        <5>2. hand' \in [Ends -> Seq(Message)] /\ Len(hand'[e]) = 1
          BY <1>0, <2>1, <4>1 DEF ReadTypes
        <5> QED
          BY <1>0, <4>1, <5>1, <5>2 DEF ReadTypes, ReaderPcs
    <3>2. CASE ~msg.err
      BY <1>0, <1>8, <3>2 DEF AckBytes, ReadTypes, MapTypes, ReaderPcs
    <3> QED
      BY <3>1, <3>2
  <2>5. SendTypes' /\ UNCHANGED linkVars
    BY <1>0, <1>8 DEF AckBytes, SendTypes, sendVars
  <2> QED
    BY <1>0, <2>3, <2>4, <2>5 DEF TypeOK, LinkTypes, linkVars
<1>9. CASE Receive(e)
  <2>1. ReadTypes'
    <3>1. hand[e] \in Seq(Message) /\ Len(hand[e]) = 1 /\ hand[e][1] \in Message
      BY <1>0, <1>9 DEF Receive, ReadTypes
    <3>2. delivered' \in [Ends -> Seq(Message)]
      BY <1>0, <1>9, <3>1, AppendFacts DEF Receive, ReadTypes
    <3>3. hand' \in [Ends -> Seq(Message)] /\ Len(hand'[e]) = 0
      BY <1>0, <1>9 DEF Receive, ReadTypes
    <3>4. MapTypes' /\ incomingmsgno' \in [Ends -> Nat] /\ current' \in [Ends -> Nat]
      BY <1>0, <1>9 DEF Receive, ReadTypes, MapTypes
    <3>5. /\ reader' \in [Ends -> ReaderPcs] /\ reader'[e] = "read"
          /\ \A d \in Ends : d # e => reader'[d] = reader[d] /\ hand'[d] = hand[d]
      BY <1>0, <1>9 DEF Receive, ReadTypes, ReaderPcs
    <3>6. \A d \in Ends : Len(hand'[d]) = IF reader'[d] = "deliver" THEN 1 ELSE 0
      BY <1>0, <3>3, <3>5 DEF ReadTypes
    <3>7. \A d \in Ends : reader'[d] = "ack" => current'[d] \in DOMAIN pktToMsg'[d]
      BY <1>0, <1>9, <3>5 DEF ReadTypes, Receive
    <3> QED
      BY <3>2, <3>3, <3>4, <3>5, <3>6, <3>7 DEF ReadTypes
  <2> QED
    BY <1>0, <1>9, <2>1 DEF Receive, TypeOK, SendTypes, LinkTypes, sendVars, linkVars
<1> QED
  BY <1>1, <1>2, <1>3, <1>4, <1>5, <1>6, <1>7, <1>8, <1>9 DEF ReaderStep

LEMMA TypeLink ==
  ASSUME TypeOK, LinkFails \/ \E e \in Ends : Close(e) \/ WriteBreaks(e)
  PROVE  TypeOK'
<1>1. UNCHANGED <<sendVars, readVars, readWriterLock, wire>>
  BY DEF LinkFails, Close, WriteBreaks
<1>2. /\ isClosed' \in [Ends -> BOOLEAN]
      /\ werr' \in [Ends -> WriteErrors]
      /\ up' \in BOOLEAN
  BY DEF LinkFails, Close, WriteBreaks, TypeOK, LinkTypes, WriteErrors
<1> QED
  BY <1>1, <1>2 DEF TypeOK, SendTypes, ReadTypes, MapTypes, LinkTypes, sendVars, readVars

LEMMA TypeNext == TypeOK /\ [Next]_vars => TypeOK'
<1> SUFFICES ASSUME TypeOK, [Next]_vars PROVE TypeOK'
  OBVIOUS
<1>1. CASE UNCHANGED vars
  BY <1>1 DEF TypeOK, SendTypes, ReadTypes, MapTypes, LinkTypes, vars, sendVars, readVars, linkVars
<1> QED
  BY <1>1, TypeSend, TypeRead, TypeLink DEF Next

(* The type invariant, for every set of Send calls and every bound: in       *)
(* particular the reader never acknowledges a message it does not track.     *)
THEOREM TypeCorrect == Spec => []TypeOK
  BY TypeInit, TypeNext, PTL DEF Spec

-----------------------------------------------------------------------------
(* Sending: numbers and the lock *)

(* The numbers that Send gives out.                                          *)
Numbered == \A e \in Ends :
  /\ outgoingmsgno[e] = Len(sent[e])
  /\ \A k \in 1..Len(sent[e]) :
       /\ Sender[sent[e][k]] = e
       /\ msgno[sent[e][k]] + 1 = k
       /\ sendPc[sent[e][k]] # "idle"

(* Who is in the middle of a Send holds the lock and has the last number.    *)
LockHeld ==
  /\ \A m \in Sends : sendPc[m] = "sending" =>
       /\ readWriterLock[Sender[m]] = m
       /\ msgno[m] + 1 = Len(sent[Sender[m]])
       /\ sent[Sender[m]][msgno[m] + 1] = m
  /\ \A e \in Ends : readWriterLock[e] # Free =>
       Sender[readWriterLock[e]] = e /\ sendPc[readWriterLock[e]] = "sending"

Progress == \A m \in Sends :
  /\ next[m] <= EofPos(m) + 1
  /\ sendPc[m] = "idle" => next[m] = 0
  /\ sawClosed[m] => isClosed[Sender[m]]

SendInv == Numbered /\ LockHeld /\ Progress

(* The packets on the wire, the reader's ACKs aside: what they are, and that *)
(* they are in order.                                                        *)
Real(p) == p.type # "ACK"
IsFinal(p) == p.type \in {"EOF", "TXERR"}

PacketInv(e, p) ==
  /\ p.msgNo < Len(sent[e])
  /\ p.msg = sent[e][p.msgNo + 1]
  /\ p.type = "HEADER" => p.pos = 0
  /\ p.type = "DATA" => p.pos > 0 /\ p.pos <= NChunks[p.msg]
  /\ p.type = "EOF" => /\ p.pos = EofPos(p.msg)
                       /\ sendPc[p.msg] # "err"
                       /\ ~sawClosed[p.msg]
  /\ p.type = "TXERR" => p.pos > 0 /\ sendPc[p.msg] = "err" /\ e \in Foreign
  /\ p.type # "TXERR" => p.pos < next[p.msg]

Before(p, r) == p.msgNo < r.msgNo \/ (p.msgNo = r.msgNo /\ p.pos < r.pos /\ ~IsFinal(p))

WireInv == \A e \in Ends :
  /\ \A i \in 1..Len(wire[e]) : Real(wire[e][i]) => PacketInv(e, wire[e][i])
  /\ \A i, j \in 1..Len(wire[e]) :
       i < j /\ Real(wire[e][i]) /\ Real(wire[e][j]) => Before(wire[e][i], wire[e][j])

(* No gaps.  The packet before position pos of message n is among the first  *)
(* k on the wire of e, or the last one that its peer's reader consumed.      *)
Holds(e, n) == n \in DOMAIN pktToMsg[Peer[e]] /\ ~pktToMsg[Peer[e]][n].err

Preceded(e, k, n, pos) ==
  \/ \E i \in 1..k : Real(wire[e][i]) /\ wire[e][i].msgNo = n /\ wire[e][i].pos + 1 = pos
  \/ Holds(e, n) /\ Len(pktToMsg[Peer[e]][n].body) + 1 = pos

(* The last packet of message n is among the first k, or nothing of n is     *)
(* left anywhere.                                                            *)
Settled(e, k, n) ==
  \/ \E i \in 1..k : IsFinal(wire[e][i]) /\ wire[e][i].msgNo = n
  \/ ~Holds(e, n) /\ \A i \in 1..Len(wire[e]) : Real(wire[e][i]) => wire[e][i].msgNo # n

NoGapOnWire(e) == \A j \in 1..Len(wire[e]) : Real(wire[e][j]) =>
  /\ wire[e][j].pos > 0 => Preceded(e, j - 1, wire[e][j].msgNo, wire[e][j].pos)
  /\ wire[e][j].pos = 0 /\ wire[e][j].msgNo > 0 => Settled(e, j - 1, wire[e][j].msgNo - 1)

NoGapAtEnd(e) == werr[e] = "none" =>
  /\ \A m \in Sends : sendPc[m] = "sending" /\ Sender[m] = e =>
       /\ next[m] > 0 /\ next[m] <= EofPos(m) => Preceded(e, Len(wire[e]), msgno[m], next[m])
       /\ next[m] = 0 /\ msgno[m] > 0 => Settled(e, Len(wire[e]), msgno[m] - 1)
       /\ next[m] > EofPos(m) => Settled(e, Len(wire[e]), msgno[m])
  /\ readWriterLock[e] = Free /\ Len(sent[e]) > 0 => Settled(e, Len(wire[e]), Len(sent[e]) - 1)

GapInv == \A e \in Ends : reader[Peer[e]] # "stopped" => NoGapOnWire(e) /\ NoGapAtEnd(e)

(* What the reader of q has assembled.                                       *)
Partial(q, n, msg) ==
  /\ n + 1 = incomingmsgno[q]
  /\ n < Len(sent[Peer[q]])
  /\ msg.hdr = sent[Peer[q]][n + 1]
  /\ ~msg.err => /\ Len(msg.body) <= NChunks[msg.hdr]
                 /\ Len(msg.body) < next[msg.hdr]
                 /\ \A i \in 1..Len(msg.body) : msg.body[i] = <<msg.hdr, i>>
  /\ msg.err => reader[q] = "ack" /\ current[q] = n

ReadInv == \A q \in Ends : \A n \in DOMAIN pktToMsg[q] : Partial(q, n, pktToMsg[q][n])

IndInv == TypeOK /\ SendInv /\ WireInv /\ GapInv /\ ReadInv

-----------------------------------------------------------------------------
(* Send *)

(* What entering Send does, field by field.                                  *)
LEMMA SendEffect ==
  ASSUME TypeOK, NEW m \in Sends, Send(m)
  PROVE  LET e == Sender[m] IN
         /\ e \in Ends
         /\ sendPc[m] = "idle" /\ sendPc'[m] = "sending"
         /\ \A x \in Sends : x # m => /\ sendPc'[x] = sendPc[x] /\ msgno'[x] = msgno[x]
                                      /\ sawClosed'[x] = sawClosed[x]
         /\ msgno'[m] = outgoingmsgno[e] /\ outgoingmsgno'[e] = outgoingmsgno[e] + 1
         /\ readWriterLock[e] = Free /\ readWriterLock'[e] = m
         /\ Len(sent[e]) \in Nat /\ Len(sent'[e]) = Len(sent[e]) + 1
         /\ sent'[e][Len(sent[e]) + 1] = m
         /\ \A k \in 1..Len(sent[e]) : sent'[e][k] = sent[e][k]
         /\ \A d \in Ends : d # e => /\ sent'[d] = sent[d]
                                     /\ outgoingmsgno'[d] = outgoingmsgno[d]
                                     /\ readWriterLock'[d] = readWriterLock[d]
         /\ UNCHANGED <<next, retries, readVars, linkVars, wire>>
<1> DEFINE e == Sender[m]
<1>0. SendTypes /\ e \in Ends
  BY SendsAssumption DEF TypeOK
<1>1. /\ sendPc[m] = "idle" /\ sendPc' = [sendPc EXCEPT ![m] = "sending"]
      /\ msgno' = [msgno EXCEPT ![m] = outgoingmsgno[e]]
      /\ outgoingmsgno' = [outgoingmsgno EXCEPT ![e] = @ + 1]
      /\ readWriterLock[e] = Free
      /\ readWriterLock' = [readWriterLock EXCEPT ![e] = m]
      /\ sent' = [sent EXCEPT ![e] = Append(@, m)]
      /\ UNCHANGED <<next, retries, readVars, linkVars, wire>>
  BY DEF Send
<1>2. PICK saw \in BOOLEAN : sawClosed' = [sawClosed EXCEPT ![m] = saw]
  BY DEF Send
<1>3. sent[e] \in Seq(Sends) /\ sent'[e] = Append(sent[e], m)
  BY <1>0, <1>1 DEF SendTypes
<1>4. /\ Len(sent[e]) \in Nat /\ Len(sent'[e]) = Len(sent[e]) + 1
      /\ sent'[e][Len(sent[e]) + 1] = m
      /\ \A k \in 1..Len(sent[e]) : sent'[e][k] = sent[e][k]
  BY <1>3, AppendFacts
<1>5. \A x \in Sends : x # m => /\ sendPc'[x] = sendPc[x] /\ msgno'[x] = msgno[x]
                                /\ sawClosed'[x] = sawClosed[x]
  BY <1>0, <1>1, <1>2 DEF SendTypes
<1>6. \A d \in Ends : d # e => /\ sent'[d] = sent[d]
                               /\ outgoingmsgno'[d] = outgoingmsgno[d]
                               /\ readWriterLock'[d] = readWriterLock[d]
  BY <1>0, <1>1 DEF SendTypes
<1>7. /\ sendPc'[m] = "sending" /\ msgno'[m] = outgoingmsgno[e]
      /\ outgoingmsgno'[e] = outgoingmsgno[e] + 1 /\ readWriterLock'[e] = m
  BY <1>0, <1>1 DEF SendTypes
<1> QED
  BY <1>0, <1>1, <1>4, <1>5, <1>6, <1>7

(* What a step of Send or of AbortSend leaves alone, and what it only lets   *)
(* grow.                                                                     *)
LEMMA SendFrame ==
  ASSUME TypeOK, SendInv, NEW m \in Sends, SendStep(m) \/ AbortSend(m)
  PROVE  /\ UNCHANGED <<readVars, linkVars>>
         /\ \A d \in Ends : /\ Len(sent[d]) <= Len(sent'[d])
                            /\ \A k \in 1..Len(sent[d]) : sent'[d][k] = sent[d][k]
         /\ \A x \in Sends : next[x] <= next'[x]
         /\ \A x \in Sends : x # m => /\ sendPc'[x] = sendPc[x] /\ next'[x] = next[x]
                                      /\ msgno'[x] = msgno[x] /\ sawClosed'[x] = sawClosed[x]
         /\ sendPc[m] \in {"idle", "sending"}
         /\ sendPc'[m] # "idle"
         /\ sendPc[m] = "sending" => sawClosed'[m] = sawClosed[m] /\ msgno'[m] = msgno[m] /\ sent' = sent
         /\ sendPc[m] = "sending" /\ next[m] > EofPos(m) /\ ~sawClosed[m] => sendPc'[m] # "err"
<1> USE EndsAssumption, SendsAssumption
<1>0. Sender[m] \in Ends /\ SendTypes /\ EofPos(m) \in Nat
  BY DEF TypeOK, EofPos
<1>1. CASE Send(m)
  <2>1. \A d \in Ends : /\ Len(sent[d]) <= Len(sent'[d])
                        /\ \A k \in 1..Len(sent[d]) : sent'[d][k] = sent[d][k]
    <3>1. \A d \in Ends : Len(sent[d]) \in Nat
      BY <1>0 DEF SendTypes
    <3>2. \A d \in Ends : d # Sender[m] => sent'[d] = sent[d]
      BY <1>1, SendEffect
    <3>3. /\ Len(sent'[Sender[m]]) = Len(sent[Sender[m]]) + 1
          /\ \A k \in 1..Len(sent[Sender[m]]) : sent'[Sender[m]][k] = sent[Sender[m]][k]
      BY <1>1, SendEffect
    <3> QED
      BY <3>1, <3>2, <3>3
  <2> QED
    BY <1>0, <1>1, <2>1, SendEffect DEF SendTypes
<1>2. CASE SendUnnumbered(m)
  BY <1>0, <1>2 DEF SendUnnumbered, SendTypes
<1>3. CASE WritePacket(m)
  BY <1>0, <1>3 DEF WritePacket, Writing, SendTypes
<1>4. CASE WriteSkipped(m)
  BY <1>0, <1>4 DEF WriteSkipped, Writing, SendTypes
<1>5. CASE WriteRetry(m)
  BY <1>0, <1>5 DEF WriteRetry, Writing, SendTypes
<1>6. CASE WriteGiveUp(m)
  BY <1>0, <1>6 DEF WriteGiveUp, Writing, Return, SendTypes
<1>7. CASE SendReturn(m)
  BY <1>0, <1>7 DEF SendReturn, Return, SendTypes
<1>8. CASE AbortSend(m)
  BY <1>0, <1>8 DEF AbortSend, Writing, Return, SendTypes
<1> QED
  BY <1>1, <1>2, <1>3, <1>4, <1>5, <1>6, <1>7, <1>8 DEF SendStep

LEMMA NumberedSend ==
  ASSUME TypeOK, SendInv, NEW m \in Sends, SendStep(m) \/ AbortSend(m)
  PROVE  Numbered'
<1> USE EndsAssumption, SendsAssumption
<1>0. SendTypes /\ Numbered /\ Sender[m] \in Ends
  BY DEF TypeOK, SendInv
<1>1. CASE Send(m)
  <2>1. ASSUME NEW d \in Ends PROVE outgoingmsgno'[d] = Len(sent'[d])
    <3>1. CASE d = Sender[m]
      BY <1>0, <1>1, <3>1, SendEffect DEF Numbered
    <3>2. CASE d # Sender[m]
      BY <1>0, <1>1, <3>2, SendEffect DEF Numbered
    <3> QED
      BY <3>1, <3>2
  <2>2. sendPc[m] = "idle"
    BY <1>1 DEF Send
  <2>3. ASSUME NEW d \in Ends, NEW k \in 1..Len(sent[d])
        PROVE  /\ Sender[sent[d][k]] = d
               /\ msgno'[sent[d][k]] + 1 = k
               /\ sendPc'[sent[d][k]] # "idle"
    <3>1. sent[d][k] \in Sends
      BY <1>0 DEF SendTypes
    <3>2. sent[d][k] # m /\ Sender[sent[d][k]] = d /\ msgno[sent[d][k]] + 1 = k
          /\ sendPc[sent[d][k]] # "idle"
      BY <1>0, <2>2 DEF Numbered
    <3> QED
      BY <1>1, <3>1, <3>2, SendEffect
  <2>4. ASSUME NEW d \in Ends, NEW k \in 1..Len(sent'[d])
        PROVE  /\ Sender[sent'[d][k]] = d
               /\ msgno'[sent'[d][k]] + 1 = k
               /\ sendPc'[sent'[d][k]] # "idle"
    <3>1. CASE k \in 1..Len(sent[d])
      <4>1. sent'[d][k] = sent[d][k]
        BY <1>1, <3>1, SendEffect
      <4> QED
        BY <2>3, <3>1, <4>1
    <3>2. CASE d = Sender[m] /\ k = Len(sent[d]) + 1
      BY <1>0, <1>1, <3>2, SendEffect DEF Numbered
    <3>3. k \in 1..Len(sent[d]) \/ (d = Sender[m] /\ k = Len(sent[d]) + 1)
      BY <1>1, SendEffect
    <3> QED
      BY <3>1, <3>2, <3>3
  <2> QED
    BY <2>1, <2>4 DEF Numbered
<1>2. CASE ~Send(m)
  <2>1. UNCHANGED <<outgoingmsgno, sent, msgno>>
    BY <1>2 DEF SendStep, SendUnnumbered, WritePacket, WriteSkipped, WriteRetry, WriteGiveUp,
       SendReturn, AbortSend
  <2>2. \A x \in Sends : sendPc[x] # "idle" => sendPc'[x] # "idle"
    BY SendFrame
  <2>3. \A d \in Ends : \A k \in 1..Len(sent[d]) : sent[d][k] \in Sends
    BY <1>0 DEF SendTypes
  <2> QED
    BY <1>0, <2>1, <2>2, <2>3 DEF Numbered
<1> QED
  BY <1>1, <1>2

LEMMA LockHeldSend ==
  ASSUME TypeOK, SendInv, NEW m \in Sends, SendStep(m) \/ AbortSend(m)
  PROVE  LockHeld'
<1> USE EndsAssumption, SendsAssumption
<1>0. SendTypes /\ Numbered /\ LockHeld /\ Sender[m] \in Ends
  BY DEF TypeOK, SendInv
<1>1. CASE Send(m)
  <2>1. ASSUME NEW x \in Sends, sendPc'[x] = "sending"
        PROVE  /\ readWriterLock'[Sender[x]] = x
               /\ msgno'[x] + 1 = Len(sent'[Sender[x]])
               /\ sent'[Sender[x]][msgno'[x] + 1] = x
    <3>1. CASE x = m
      BY <1>0, <1>1, <3>1, SendEffect DEF Numbered
    <3>2. CASE x # m
      <4>1. Sender[x] \in Ends /\ sendPc[x] = "sending"
        BY <1>1, <2>1, <3>2, SendEffect
      <4>2. /\ readWriterLock[Sender[x]] = x
            /\ msgno[x] + 1 = Len(sent[Sender[x]])
            /\ sent[Sender[x]][msgno[x] + 1] = x
        BY <1>0, <4>1 DEF LockHeld
      <4>3. Sender[x] # Sender[m]
        BY <1>1, <4>2, SendEffect
      <4> QED
        BY <1>1, <3>2, <4>1, <4>2, <4>3, SendEffect
    <3> QED
      BY <3>1, <3>2
  <2>2. ASSUME NEW d \in Ends, readWriterLock'[d] # Free
        PROVE  Sender[readWriterLock'[d]] = d /\ sendPc'[readWriterLock'[d]] = "sending"
    <3>1. CASE d = Sender[m]
      BY <1>1, <3>1, SendEffect
    <3>2. CASE d # Sender[m]
      <4>1. readWriterLock'[d] = readWriterLock[d]
        BY <1>1, <3>2, SendEffect
      <4>2. readWriterLock[d] \in Sends /\ Sender[readWriterLock[d]] = d
            /\ sendPc[readWriterLock[d]] = "sending"
        BY <1>0, <2>2, <4>1 DEF LockHeld, SendTypes
      <4> QED
        BY <1>1, <3>2, <4>1, <4>2, SendEffect
    <3> QED
      BY <3>1, <3>2
  <2> QED
    BY <2>1, <2>2 DEF LockHeld
<1>2. CASE SendUnnumbered(m)
  <2>1. /\ sendPc[m] = "idle" /\ sendPc'[m] = "err"
        /\ \A x \in Sends : x # m => sendPc'[x] = sendPc[x]
        /\ UNCHANGED <<msgno, sent, readWriterLock>>
    BY <1>0, <1>2 DEF SendUnnumbered, SendTypes
  <2>2. \A d \in Ends : readWriterLock[d] # Free => readWriterLock[d] \in Sends
    BY <1>0 DEF SendTypes
  <2> QED
    BY <1>0, <2>1, <2>2 DEF LockHeld
<1>3. CASE WritePacket(m) \/ WriteSkipped(m) \/ WriteRetry(m)
  BY <1>0, <1>3 DEF LockHeld, WritePacket, WriteSkipped, WriteRetry
<1>4. CASE WriteGiveUp(m) \/ SendReturn(m) \/ AbortSend(m)
  <2>1. /\ readWriterLock[Sender[m]] = m
        /\ sendPc'[m] # "sending" /\ \A x \in Sends : x # m => sendPc'[x] = sendPc[x]
        /\ readWriterLock'[Sender[m]] = Free
        /\ \A d \in Ends : d # Sender[m] => readWriterLock'[d] = readWriterLock[d]
        /\ UNCHANGED <<msgno, sent>>
    BY <1>0, <1>4 DEF WriteGiveUp, SendReturn, AbortSend, Writing, Return, SendTypes
  <2>2. ASSUME NEW x \in Sends, sendPc'[x] = "sending"
        PROVE  /\ readWriterLock'[Sender[x]] = x
               /\ msgno[x] + 1 = Len(sent[Sender[x]])
               /\ sent[Sender[x]][msgno[x] + 1] = x
    <3>1. x # m /\ sendPc[x] = "sending" /\ Sender[x] \in Ends
      BY <2>1, <2>2
    <3>2. readWriterLock[Sender[x]] = x /\ Sender[x] # Sender[m]
      BY <1>0, <2>1, <3>1 DEF LockHeld
    <3> QED
      BY <1>0, <2>1, <3>1, <3>2 DEF LockHeld
  <2>3. ASSUME NEW d \in Ends, readWriterLock'[d] # Free
        PROVE  Sender[readWriterLock'[d]] = d /\ sendPc'[readWriterLock'[d]] = "sending"
    <3>1. d # Sender[m] /\ readWriterLock'[d] = readWriterLock[d]
      BY <2>1, <2>3
    <3>2. readWriterLock[d] \in Sends /\ Sender[readWriterLock[d]] = d
          /\ sendPc[readWriterLock[d]] = "sending"
      BY <1>0, <2>3, <3>1 DEF LockHeld, SendTypes
    <3> QED
      BY <2>1, <3>1, <3>2
  <2> QED
    BY <2>1, <2>2, <2>3 DEF LockHeld
<1> QED
  BY <1>1, <1>2, <1>3, <1>4 DEF SendStep

LEMMA ProgressSend ==
  ASSUME TypeOK, SendInv, NEW m \in Sends, SendStep(m) \/ AbortSend(m)
  PROVE  Progress'
<1> USE EndsAssumption, SendsAssumption
<1>0. SendTypes /\ Progress /\ Sender[m] \in Ends /\ EofPos(m) \in Nat
  BY DEF TypeOK, SendInv, EofPos
<1>1. next'[m] <= EofPos(m) + 1
  <2>1. CASE WritePacket(m) \/ WriteSkipped(m)
    BY <1>0, <2>1 DEF WritePacket, WriteSkipped, Writing, SendTypes
  <2>2. CASE UNCHANGED next
    BY <1>0, <2>2 DEF Progress
  <2> QED
    BY <2>1, <2>2 DEF SendStep, Send, SendUnnumbered, WriteRetry, WriteGiveUp, SendReturn, AbortSend
<1>2. sawClosed'[m] => isClosed[Sender[m]]
  <2>1. CASE Send(m)
    BY <1>0, <2>1 DEF Send, SendTypes
  <2>2. CASE UNCHANGED sawClosed
    BY <1>0, <2>2 DEF Progress
  <2> QED
    BY <2>1, <2>2 DEF SendStep, SendUnnumbered, WritePacket, WriteSkipped, WriteRetry, WriteGiveUp,
       SendReturn, AbortSend
<1>3. UNCHANGED isClosed /\ sendPc'[m] # "idle"
  BY SendFrame DEF linkVars
<1>4. ASSUME NEW x \in Sends, x # m
      PROVE  sendPc'[x] = sendPc[x] /\ next'[x] = next[x] /\ sawClosed'[x] = sawClosed[x]
  BY <1>4, SendFrame
<1> QED
  BY <1>0, <1>1, <1>2, <1>3, <1>4 DEF Progress, EofPos

LEMMA SendInvSend ==
  ASSUME TypeOK, SendInv, NEW m \in Sends, SendStep(m) \/ AbortSend(m)
  PROVE  SendInv'
  BY NumberedSend, LockHeldSend, ProgressSend DEF SendInv

(* Everybody else leaves Send's state alone, and Close is never undone.      *)
LEMMA SendInvOther ==
  ASSUME TypeOK, SendInv, UNCHANGED <<sendVars, readWriterLock>>,
         \A e \in Ends : isClosed[e] => isClosed'[e]
  PROVE  SendInv'
<1>1. Numbered' /\ LockHeld'
  BY DEF SendInv, Numbered, LockHeld, sendVars
<1>2. Progress'
  BY SendsAssumption DEF SendInv, Progress, sendVars, TypeOK, EofPos
<1> QED
  BY <1>1, <1>2 DEF SendInv

-----------------------------------------------------------------------------
(* The wire *)

(* Send m writes p: the next packet of the message whose number is the last, *)
(* at the end of a stream that is neither closed nor broken.                 *)
Written(m, p) == LET e == Sender[m] IN
  /\ e \in Ends /\ Len(wire[e]) \in Nat
  /\ Len(wire'[e]) = Len(wire[e]) + 1
  /\ \A i \in 1..Len(wire[e]) : wire'[e][i] = wire[e][i]
  /\ wire'[e][Len(wire[e]) + 1] = p
  /\ \A d \in Ends : d # e => wire'[d] = wire[d]
  /\ Real(p) /\ p.msgNo = msgno[m] /\ p.msg = m /\ p.pos = next[m]
  /\ sendPc[m] = "sending" /\ next[m] <= EofPos(m)
  /\ werr[e] = "none" /\ ~isClosed[e]
  /\ \/ /\ p.type = PacketAt(m, msgno[m], next[m]).type /\ p.bytes = Size(m, next[m])
        /\ next'[m] = next[m] + 1 /\ sendPc' = sendPc /\ readWriterLock' = readWriterLock
     \/ /\ p.type = "TXERR" /\ p.bytes \in TextSizes /\ next[m] > 0 /\ e \in Foreign
        /\ next' = next /\ sendPc'[m] = "err" /\ readWriterLock'[e] = Free

LEMMA WriteEffect ==
  ASSUME TypeOK, SendInv, NEW m \in Sends, WritePacket(m) \/ AbortSend(m)
  PROVE  \E p \in Packet : Written(m, p)
<1> USE SendsAssumption
<1> DEFINE e == Sender[m]
<1>0. SendTypes /\ LinkTypes /\ e \in Ends /\ wire[e] \in Seq(Packet)
  BY DEF TypeOK, LinkTypes
<1>1. ASSUME NEW p \in Packet, wire' = [wire EXCEPT ![e] = Append(@, p)]
      PROVE  /\ Len(wire[e]) \in Nat /\ Len(wire'[e]) = Len(wire[e]) + 1
             /\ \A i \in 1..Len(wire[e]) : wire'[e][i] = wire[e][i]
             /\ wire'[e][Len(wire[e]) + 1] = p
             /\ \A d \in Ends : d # e => wire'[d] = wire[d]
  <2>1. wire'[e] = Append(wire[e], p) /\ \A d \in Ends : d # e => wire'[d] = wire[d]
    BY <1>0, <1>1 DEF LinkTypes
  <2> QED
    BY <1>0, <2>1, AppendFacts
<1>2. CASE WritePacket(m)
  <2> DEFINE new == PacketAt(m, msgno[m], next[m])
  <2>1. new \in Packet /\ Real(new) /\ new.msgNo = msgno[m] /\ new.msg = m /\ new.pos = next[m]
    <3>1. msgno[m] \in Nat /\ next[m] \in Nat /\ new \in Packet
      BY <1>0, PacketAtType DEF SendTypes
    <3> QED
      BY <3>1 DEF PacketAt, Real
  <2>2. /\ wire' = [wire EXCEPT ![e] = Append(@, new)]
        /\ sendPc[m] = "sending" /\ next[m] <= EofPos(m)
        /\ werr[e] = "none" /\ ~isClosed[e]
        /\ next'[m] = next[m] + 1 /\ sendPc' = sendPc /\ readWriterLock' = readWriterLock
    BY <1>0, <1>2 DEF WritePacket, Writing, CanWrite, SendTypes
  <2> HIDE DEF new
  <2>3. /\ Len(wire[e]) \in Nat /\ Len(wire'[e]) = Len(wire[e]) + 1
        /\ \A i \in 1..Len(wire[e]) : wire'[e][i] = wire[e][i]
        /\ wire'[e][Len(wire[e]) + 1] = new
        /\ \A d \in Ends : d # e => wire'[d] = wire[d]
    BY <1>1, <2>1, <2>2
  <2>4. new.type = PacketAt(m, msgno[m], next[m]).type /\ new.bytes = Size(m, next[m])
    BY DEF new, PacketAt
  <2>5. Written(m, new)
    BY <1>0, <2>1, <2>2, <2>3, <2>4 DEF Written
  <2> QED
    BY <2>1, <2>5
<1>3. CASE AbortSend(m)
  <2>0. PICK textSize \in TextSizes :
          wire' = [wire EXCEPT ![e] = Append(@, TxErrPacket(m, msgno[m], next[m], textSize))]
    BY <1>3 DEF AbortSend
  <2> DEFINE new == TxErrPacket(m, msgno[m], next[m], textSize)
  <2>1. new \in Packet /\ Real(new) /\ new.msgNo = msgno[m] /\ new.msg = m /\ new.pos = next[m]
        /\ new.type = "TXERR" /\ new.bytes \in TextSizes
    BY <1>0, TextSizesAssumption DEF TxErrPacket, Packet, PacketTypes, SendTypes, Real
  <2>2. /\ wire' = [wire EXCEPT ![e] = Append(@, new)]
        /\ sendPc[m] = "sending" /\ next[m] <= EofPos(m) /\ next[m] > 0
        /\ werr[e] = "none" /\ ~isClosed[e] /\ e \in Foreign
        /\ next' = next /\ sendPc'[m] = "err" /\ readWriterLock'[e] = Free
    BY <1>0, <1>3, <2>0 DEF AbortSend, Return, Writing, CanWrite, SendTypes
  <2> HIDE DEF new
  <2>3. /\ Len(wire[e]) \in Nat /\ Len(wire'[e]) = Len(wire[e]) + 1
        /\ \A i \in 1..Len(wire[e]) : wire'[e][i] = wire[e][i]
        /\ wire'[e][Len(wire[e]) + 1] = new
        /\ \A d \in Ends : d # e => wire'[d] = wire[d]
    BY <1>1, <2>1, <2>2
  <2>4. Written(m, new)
    BY <1>0, <2>1, <2>2, <2>3 DEF Written
  <2> QED
    BY <2>1, <2>4
<1> QED
  BY <1>2, <1>3

(* What is true of a packet on the wire stays true whatever Send does.       *)
LEMMA PacketKept ==
  ASSUME TypeOK, SendInv, NEW m \in Sends, SendStep(m) \/ AbortSend(m),
         NEW e \in Ends, NEW p \in Packet, PacketInv(e, p)
  PROVE  PacketInv(e, p)'
<1>0. /\ SendTypes /\ SendTypes'
      /\ p.msg \in Sends /\ p.msgNo \in Nat /\ p.pos \in Nat
      /\ NChunks[p.msg] \in Nat
  <2>1. TypeOK'
    BY TypeSend
  <2>2. p.msg \in Sends /\ p.msgNo \in Nat /\ p.pos \in Nat
    BY DEF Packet
  <2>3. NChunks[p.msg] \in Nat
    BY <2>2, SendsAssumption
  <2>4. SendTypes /\ SendTypes'
    BY <2>1 DEF TypeOK
  <2> QED
    BY <2>2, <2>3, <2>4
<1>1. /\ p.msg \in Sends /\ p.msgNo \in Nat /\ p.pos \in Nat
      /\ next[p.msg] \in Nat /\ next'[p.msg] \in Nat /\ EofPos(p.msg) \in Nat
  <2>1. EofPos(p.msg) \in Nat
    BY <1>0 DEF EofPos
  <2>2. next \in [Sends -> Nat] /\ next' \in [Sends -> Nat]
    BY <1>0 DEF SendTypes
  <2> QED
    BY <1>0, <2>1, <2>2
<1>2. /\ Len(sent[e]) \in Nat /\ Len(sent'[e]) \in Nat
      /\ p.msgNo + 1 \in 1..Len(sent[e]) /\ p.msg = sent[e][p.msgNo + 1]
  <2>1. Len(sent[e]) \in Nat /\ Len(sent'[e]) \in Nat
    <3>1. sent \in [Ends -> Seq(Sends)] /\ sent' \in [Ends -> Seq(Sends)]
      BY <1>0 DEF SendTypes
    <3>2. sent[e] \in Seq(Sends) /\ sent'[e] \in Seq(Sends)
      BY <3>1
    <3> QED
      BY <3>2
  <2> QED
    BY <1>1, <2>1 DEF PacketInv
<1>3. p.msgNo < Len(sent'[e]) /\ p.msg = sent'[e][p.msgNo + 1]
  <2>1. /\ Len(sent[e]) <= Len(sent'[e])
        /\ \A k \in 1..Len(sent[e]) : sent'[e][k] = sent[e][k]
    BY SendFrame
  <2> QED
    BY <1>1, <1>2, <2>1
<1>4. sendPc[p.msg] # "idle"
  BY <1>2 DEF SendInv, Numbered
<1>5. next[p.msg] <= next'[p.msg]
  BY <1>1, SendFrame
<1>6. p.type # "TXERR" => p.pos < next'[p.msg]
  BY <1>1, <1>5 DEF PacketInv
<1>7. p.type = "TXERR" => sendPc'[p.msg] = "err"
  BY <1>1, SendFrame DEF PacketInv
<1>8. p.type = "EOF" => sendPc'[p.msg] # "err" /\ ~sawClosed'[p.msg]
  <2>1. CASE p.msg # m
    BY <1>1, <2>1, SendFrame DEF PacketInv
  <2>2. CASE p.msg = m
    <3>1. sendPc[m] = "sending"
      BY <1>4, <2>2, SendFrame
    <3>2. p.type = "EOF" => next[m] > EofPos(m) /\ ~sawClosed[m]
      BY <1>1, <2>2 DEF PacketInv
    <3> QED
      BY <2>2, <3>1, <3>2, SendFrame
  <2> QED
    BY <2>1, <2>2
<1> QED
  BY <1>3, <1>6, <1>7, <1>8 DEF PacketInv

(* While m is being sent, everything on the wire comes before its next       *)
(* packet.                                                                   *)
LEMMA OldBeforeNext ==
  ASSUME TypeOK, SendInv, NEW m \in Sends, sendPc[m] = "sending", next[m] <= EofPos(m),
         NEW p \in Packet, Real(p), PacketInv(Sender[m], p)
  PROVE  p.msgNo < msgno[m] \/ (p.msgNo = msgno[m] /\ p.pos < next[m] /\ ~IsFinal(p))
<1>0. SendTypes /\ NChunks[m] \in Nat
  BY SendsAssumption DEF TypeOK
<1>1. /\ msgno[m] + 1 = Len(sent[Sender[m]]) /\ sent[Sender[m]][msgno[m] + 1] = m
      /\ msgno[m] \in Nat /\ next[m] \in Nat /\ EofPos(m) \in Nat
      /\ p.msgNo \in Nat /\ p.pos \in Nat
  <2>1. msgno[m] + 1 = Len(sent[Sender[m]]) /\ sent[Sender[m]][msgno[m] + 1] = m
    BY DEF SendInv, LockHeld
  <2>2. msgno[m] \in Nat /\ next[m] \in Nat /\ EofPos(m) \in Nat
    BY <1>0 DEF SendTypes, EofPos
  <2>3. p.msgNo \in Nat /\ p.pos \in Nat
    BY DEF Packet
  <2> QED
    BY <2>1, <2>2, <2>3
<1>2. p.msgNo <= msgno[m]
  BY <1>1 DEF PacketInv
<1>3. CASE p.msgNo = msgno[m]
  <2>1. p.msg = m /\ p.type # "TXERR"
    BY <1>1, <1>3 DEF PacketInv
  <2>2. p.pos < next[m]
    BY <2>1 DEF PacketInv
  <2>3. p.type # "EOF"
    BY <1>1, <2>1, <2>2 DEF PacketInv
  <2> QED
    BY <1>3, <2>1, <2>2, <2>3 DEF IsFinal
<1> QED
  BY <1>1, <1>2, <1>3

LEMMA WireInvSend ==
  ASSUME TypeOK, SendInv, WireInv, NEW m \in Sends, SendStep(m) \/ AbortSend(m)
  PROVE  WireInv'
<1>0. \A d \in Ends : \A i \in 1..Len(wire[d]) : wire[d][i] \in Packet
  BY DEF TypeOK, LinkTypes
<1>1. ASSUME NEW d \in Ends, NEW p \in Packet, PacketInv(d, p) PROVE PacketInv(d, p)'
  BY <1>1, PacketKept
<1>2. CASE UNCHANGED wire
  <2>1. ASSUME NEW d \in Ends, NEW i \in 1..Len(wire[d]), Real(wire[d][i])
        PROVE  PacketInv(d, wire[d][i])'
    <3>1. PICK p \in Packet : p = wire[d][i]
      BY <1>0
    <3>2. PacketInv(d, p)'
      BY <1>1, <2>1, <3>1 DEF WireInv
    <3> QED
      BY <1>2, <3>1, <3>2
  <2> QED
    BY <1>2, <2>1 DEF WireInv, Real, Before, IsFinal
<1>3. CASE WritePacket(m) \/ AbortSend(m)
  <2> DEFINE e == Sender[m]
  <2>0. PICK p \in Packet : Written(m, p)
    BY <1>3, WriteEffect
  <2>1. /\ e \in Ends /\ Len(wire[e]) \in Nat
        /\ Len(wire'[e]) = Len(wire[e]) + 1
        /\ \A i \in 1..Len(wire[e]) : wire'[e][i] = wire[e][i]
        /\ wire'[e][Len(wire[e]) + 1] = p
        /\ \A d \in Ends : d # e => wire'[d] = wire[d]
        /\ Real(p) /\ p.msgNo = msgno[m] /\ p.msg = m /\ p.pos = next[m]
        /\ sendPc[m] = "sending" /\ next[m] <= EofPos(m)
        /\ ~isClosed[e]
        /\ \/ /\ p.type = PacketAt(m, msgno[m], next[m]).type
              /\ next'[m] = next[m] + 1 /\ sendPc' = sendPc
           \/ /\ p.type = "TXERR" /\ next[m] > 0 /\ e \in Foreign
              /\ sendPc'[m] = "err"
    BY <2>0 DEF Written
  <2>2. PacketInv(e, p)'
    <3>1. sent' = sent /\ sawClosed'[m] = sawClosed[m]
      BY <2>1, SendFrame
    <3>2. p.msgNo < Len(sent[e]) /\ p.msg = sent[e][p.msgNo + 1]
      <4>1. msgno[m] \in Nat /\ msgno[m] + 1 = Len(sent[e]) /\ sent[e][msgno[m] + 1] = m
        BY <2>1 DEF SendInv, LockHeld, TypeOK, SendTypes
      <4> QED
        BY <2>1, <4>1
    <3>3. ~sawClosed[m] /\ next[m] \in Nat /\ NChunks[m] \in Nat
      BY <2>1, SendsAssumption DEF SendInv, Progress, TypeOK, SendTypes
    <3>4. CASE p.type = "TXERR"
      BY <2>1, <3>1, <3>2, <3>4 DEF PacketInv, PacketAt
    <3>5. CASE p.type # "TXERR"
      <4>1. /\ p.type = PacketAt(m, msgno[m], next[m]).type /\ next'[m] = next[m] + 1
            /\ sendPc'[m] = "sending"
        BY <2>1, <3>5
      <4>2. /\ p.type = "HEADER" => next[m] = 0
            /\ p.type = "DATA" => next[m] > 0 /\ next[m] <= NChunks[m]
            /\ p.type = "EOF" => next[m] = EofPos(m)
        BY <2>1, <3>3, <4>1 DEF PacketAt, EofPos
      <4> QED
        <5>1. ~sawClosed'[p.msg] /\ sendPc'[p.msg] # "err" /\ p.pos < next'[p.msg]
          BY <2>1, <3>1, <3>3, <4>1
        <5>2. p.msgNo < Len(sent'[e]) /\ p.msg = sent'[e][p.msgNo + 1]
          BY <3>1, <3>2
        <5>3. p.msg = m /\ p.pos = next[m]
          BY <2>1
        <5> QED
          BY <3>5, <4>2, <5>1, <5>2, <5>3 DEF PacketInv, EofPos
    <3> QED
      BY <3>4, <3>5
  <2>3. ASSUME NEW i \in 1..Len(wire[e]), Real(wire[e][i]) PROVE Before(wire[e][i], p)
    <3>1. wire[e][i] \in Packet /\ PacketInv(e, wire[e][i])
      BY <1>0, <2>1, <2>3 DEF WireInv
    <3> QED
      BY <2>1, <2>3, <3>1, OldBeforeNext DEF Before
  <2>4. ASSUME NEW d \in Ends, NEW i \in 1..Len(wire'[d])
        PROVE  \/ i \in 1..Len(wire[d]) /\ wire'[d][i] = wire[d][i]
               \/ d = e /\ i = Len(wire[d]) + 1 /\ wire'[d][i] = p
    BY <2>1
  <2>5. ASSUME NEW d \in Ends, NEW i \in 1..Len(wire'[d]), Real(wire'[d][i])
        PROVE  PacketInv(d, wire[d][i])'
    <3>1. PICK r \in Packet : r = wire'[d][i]
      BY <1>0, <2>1, <2>4
    <3>2. PacketInv(d, r)'
      BY <1>0, <1>1, <2>2, <2>4, <2>5, <3>1 DEF WireInv
    <3> QED
      BY <3>1, <3>2
  <2>6. ASSUME NEW d \in Ends, NEW i \in 1..Len(wire'[d]), NEW j \in 1..Len(wire'[d]), i < j,
               Real(wire'[d][i]), Real(wire'[d][j])
        PROVE  Before(wire'[d][i], wire'[d][j])
    <3>0. Len(wire[d]) \in Nat
      BY DEF TypeOK, LinkTypes
    <3>1. i \in 1..Len(wire[d]) /\ wire'[d][i] = wire[d][i]
      BY <2>1, <2>4, <2>6, <3>0
    <3>2. CASE j \in 1..Len(wire[d]) /\ wire'[d][j] = wire[d][j]
      BY <2>6, <3>1, <3>2 DEF WireInv
    <3>3. CASE d = e /\ wire'[d][j] = p
      BY <2>3, <2>6, <3>1, <3>3
    <3> QED
      BY <2>4, <3>2, <3>3
  <2> QED
    BY <2>5, <2>6 DEF WireInv, Real, Before, IsFinal
<1> QED
  BY <1>2, <1>3 DEF SendStep, Send, SendUnnumbered, WriteSkipped, WriteRetry, WriteGiveUp, SendReturn

(* The reader takes packet h off the stream of its peer.                     *)
Taken(q, h) ==
  /\ Peer[q] \in Ends /\ h = wire[Peer[q]][1]
  /\ Len(wire[Peer[q]]) \in Nat \ {0}
  /\ Len(wire'[Peer[q]]) = Len(wire[Peer[q]]) - 1
  /\ \A i \in 1..(Len(wire[Peer[q]]) - 1) : wire'[Peer[q]][i] = wire[Peer[q]][i + 1]
  /\ \A d \in Ends : d # Peer[q] => wire'[d] = wire[d]

LEMMA ConsumeEffect ==
  ASSUME TypeOK, NEW q \in Ends, Incoming(q) # <<>>, Consume(q)
  PROVE  Head(Incoming(q)) \in Packet /\ Taken(q, Head(Incoming(q)))
<1>1. /\ Peer[q] \in Ends /\ wire[Peer[q]] \in Seq(Packet) /\ wire[Peer[q]] # <<>>
      /\ DOMAIN wire = Ends
  BY EndsAssumption DEF TypeOK, LinkTypes, Incoming
<1>2. /\ wire'[Peer[q]] = Tail(wire[Peer[q]])
      /\ \A d \in Ends : d # Peer[q] => wire'[d] = wire[d]
  BY <1>1 DEF Consume
<1>3. /\ Len(wire[Peer[q]]) \in Nat \ {0}
      /\ Len(wire'[Peer[q]]) = Len(wire[Peer[q]]) - 1
      /\ \A i \in 1..(Len(wire[Peer[q]]) - 1) : wire'[Peer[q]][i] = wire[Peer[q]][i + 1]
      /\ Head(wire[Peer[q]]) = wire[Peer[q]][1] /\ Head(wire[Peer[q]]) \in Packet
  BY <1>1, <1>2, TailFacts
<1> QED
  BY <1>1, <1>2, <1>3 DEF Taken, Incoming

(* ackBytes adds at most an ACK; who has nothing to do with the wire adds    *)
(* nothing.                                                                  *)
ExtendedAt(d) ==
  /\ Len(wire[d]) \in Nat /\ Len(wire'[d]) \in Nat /\ Len(wire[d]) <= Len(wire'[d])
  /\ \A i \in 1..Len(wire[d]) : wire'[d][i] = wire[d][i]
  /\ \A i \in 1..Len(wire'[d]) : i > Len(wire[d]) => wire'[d][i].type = "ACK"

Extended == \A d \in Ends : ExtendedAt(d)

LEMMA UnchangedExtends == ASSUME TypeOK, UNCHANGED wire PROVE Extended
<1>1. \A d \in Ends : Len(wire[d]) \in Nat
  BY DEF TypeOK, LinkTypes
<1> QED
  BY <1>1 DEF Extended, ExtendedAt

LEMMA AckExtends ==
  ASSUME TypeOK, NEW q \in Ends, AckBytes(q)
  PROVE  Extended
<1>0. wire \in [Ends -> Seq(Packet)] /\ \A d \in Ends : Len(wire[d]) \in Nat
  BY DEF TypeOK, LinkTypes
<1>1. CASE UNCHANGED wire
  BY <1>1, UnchangedExtends
<1>2. CASE ~UNCHANGED wire
  <2> DEFINE new == AckPacket(current[q], pktToMsg[q][current[q]])
  <2>1. wire' = [wire EXCEPT ![q] = Append(@, new)]
    BY <1>2 DEF AckBytes
  <2>2. new \in Packet /\ new.type = "ACK"
    <3>1. current[q] \in DOMAIN pktToMsg[q] /\ current[q] \in Nat
          /\ pktToMsg[q][current[q]] \in Message
      BY DEF AckBytes, TypeOK, ReadTypes, MapTypes
    <3> QED
      BY <3>1 DEF AckPacket, Packet, PacketTypes, Message
  <2> HIDE DEF new
  <2>3. /\ wire[q] \in Seq(Packet) /\ wire'[q] = Append(wire[q], new)
        /\ \A d \in Ends : d # q => wire'[d] = wire[d]
    BY <1>0, <2>1
  <2>4. /\ Len(wire'[q]) = Len(wire[q]) + 1
        /\ \A i \in 1..Len(wire[q]) : wire'[q][i] = wire[q][i]
        /\ wire'[q][Len(wire[q]) + 1] = new
    BY <2>2, <2>3, AppendFacts
  <2>5. ASSUME NEW d \in Ends
        PROVE  /\ Len(wire'[d]) \in Nat /\ Len(wire[d]) <= Len(wire'[d])
               /\ \A i \in 1..Len(wire[d]) : wire'[d][i] = wire[d][i]
               /\ \A i \in 1..Len(wire'[d]) : i > Len(wire[d]) => wire'[d][i].type = "ACK"
    <3>1. CASE d = q
      BY <1>0, <2>2, <2>4, <3>1
    <3>2. CASE d # q
      BY <1>0, <2>3, <3>2
    <3> QED
      BY <3>1, <3>2
  <2> QED
    BY <1>0, <2>5 DEF Extended, ExtendedAt
<1> QED
  BY <1>1, <1>2

(* Dropping a packet from the front and adding ACKs at the end both keep the *)
(* order.                                                                    *)
LEMMA WireInvShift ==
  ASSUME WireInv, UNCHANGED sendVars,
         \A d \in Ends : \E s \in {0, 1} : \A i \in 1..Len(wire'[d]) :
           Real(wire'[d][i]) => i + s \in 1..Len(wire[d]) /\ wire'[d][i] = wire[d][i + s]
  PROVE  WireInv'
<1>1. ASSUME NEW d \in Ends, NEW i \in 1..Len(wire'[d]), Real(wire'[d][i])
      PROVE  PacketInv(d, wire[d][i])'
  <2>1. PICK s \in {0, 1} : i + s \in 1..Len(wire[d]) /\ wire'[d][i] = wire[d][i + s]
    BY <1>1
  <2>2. PacketInv(d, wire[d][i + s])
    BY <1>1, <2>1 DEF WireInv
  <2>3. PICK r : r = wire'[d][i]
    OBVIOUS
  <2>4. PacketInv(d, r)
    BY <2>1, <2>2, <2>3
  <2>5. PacketInv(d, r)'
    BY <2>4 DEF PacketInv, sendVars, EofPos
  <2> QED
    BY <2>3, <2>5
<1>2. ASSUME NEW d \in Ends, NEW i \in 1..Len(wire'[d]), NEW j \in 1..Len(wire'[d]), i < j,
             Real(wire'[d][i]), Real(wire'[d][j])
      PROVE  Before(wire'[d][i], wire'[d][j])
  <2>1. PICK s \in {0, 1} : \A k \in 1..Len(wire'[d]) :
          Real(wire'[d][k]) => k + s \in 1..Len(wire[d]) /\ wire'[d][k] = wire[d][k + s]
    OBVIOUS
  <2>2. /\ i + s \in 1..Len(wire[d]) /\ wire'[d][i] = wire[d][i + s]
        /\ j + s \in 1..Len(wire[d]) /\ wire'[d][j] = wire[d][j + s]
        /\ i + s < j + s
    BY <1>2, <2>1
  <2> QED
    BY <1>2, <2>2 DEF WireInv
<1> QED
  BY <1>1, <1>2 DEF WireInv, Real, Before, IsFinal

LEMMA WireInvTaken ==
  ASSUME TypeOK, WireInv, UNCHANGED sendVars, NEW q \in Ends, NEW h, Taken(q, h)
  PROVE  WireInv'
<1>1. \A d \in Ends : Len(wire[d]) \in Nat
  BY DEF TypeOK, LinkTypes
<1>2. ASSUME NEW d \in Ends
      PROVE  \E s \in {0, 1} : \A i \in 1..Len(wire'[d]) :
               Real(wire'[d][i]) => i + s \in 1..Len(wire[d]) /\ wire'[d][i] = wire[d][i + s]
  <2>1. CASE d = Peer[q]
    <3>1. \A i \in 1..Len(wire'[d]) : i + 1 \in 1..Len(wire[d]) /\ wire'[d][i] = wire[d][i + 1]
      BY <1>1, <2>1 DEF Taken
    <3> QED
      BY <3>1
  <2>2. CASE d # Peer[q]
    <3>1. \A i \in 1..Len(wire'[d]) : i + 0 \in 1..Len(wire[d]) /\ wire'[d][i] = wire[d][i + 0]
      BY <1>1, <2>2 DEF Taken
    <3> QED
      BY <3>1
  <2> QED
    BY <2>1, <2>2
<1> QED
  BY <1>2, WireInvShift

LEMMA WireInvExtended ==
  ASSUME TypeOK, WireInv, UNCHANGED sendVars, Extended
  PROVE  WireInv'
<1>1. ASSUME NEW d \in Ends, NEW i \in 1..Len(wire'[d]), Real(wire'[d][i])
      PROVE  i + 0 \in 1..Len(wire[d]) /\ wire'[d][i] = wire[d][i + 0]
  BY <1>1 DEF Extended, ExtendedAt, Real
<1> QED
  BY <1>1, WireInvShift

-----------------------------------------------------------------------------
(* The nursery *)

(* What routePacket does with packet h to the nursery of q and what it       *)
(* leaves alone.                                                             *)
Routed(q, h) ==
  /\ reader[q] = "read" /\ reader'[q] # "stopped"
  /\ UNCHANGED <<sendVars, linkVars, readWriterLock>>
  /\ \A d \in Ends : d # q => /\ pktToMsg'[d] = pktToMsg[d] /\ reader'[d] = reader[d]
                              /\ current'[d] = current[d] /\ incomingmsgno'[d] = incomingmsgno[d]
  /\ \A k : k # h.msgNo => (k \in DOMAIN pktToMsg'[q] <=> k \in DOMAIN pktToMsg[q])
  /\ \A k \in DOMAIN pktToMsg'[q] : k # h.msgNo => pktToMsg'[q][k] = pktToMsg[q][k]
  /\ h.type = "HEADER" => /\ h.msgNo \notin DOMAIN pktToMsg[q]
                          /\ h.msgNo = incomingmsgno[q]
                          /\ incomingmsgno'[q] = h.msgNo + 1
                          /\ h.msgNo \in DOMAIN pktToMsg'[q]
                          /\ pktToMsg'[q][h.msgNo] = NewMessage(h.msg)
  /\ h.type # "HEADER" => incomingmsgno'[q] = incomingmsgno[q]
  /\ h.type = "DATA" => /\ h.msgNo \in DOMAIN pktToMsg[q] /\ h.msgNo \in DOMAIN pktToMsg'[q]
                        /\ pktToMsg'[q][h.msgNo] = Write(pktToMsg[q][h.msgNo], <<h.msg, h.pos>>, h.bytes)
  /\ h.type = "EOF" => /\ h.msgNo \in DOMAIN pktToMsg[q] /\ h.msgNo \notin DOMAIN pktToMsg'[q]
  /\ h.type = "TXERR" => /\ h.msgNo \in DOMAIN pktToMsg[q] /\ h.msgNo \in DOMAIN pktToMsg'[q]
                         /\ pktToMsg'[q][h.msgNo].err
                         /\ pktToMsg'[q][h.msgNo].hdr = pktToMsg[q][h.msgNo].hdr
                         /\ pktToMsg'[q][h.msgNo].bytesWritten =
                              pktToMsg[q][h.msgNo].bytesWritten + h.bytes
                         /\ reader'[q] = "ack" /\ current'[q] = h.msgNo
  /\ h.type = "ACK" => pktToMsg'[q] = pktToMsg[q]

RouteSteps(q) ==
  RouteHeader(q) \/ RouteData(q) \/ RouteEOF(q) \/ RouteTXERR(q) \/ RouteACK(q)

LEMMA RouteEffect ==
  ASSUME TypeOK, NEW q \in Ends, RouteSteps(q)
  PROVE  \E h \in Packet : Taken(q, h) /\ Routed(q, h)
<1> DEFINE pkt == Head(Incoming(q))
<1>0. ReadTypes /\ MapTypes /\ incomingmsgno \in [Ends -> Nat]
      /\ reader \in [Ends -> ReaderPcs] /\ current \in [Ends -> Nat]
  BY DEF TypeOK, ReadTypes
<1>1. Incoming(q) # <<>> /\ Consume(q) /\ reader[q] = "read"
      /\ UNCHANGED <<sendVars, linkVars, readWriterLock>>
  BY DEF RouteSteps, RouteHeader, RouteData, RouteEOF, RouteTXERR, RouteACK, Arrives
<1>2. pkt \in Packet /\ Taken(q, pkt)
  BY <1>1, ConsumeEffect
<1>3. pkt.msgNo \in Nat /\ pkt.msg \in Sends /\ pkt.pos \in Nat /\ pkt.bytes \in Nat
  BY <1>2 DEF Packet
<1>4. CASE RouteHeader(q)
  <2>1. /\ pkt.type = "HEADER" /\ pkt.msgNo = incomingmsgno[q]
        /\ pkt.msgNo \notin DOMAIN pktToMsg[q]
        /\ Track(q, pkt.msgNo, NewMessage(pkt.msg))
        /\ incomingmsgno' = [incomingmsgno EXCEPT ![q] = @ + 1]
        /\ UNCHANGED <<reader, current>>
    BY <1>4 DEF RouteHeader, Arrives, Tracking, InSequence
  <2>2. NewMessage(pkt.msg) \in Message
    BY <1>3 DEF NewMessage, Message
  <2> HIDE DEF pkt
  <2>3. /\ DOMAIN pktToMsg'[q] = DOMAIN pktToMsg[q] \cup {pkt.msgNo}
        /\ pktToMsg'[q][pkt.msgNo] = NewMessage(pkt.msg)
        /\ \A k \in DOMAIN pktToMsg[q] : k # pkt.msgNo => pktToMsg'[q][k] = pktToMsg[q][k]
        /\ \A d \in Ends : d # q => pktToMsg'[d] = pktToMsg[d]
    BY <1>0, <1>3, <2>1, <2>2, TrackFacts
  <2>4. incomingmsgno'[q] = pkt.msgNo + 1
        /\ \A d \in Ends : d # q => incomingmsgno'[d] = incomingmsgno[d]
    BY <1>0, <2>1
  <2>5. Routed(q, pkt)
    BY <1>1, <2>1, <2>3, <2>4 DEF Routed
  <2> QED
    BY <1>2, <2>5
<1>5. CASE RouteData(q)
  <2> DEFINE msg == Write(pktToMsg[q][pkt.msgNo], <<pkt.msg, pkt.pos>>, pkt.bytes)
  <2>1. /\ pkt.type = "DATA" /\ pkt.msgNo \in DOMAIN pktToMsg[q]
        /\ Track(q, pkt.msgNo, msg)
        /\ reader' = [reader EXCEPT ![q] = "ack"]
        /\ current' = [current EXCEPT ![q] = pkt.msgNo]
        /\ UNCHANGED incomingmsgno
    BY <1>5 DEF RouteData, Arrives, Tracking
  <2>2. msg \in Message
    BY <1>0, <1>3, <2>1, WriteTypes DEF MapTypes, Chunk
  <2> HIDE DEF pkt, msg
  <2>3. /\ DOMAIN pktToMsg'[q] = DOMAIN pktToMsg[q] \cup {pkt.msgNo}
        /\ pktToMsg'[q][pkt.msgNo] = msg
        /\ \A k \in DOMAIN pktToMsg[q] : k # pkt.msgNo => pktToMsg'[q][k] = pktToMsg[q][k]
        /\ \A d \in Ends : d # q => pktToMsg'[d] = pktToMsg[d]
    BY <1>0, <1>3, <2>1, <2>2, TrackFacts
  <2>4. /\ reader'[q] = "ack" /\ \A d \in Ends : d # q => reader'[d] = reader[d]
        /\ \A d \in Ends : d # q => current'[d] = current[d]
    BY <1>0, <2>1
  <2>5. Routed(q, pkt)
    BY <1>1, <2>1, <2>3, <2>4 DEF Routed, msg
  <2> QED
    BY <1>2, <2>5
<1>6. CASE RouteEOF(q)
  <2>1. /\ pkt.type = "EOF" /\ pkt.msgNo \in DOMAIN pktToMsg[q]
        /\ Untrack(q, pkt.msgNo)
        /\ reader' = [reader EXCEPT ![q] = "deliver"]
        /\ UNCHANGED <<incomingmsgno, current>>
    BY <1>6 DEF RouteEOF, Arrives, Tracking, HandOver
  <2> HIDE DEF pkt
  <2>3. /\ DOMAIN pktToMsg'[q] = DOMAIN pktToMsg[q] \ {pkt.msgNo}
        /\ \A k \in DOMAIN pktToMsg'[q] : pktToMsg'[q][k] = pktToMsg[q][k]
        /\ \A d \in Ends : d # q => pktToMsg'[d] = pktToMsg[d]
    BY <1>0, <1>3, <2>1, UntrackFacts
  <2>4. reader'[q] = "deliver" /\ \A d \in Ends : d # q => reader'[d] = reader[d]
    BY <1>0, <2>1
  <2>5. Routed(q, pkt)
    BY <1>1, <2>1, <2>3, <2>4 DEF Routed
  <2> QED
    BY <1>2, <2>5
<1>7. CASE RouteTXERR(q)
  <2> DEFINE msg == [Write(pktToMsg[q][pkt.msgNo], <<pkt.msg, 0>>, pkt.bytes) EXCEPT !.err = TRUE]
  <2>1. /\ pkt.type = "TXERR" /\ pkt.msgNo \in DOMAIN pktToMsg[q]
        /\ Track(q, pkt.msgNo, msg)
        /\ reader' = [reader EXCEPT ![q] = "ack"]
        /\ current' = [current EXCEPT ![q] = pkt.msgNo]
        /\ UNCHANGED incomingmsgno
    BY <1>7 DEF RouteTXERR, Arrives, Tracking
  <2>2. pktToMsg[q][pkt.msgNo] \in Message
    BY <1>0, <2>1 DEF MapTypes
  <2>3. msg \in Message
    BY <1>3, <2>2, WriteTypes DEF Chunk
  <2>4. /\ msg.err /\ msg.hdr = pktToMsg[q][pkt.msgNo].hdr
        /\ msg.bytesWritten = pktToMsg[q][pkt.msgNo].bytesWritten + pkt.bytes
    BY <2>2 DEF Write, Message
  <2> HIDE DEF pkt, msg
  <2>5. /\ DOMAIN pktToMsg'[q] = DOMAIN pktToMsg[q] \cup {pkt.msgNo}
        /\ pktToMsg'[q][pkt.msgNo] = msg
        /\ \A k \in DOMAIN pktToMsg[q] : k # pkt.msgNo => pktToMsg'[q][k] = pktToMsg[q][k]
        /\ \A d \in Ends : d # q => pktToMsg'[d] = pktToMsg[d]
    BY <1>0, <1>3, <2>1, <2>3, TrackFacts
  <2>6. /\ reader'[q] = "ack" /\ \A d \in Ends : d # q => reader'[d] = reader[d]
        /\ current'[q] = pkt.msgNo /\ \A d \in Ends : d # q => current'[d] = current[d]
    BY <1>0, <2>1
  <2>7. Routed(q, pkt)
    BY <1>1, <2>1, <2>4, <2>5, <2>6 DEF Routed
  <2> QED
    BY <1>2, <2>7
<1>8. CASE RouteACK(q)
  <2>1. pkt.type = "ACK" /\ UNCHANGED readVars
    BY <1>8 DEF RouteACK, Arrives
  <2>2. Routed(q, pkt)
    BY <1>1, <2>1 DEF Routed, readVars
  <2> QED
    BY <1>2, <2>2
<1> QED
  BY <1>4, <1>5, <1>6, <1>7, <1>8 DEF RouteSteps

(* ackBytes, and the hand-over of a message that TXERR ended: no message     *)
(* without an error leaves the nursery.                                      *)
LEMMA AckEffect ==
  ASSUME TypeOK, NEW q \in Ends, AckBytes(q)
  PROVE  /\ reader[q] = "ack" /\ reader'[q] \in {"read", "deliver"}
         /\ UNCHANGED <<sendVars, linkVars, readWriterLock, incomingmsgno>>
         /\ \A d \in Ends : d # q => /\ pktToMsg'[d] = pktToMsg[d] /\ reader'[d] = reader[d]
                                     /\ current'[d] = current[d]
         /\ \A k \in DOMAIN pktToMsg'[q] : /\ k \in DOMAIN pktToMsg[q]
                                           /\ pktToMsg'[q][k] = pktToMsg[q][k]
                                           /\ pktToMsg[q][k].err => k # current[q]
         /\ \A k \in DOMAIN pktToMsg[q] : ~pktToMsg[q][k].err => k \in DOMAIN pktToMsg'[q]
<1> DEFINE n == current[q]
           msg == pktToMsg[q][n]
<1>0. /\ MapTypes /\ reader \in [Ends -> ReaderPcs] /\ current \in [Ends -> Nat]
      /\ n \in DOMAIN pktToMsg[q] /\ n \in Nat
  BY DEF TypeOK, ReadTypes, AckBytes
<1>1. /\ reader[q] = "ack" /\ UNCHANGED <<sendVars, linkVars, readWriterLock, incomingmsgno>>
      /\ current' = [current EXCEPT ![q] = 0]
  BY DEF AckBytes
<1>2. \A d \in Ends : d # q => current'[d] = current[d]
  BY <1>0, <1>1
<1>3. CASE msg.err
  <2>1. Untrack(q, n) /\ reader' = [reader EXCEPT ![q] = "deliver"]
    BY <1>3 DEF AckBytes, HandOver
  <2>2. reader'[q] = "deliver" /\ \A d \in Ends : d # q => reader'[d] = reader[d]
    BY <1>0, <2>1
  <2>3. /\ DOMAIN pktToMsg'[q] = DOMAIN pktToMsg[q] \ {n}
        /\ \A k \in DOMAIN pktToMsg'[q] : pktToMsg'[q][k] = pktToMsg[q][k]
        /\ \A d \in Ends : d # q => pktToMsg'[d] = pktToMsg[d]
    BY <1>0, <2>1, UntrackFacts
  <2> QED
    BY <1>1, <1>2, <1>3, <2>2, <2>3
<1>4. CASE ~msg.err
  <2>1. reader' = [reader EXCEPT ![q] = "read"] /\ UNCHANGED pktToMsg
    BY <1>4 DEF AckBytes
  <2>2. reader'[q] = "read" /\ \A d \in Ends : d # q => reader'[d] = reader[d]
    BY <1>0, <2>1
  <2> QED
    BY <1>1, <1>2, <1>4, <2>1, <2>2
<1> QED
  BY <1>3, <1>4

LEMMA ReadInvSend ==
  ASSUME TypeOK, SendInv, ReadInv, NEW m \in Sends, SendStep(m) \/ AbortSend(m)
  PROVE  ReadInv'
<1>1. UNCHANGED readVars
  BY SendFrame
<1>2. ASSUME NEW q \in Ends, NEW n \in DOMAIN pktToMsg[q], NEW msg, msg = pktToMsg[q][n]
      PROVE  Partial(q, n, msg)'
  <2>0. TypeOK' /\ Peer[q] \in Ends
    BY TypeSend, EndsAssumption
  <2>1. Partial(q, n, msg)
    BY <1>2 DEF ReadInv
  <2>2. /\ n \in Nat /\ msg.hdr \in Sends /\ Len(msg.body) \in Nat
    <3>1. n \in Nat /\ msg \in Message
      BY <1>2 DEF TypeOK, ReadTypes, MapTypes
    <3> QED
      BY <3>1 DEF Message
  <2>3. next \in [Sends -> Nat] /\ next' \in [Sends -> Nat]
        /\ sent \in [Ends -> Seq(Sends)] /\ sent' \in [Ends -> Seq(Sends)]
    BY <2>0 DEF TypeOK, SendTypes
  <2>4. Len(sent[Peer[q]]) \in Nat /\ Len(sent'[Peer[q]]) \in Nat
    BY <2>0, <2>3
  <2>5. /\ Len(sent[Peer[q]]) <= Len(sent'[Peer[q]])
        /\ \A k \in 1..Len(sent[Peer[q]]) : sent'[Peer[q]][k] = sent[Peer[q]][k]
        /\ next[msg.hdr] <= next'[msg.hdr]
    BY <2>0, <2>2, SendFrame
  <2>6. /\ n < Len(sent[Peer[q]]) /\ msg.hdr = sent[Peer[q]][n + 1]
    BY <2>1 DEF Partial
  <2>7. /\ n < Len(sent'[Peer[q]]) /\ msg.hdr = sent'[Peer[q]][n + 1]
    BY <2>2, <2>4, <2>5, <2>6
  <2>8. ~msg.err => Len(msg.body) < next'[msg.hdr]
    <3>1. next[msg.hdr] \in Nat /\ next'[msg.hdr] \in Nat
      BY <2>2, <2>3
    <3>2. ~msg.err => Len(msg.body) < next[msg.hdr]
      BY <2>1 DEF Partial
    <3> QED
      BY <2>2, <2>5, <3>1, <3>2
  <2> QED
    BY <1>1, <2>1, <2>7, <2>8 DEF Partial, readVars
<1> QED
  <2>1. ASSUME NEW q \in Ends, NEW n \in DOMAIN pktToMsg'[q]
        PROVE  Partial(q, n, pktToMsg[q][n])'
    <3>1. PICK msg : msg = pktToMsg[q][n]
      OBVIOUS
    <3>2. n \in DOMAIN pktToMsg[q] /\ pktToMsg'[q][n] = msg
      BY <1>1, <3>1 DEF readVars
    <3>3. Partial(q, n, msg)'
      BY <1>2, <3>1, <3>2
    <3> QED
      BY <3>2, <3>3
  <2> QED
    BY <2>1 DEF ReadInv

(* A step that leaves Send alone keeps what is known of a message without    *)
(* error that it leaves in the nursery.                                      *)
LEMMA PartialKept ==
  ASSUME UNCHANGED sendVars, NEW q \in Ends, NEW n, NEW msg, Partial(q, n, msg),
         incomingmsgno'[q] = incomingmsgno[q],
         msg.err => reader'[q] = "ack" /\ current'[q] = n
  PROVE  Partial(q, n, msg)'
  BY DEF Partial, sendVars

LEMMA ReadInvStep ==
  ASSUME UNCHANGED sendVars, ReadInv,
         \A q \in Ends : incomingmsgno'[q] = incomingmsgno[q],
         \A q \in Ends : \A n \in DOMAIN pktToMsg'[q] :
           /\ n \in DOMAIN pktToMsg[q] /\ pktToMsg'[q][n] = pktToMsg[q][n]
           /\ pktToMsg[q][n].err => reader'[q] = "ack" /\ current'[q] = n
  PROVE  ReadInv'
<1>1. ASSUME NEW q \in Ends, NEW n \in DOMAIN pktToMsg'[q]
      PROVE  Partial(q, n, pktToMsg[q][n])'
  <2>1. PICK msg : msg = pktToMsg[q][n]
    OBVIOUS
  <2>2. n \in DOMAIN pktToMsg[q] /\ pktToMsg'[q][n] = msg /\ Partial(q, n, msg)
        /\ (msg.err => reader'[q] = "ack" /\ current'[q] = n)
    BY <2>1 DEF ReadInv
  <2>3. Partial(q, n, msg)'
    BY <2>2, PartialKept
  <2> QED
    BY <2>2, <2>3
<1> QED
  BY <1>1 DEF ReadInv

LEMMA ReadInvAck ==
  ASSUME TypeOK, ReadInv, NEW q \in Ends, AckBytes(q)
  PROVE  ReadInv'
<1>1. ASSUME NEW d \in Ends, NEW n \in DOMAIN pktToMsg'[d]
      PROVE  /\ n \in DOMAIN pktToMsg[d] /\ pktToMsg'[d][n] = pktToMsg[d][n]
             /\ pktToMsg[d][n].err => reader'[d] = "ack" /\ current'[d] = n
  <2>1. CASE d = q
    <3>1. n \in DOMAIN pktToMsg[d] /\ pktToMsg'[d][n] = pktToMsg[d][n]
          /\ (pktToMsg[d][n].err => n # current[q])
      BY <2>1, AckEffect
    <3>2. pktToMsg[d][n].err => current[q] = n
      BY <2>1, <3>1 DEF ReadInv, Partial
    <3> QED
      BY <3>1, <3>2
  <2>2. CASE d # q
    <3>1. pktToMsg'[d] = pktToMsg[d] /\ reader'[d] = reader[d] /\ current'[d] = current[d]
      BY <2>2, AckEffect
    <3> QED
      BY <3>1 DEF ReadInv, Partial
  <2> QED
    BY <2>1, <2>2
<1>2. UNCHANGED <<sendVars, incomingmsgno>>
  BY AckEffect
<1> QED
  BY <1>1, <1>2, ReadInvStep

(* While the reader reads, no message in its nursery has an error.           *)
LEMMA NoErrWhileReading ==
  ASSUME ReadInv, NEW q \in Ends, reader[q] # "ack", NEW n \in DOMAIN pktToMsg[q]
  PROVE  ~pktToMsg[q][n].err
  BY DEF ReadInv, Partial

LEMMA ReadInvIdle ==
  ASSUME ReadInv, NEW q \in Ends, UNCHANGED <<sendVars, incomingmsgno, pktToMsg, current>>,
         reader[q] # "ack", \A d \in Ends : d # q => reader'[d] = reader[d]
  PROVE  ReadInv'
<1>1. ASSUME NEW d \in Ends, NEW n \in DOMAIN pktToMsg'[d]
      PROVE  /\ n \in DOMAIN pktToMsg[d] /\ pktToMsg'[d][n] = pktToMsg[d][n]
             /\ pktToMsg[d][n].err => reader'[d] = "ack" /\ current'[d] = n
  <2>1. CASE d = q
    BY <2>1, NoErrWhileReading
  <2>2. CASE d # q
    BY <2>2 DEF ReadInv, Partial
  <2> QED
    BY <2>1, <2>2
<1> QED
  BY <1>1, ReadInvStep

(* What GapInv says of the first packet on the wire.                         *)
LEMMA HeadFits ==
  ASSUME TypeOK, WireInv, GapInv, ReadInv, NEW q \in Ends, reader[q] = "read",
         NEW h \in Packet, Taken(q, h), Real(h)
  PROVE  /\ PacketInv(Peer[q], h)
         /\ h.pos > 0 => /\ h.msgNo \in DOMAIN pktToMsg[q]
                         /\ Len(pktToMsg[q][h.msgNo].body) + 1 = h.pos
         /\ h.pos = 0 => h.msgNo - 1 \notin DOMAIN pktToMsg[q]
<1> DEFINE e == Peer[q]
<1>1. e \in Ends /\ Peer[e] = q /\ 1 \in 1..Len(wire[e]) /\ wire[e][1] = h
  BY EndsAssumption DEF Taken
<1>2. PacketInv(e, h)
  BY <1>1 DEF WireInv
<1>3. NoGapOnWire(e)
  BY <1>1 DEF GapInv
<1>4. /\ h.pos > 0 => Preceded(e, 0, h.msgNo, h.pos)
      /\ h.pos = 0 /\ h.msgNo > 0 => Settled(e, 0, h.msgNo - 1)
  BY <1>1, <1>3 DEF NoGapOnWire
<1>5. h.pos > 0 => /\ h.msgNo \in DOMAIN pktToMsg[q]
                   /\ Len(pktToMsg[q][h.msgNo].body) + 1 = h.pos
  BY <1>1, <1>4 DEF Preceded, Holds
<1>6. h.pos = 0 /\ h.msgNo > 0 => h.msgNo - 1 \notin DOMAIN pktToMsg[q]
  BY <1>1, <1>4, NoErrWhileReading DEF Settled, Holds
<1>7. h.msgNo = 0 => h.msgNo - 1 \notin DOMAIN pktToMsg[q]
  BY DEF TypeOK, ReadTypes, MapTypes
<1>8. h.msgNo \in Nat
  BY DEF Packet
<1> QED
  BY <1>2, <1>5, <1>6, <1>7, <1>8

LEMMA ReadInvRoute ==
  ASSUME TypeOK, SendInv, WireInv, GapInv, ReadInv, NEW q \in Ends,
         NEW h \in Packet, Taken(q, h), Routed(q, h)
  PROVE  ReadInv'
<1>0. /\ h.type \in PacketTypes /\ h.msgNo \in Nat /\ h.msg \in Sends /\ h.pos \in Nat
      /\ incomingmsgno[q] \in Nat /\ MapTypes
      /\ reader[q] = "read" /\ UNCHANGED sendVars
  BY DEF Packet, TypeOK, ReadTypes, Routed
<1>1. ASSUME Real(h)
      PROVE  /\ PacketInv(Peer[q], h)
             /\ h.pos > 0 => /\ h.msgNo \in DOMAIN pktToMsg[q]
                             /\ Len(pktToMsg[q][h.msgNo].body) + 1 = h.pos
             /\ h.pos = 0 => h.msgNo - 1 \notin DOMAIN pktToMsg[q]
  BY <1>0, <1>1, HeadFits
<1>2. ASSUME NEW n \in DOMAIN pktToMsg'[q], n # h.msgNo, NEW msg, msg = pktToMsg'[q][n]
      PROVE  Partial(q, n, msg)'
  <2>1. n \in DOMAIN pktToMsg[q] /\ msg = pktToMsg[q][n] /\ n \in Nat
    BY <1>0, <1>2 DEF Routed, MapTypes
  <2>2. Partial(q, n, msg) /\ ~msg.err
    BY <1>0, <2>1, NoErrWhileReading DEF ReadInv
  <2>3. n + 1 = incomingmsgno[q]
    BY <2>2 DEF Partial
  <2>4. h.type # "HEADER"
    <3>1. SUFFICES ASSUME h.type = "HEADER" PROVE FALSE
      OBVIOUS
    <3>2. h.msgNo = incomingmsgno[q] /\ Real(h)
      BY <3>1 DEF Routed, Real
    <3>3. h.pos = 0
      BY <1>1, <3>1, <3>2 DEF PacketInv
    <3> QED
      BY <1>0, <1>1, <2>1, <2>3, <3>2, <3>3
  <2> QED
    BY <1>0, <2>2, <2>4, PartialKept DEF Routed
<1>3. ASSUME h.msgNo \in DOMAIN pktToMsg'[q], NEW msg, msg = pktToMsg'[q][h.msgNo]
      PROVE  Partial(q, h.msgNo, msg)'
  <2>1. CASE h.type = "HEADER"
    <3>1. msg = NewMessage(h.msg) /\ incomingmsgno'[q] = h.msgNo + 1
      BY <1>3, <2>1 DEF Routed
    <3>2. PacketInv(Peer[q], h)
      BY <1>1, <2>1 DEF Real
    <3>3. /\ h.msgNo < Len(sent[Peer[q]]) /\ h.msg = sent[Peer[q]][h.msgNo + 1]
          /\ 0 < next[h.msg]
      BY <2>1, <3>2 DEF PacketInv
    <3>4. msg.hdr = h.msg /\ ~msg.err /\ msg.body = <<>> /\ NChunks[h.msg] \in Nat
      BY <1>0, <3>1, SendsAssumption DEF NewMessage
    <3>5. Len(msg.body) = 0 /\ \A i \in 1..Len(msg.body) : FALSE
      BY <3>4
    <3> QED
      BY SMTT(30), <1>0, <3>1, <3>3, <3>4, <3>5 DEF Partial, sendVars
  <2>2. CASE h.type = "DATA"
    <3> DEFINE old == pktToMsg[q][h.msgNo]
    <3>1. h.msgNo \in DOMAIN pktToMsg[q] /\ msg = Write(old, <<h.msg, h.pos>>, h.bytes)
          /\ incomingmsgno'[q] = incomingmsgno[q]
      BY <1>3, <2>2 DEF Routed
    <3>2. PacketInv(Peer[q], h) /\ h.pos > 0 /\ h.pos <= NChunks[h.msg] /\ h.pos < next[h.msg]
          /\ h.msg = sent[Peer[q]][h.msgNo + 1]
      BY <1>1, <2>2 DEF Real, PacketInv
    <3>3. Len(old.body) + 1 = h.pos
      BY <1>1, <2>2, <3>2 DEF Real
    <3>4. Partial(q, h.msgNo, old) /\ ~old.err /\ old \in Message
      BY <1>0, <3>1, NoErrWhileReading DEF ReadInv, MapTypes
    <3>5. old.body \in Seq(Chunk) /\ <<h.msg, h.pos>> \in Chunk
      BY <1>0, <3>4 DEF Message, Chunk
    <3>6. msg.hdr = old.hdr /\ msg.err = old.err /\ msg.body = Append(old.body, <<h.msg, h.pos>>)
      BY <3>1, <3>4 DEF Write, Message
    <3>7. old.hdr = h.msg /\ h.msgNo + 1 = incomingmsgno[q] /\ h.msgNo < Len(sent[Peer[q]])
          /\ \A i \in 1..Len(old.body) : old.body[i] = <<h.msg, i>>
      BY <3>2, <3>4 DEF Partial
    <3> HIDE DEF old
    <3>8. /\ Len(msg.body) = Len(old.body) + 1 /\ Len(old.body) \in Nat
          /\ \A i \in 1..Len(old.body) : msg.body[i] = old.body[i]
          /\ msg.body[Len(old.body) + 1] = <<h.msg, h.pos>>
      <4>1. PICK s \in Seq(Chunk), c \in Chunk : s = old.body /\ c = <<h.msg, h.pos>>
        BY <3>5
      <4>2. /\ Len(Append(s, c)) = Len(s) + 1 /\ Len(s) \in Nat
            /\ \A i \in 1..Len(s) : Append(s, c)[i] = s[i]
            /\ Append(s, c)[Len(s) + 1] = c
        BY AppendFacts
      <4>3. msg.body = Append(s, c)
        BY <3>6, <4>1
      <4> QED
        BY <4>1, <4>2, <4>3
    <3>9. ASSUME NEW i \in 1..Len(msg.body) PROVE msg.body[i] = <<h.msg, i>>
      <4>1. CASE i \in 1..Len(old.body)
        <5>1. old.body[i] = <<h.msg, i>>
          BY <3>7, <4>1
        <5>2. msg.body[i] = old.body[i]
          BY <3>8, <4>1
        <5> QED
          BY <5>1, <5>2
      <4>2. CASE i = h.pos
        BY <3>3, <3>8, <4>2
      <4>3. i \in 1..Len(old.body) \/ i = h.pos
        BY <3>3, <3>8
      <4> QED
        BY <4>1, <4>2, <4>3
    <3>10. ~msg.err /\ msg.hdr = h.msg /\ Len(msg.body) = h.pos
      BY <3>3, <3>4, <3>6, <3>7, <3>8
    <3> QED
      BY <1>0, <3>1, <3>2, <3>7, <3>9, <3>10 DEF Partial, sendVars
  <2>3. CASE h.type = "TXERR"
    <3> DEFINE old == pktToMsg[q][h.msgNo]
    <3>1. /\ h.msgNo \in DOMAIN pktToMsg[q] /\ msg.err /\ msg.hdr = old.hdr
          /\ reader'[q] = "ack" /\ current'[q] = h.msgNo
          /\ incomingmsgno'[q] = incomingmsgno[q]
      BY <1>3, <2>3 DEF Routed
    <3>2. Partial(q, h.msgNo, old)
      BY <3>1 DEF ReadInv
    <3> QED
      BY <1>0, <3>1, <3>2 DEF Partial, sendVars
  <2>4. CASE h.type = "ACK"
    <3>1. h.msgNo \in DOMAIN pktToMsg[q] /\ msg = pktToMsg[q][h.msgNo]
          /\ incomingmsgno'[q] = incomingmsgno[q]
      BY <1>3, <2>4 DEF Routed
    <3>2. Partial(q, h.msgNo, msg) /\ ~msg.err
      BY <1>0, <3>1, NoErrWhileReading DEF ReadInv
    <3> QED
      BY <1>0, <3>1, <3>2, PartialKept
  <2>5. h.type # "EOF"
    BY <1>3 DEF Routed
  <2> QED
    BY <1>0, <2>1, <2>2, <2>3, <2>4, <2>5 DEF PacketTypes
<1>4. ASSUME NEW d \in Ends, NEW n \in DOMAIN pktToMsg'[d]
      PROVE  Partial(d, n, pktToMsg[d][n])'
  <2>1. PICK msg : msg = pktToMsg'[d][n]
    OBVIOUS
  <2>2. Partial(d, n, msg)'
    <3>1. CASE d = q
      BY <1>2, <1>3, <2>1, <3>1
    <3>2. CASE d # q
      <4>1. /\ pktToMsg'[d] = pktToMsg[d] /\ reader'[d] = reader[d]
            /\ current'[d] = current[d] /\ incomingmsgno'[d] = incomingmsgno[d]
        BY <3>2 DEF Routed
      <4>2. Partial(d, n, msg)
        BY <2>1, <4>1 DEF ReadInv
      <4>3. msg.err => reader[d] = "ack" /\ current[d] = n
        BY <4>2 DEF Partial
      <4> QED
        BY <1>0, <4>1, <4>2, <4>3, PartialKept
    <3> QED
      BY <3>1, <3>2
  <2> QED
    BY <2>1, <2>2
<1> QED
  BY <1>4 DEF ReadInv

-----------------------------------------------------------------------------
(* No gaps *)

(* What the reader holds of the messages of d stays the same.                *)
SameNursery(d) == \A n : /\ Holds(d, n)' <=> Holds(d, n)
                         /\ Holds(d, n) => pktToMsg'[Peer[d]][n] = pktToMsg[Peer[d]][n]

Grows(d) == /\ Len(wire[d]) \in Nat /\ Len(wire'[d]) \in Nat /\ Len(wire[d]) <= Len(wire'[d])
            /\ \A i \in 1..Len(wire[d]) : wire'[d][i] = wire[d][i]

(* The packets that are added are ACKs or do not have number n.              *)
AddsNoneOf(d, n) == \A i \in 1..Len(wire'[d]) :
  i > Len(wire[d]) /\ Real(wire'[d][i]) => wire'[d][i].msgNo # n

LEMMA PrecededGrows ==
  ASSUME NEW d \in Ends, SameNursery(d), Grows(d), NEW k \in Nat, k <= Len(wire[d]),
         NEW l \in Nat, k <= l, NEW n, NEW pos, Preceded(d, k, n, pos)
  PROVE  Preceded(d, l, n, pos)'
<1>1. CASE \E i \in 1..k : Real(wire[d][i]) /\ wire[d][i].msgNo = n /\ wire[d][i].pos + 1 = pos
  <2>1. PICK i \in 1..k : Real(wire[d][i]) /\ wire[d][i].msgNo = n /\ wire[d][i].pos + 1 = pos
    BY <1>1
  <2>2. i \in 1..l /\ wire'[d][i] = wire[d][i]
    BY DEF Grows
  <2> QED
    BY <2>1, <2>2 DEF Preceded, Real
<1>2. CASE Holds(d, n) /\ Len(pktToMsg[Peer[d]][n].body) + 1 = pos
  <2>1. Holds(d, n)' /\ Len(pktToMsg'[Peer[d]][n].body) + 1 = pos
    BY <1>2 DEF SameNursery
  <2> QED
    BY <2>1 DEF Preceded
<1> QED
  BY <1>1, <1>2 DEF Preceded

LEMMA SettledGrows ==
  ASSUME NEW d \in Ends, SameNursery(d), Grows(d), NEW k \in Nat, k <= Len(wire[d]),
         NEW l \in Nat, k <= l, NEW n, AddsNoneOf(d, n), Settled(d, k, n)
  PROVE  Settled(d, l, n)'
<1>1. CASE \E i \in 1..k : IsFinal(wire[d][i]) /\ wire[d][i].msgNo = n
  <2>1. PICK i \in 1..k : IsFinal(wire[d][i]) /\ wire[d][i].msgNo = n
    BY <1>1
  <2>2. i \in 1..l /\ wire'[d][i] = wire[d][i]
    BY DEF Grows
  <2> QED
    BY <2>1, <2>2 DEF Settled, IsFinal
<1>2. CASE ~Holds(d, n) /\ \A i \in 1..Len(wire[d]) : Real(wire[d][i]) => wire[d][i].msgNo # n
  <2>1. ASSUME NEW i \in 1..Len(wire'[d]), Real(wire'[d][i]) PROVE wire'[d][i].msgNo # n
    <3>1. CASE i <= Len(wire[d])
      BY <1>2, <2>1, <3>1 DEF Grows
    <3>2. CASE i > Len(wire[d])
      BY <2>1, <3>2 DEF AddsNoneOf
    <3> QED
      BY <3>1, <3>2 DEF Grows
  <2>2. ~Holds(d, n)'
    BY <1>2 DEF SameNursery
  <2> QED
    BY <2>1, <2>2 DEF Settled, Real
<1> QED
  BY <1>1, <1>2 DEF Settled

(* The packets that were on the wire before.                                 *)
LEMMA NoGapKept ==
  ASSUME NEW d \in Ends, SameNursery(d), Grows(d), NoGapOnWire(d),
         NEW j \in 1..Len(wire[d]), NEW r, r = wire[d][j], Real(r), AddsNoneOf(d, r.msgNo - 1)
  PROVE  /\ r.pos > 0 => Preceded(d, j - 1, r.msgNo, r.pos)'
         /\ r.pos = 0 /\ r.msgNo > 0 => Settled(d, j - 1, r.msgNo - 1)'
<1>1. j - 1 \in Nat /\ j - 1 <= Len(wire[d])
  BY DEF Grows
<1>2. /\ r.pos > 0 => Preceded(d, j - 1, r.msgNo, r.pos)
      /\ r.pos = 0 /\ r.msgNo > 0 => Settled(d, j - 1, r.msgNo - 1)
  BY DEF NoGapOnWire
<1>k. PICK k \in Nat : k = j - 1
  BY <1>1
<1>3. PICK n, o, pos : n = r.msgNo /\ o = r.msgNo - 1 /\ pos = r.pos
  OBVIOUS
<1>4. pos > 0 => Preceded(d, k, n, pos)'
  BY <1>1, <1>2, <1>k, <1>3, PrecededGrows
<1>5. pos = 0 /\ n > 0 => Settled(d, k, o)'
  BY <1>1, <1>2, <1>k, <1>3, SettledGrows
<1> QED
  BY <1>k, <1>3, <1>4, <1>5

(* A step that adds nothing but ACKs to the wire.                            *)
LEMMA NoGapExtended ==
  ASSUME NEW d \in Ends, SameNursery(d), ExtendedAt(d), NoGapOnWire(d)
  PROVE  NoGapOnWire(d)'
<1>1. Grows(d) /\ \A n : AddsNoneOf(d, n)
  BY DEF ExtendedAt, Grows, AddsNoneOf, Real
<1>2. ASSUME NEW j \in 1..Len(wire'[d]), NEW r, r = wire'[d][j], Real(r)
      PROVE  /\ r.pos > 0 => Preceded(d, j - 1, r.msgNo, r.pos)'
             /\ r.pos = 0 /\ r.msgNo > 0 => Settled(d, j - 1, r.msgNo - 1)'
  <2>1. j \in 1..Len(wire[d]) /\ r = wire[d][j]
    BY <1>2 DEF ExtendedAt, Real
  <2> QED
    BY <1>1, <1>2, <2>1, NoGapKept
<1> QED
  BY <1>2 DEF NoGapOnWire, Real

(* What Send at end d is about to write stays the same.                      *)
SameSends(d) ==
  /\ \A m \in Sends : Sender[m] = d =>
       /\ sendPc'[m] = "sending" <=> sendPc[m] = "sending"
       /\ next'[m] = next[m]
       /\ sendPc[m] = "sending" => msgno'[m] = msgno[m]
  /\ sent'[d] = sent[d] /\ readWriterLock'[d] = readWriterLock[d]
  /\ werr'[d] = "none" => werr[d] = "none"

LEMMA NoGapOthers ==
  ASSUME NEW d \in Ends, SameNursery(d), ExtendedAt(d), SameSends(d),
         NoGapOnWire(d), NoGapAtEnd(d)
  PROVE  NoGapOnWire(d)' /\ NoGapAtEnd(d)'
<1>1. Grows(d) /\ \A n : AddsNoneOf(d, n)
  BY DEF ExtendedAt, Grows, AddsNoneOf, Real
<1>2. NoGapOnWire(d)'
  BY NoGapExtended
<1>3. PICK k \in Nat, l \in Nat : k = Len(wire[d]) /\ l = Len(wire'[d]) /\ k <= l
  BY <1>1 DEF Grows
<1>4. ASSUME NEW n, NEW pos, Preceded(d, Len(wire[d]), n, pos) PROVE Preceded(d, l, n, pos)'
  BY <1>1, <1>3, <1>4, PrecededGrows
<1>5. ASSUME NEW n, Settled(d, Len(wire[d]), n) PROVE Settled(d, l, n)'
  BY <1>1, <1>3, <1>5, SettledGrows
<1>6. NoGapAtEnd(d)'
  <2>1. SUFFICES ASSUME werr'[d] = "none" PROVE NoGapAtEnd(d)'
    BY DEF NoGapAtEnd
  <2>0. werr[d] = "none"
    BY <2>1 DEF SameSends
  <2>2. ASSUME NEW m \in Sends, sendPc'[m] = "sending", Sender[m] = d
        PROVE  /\ next'[m] > 0 /\ next'[m] <= EofPos(m) => Preceded(d, Len(wire[d]), msgno[m], next[m])'
               /\ next'[m] = 0 /\ msgno'[m] > 0 => Settled(d, Len(wire[d]), msgno[m] - 1)'
               /\ next'[m] > EofPos(m) => Settled(d, Len(wire[d]), msgno[m])'
    <3>0. sendPc[m] = "sending" /\ next'[m] = next[m] /\ msgno'[m] = msgno[m]
      BY <2>2 DEF SameSends
    <3>1. /\ next[m] > 0 /\ next[m] <= EofPos(m) => Preceded(d, Len(wire[d]), msgno[m], next[m])
          /\ next[m] = 0 /\ msgno[m] > 0 => Settled(d, Len(wire[d]), msgno[m] - 1)
          /\ next[m] > EofPos(m) => Settled(d, Len(wire[d]), msgno[m])
      BY <2>0, <2>2, <3>0 DEF NoGapAtEnd
    <3>2. PICK n, o, pos : n = msgno[m] /\ o = msgno[m] - 1 /\ pos = next[m]
      OBVIOUS
    <3>3. /\ pos > 0 /\ pos <= EofPos(m) => Preceded(d, l, n, pos)'
          /\ pos = 0 /\ n > 0 => Settled(d, l, o)'
          /\ pos > EofPos(m) => Settled(d, l, n)'
      BY <1>4, <1>5, <3>1, <3>2
    <3>4. n = msgno'[m] /\ o = msgno'[m] - 1 /\ pos = next'[m]
      BY <3>0, <3>2
    <3> QED
      BY <1>3, <3>3, <3>4
  <2>3. readWriterLock'[d] = Free /\ Len(sent'[d]) > 0 => Settled(d, Len(wire[d]), Len(sent[d]) - 1)'
    <3>1. readWriterLock[d] = Free /\ Len(sent[d]) > 0 => Settled(d, Len(wire[d]), Len(sent[d]) - 1)
      BY <2>0 DEF NoGapAtEnd
    <3>2. PICK n : n = Len(sent[d]) - 1
      OBVIOUS
    <3>3. readWriterLock[d] = Free /\ Len(sent[d]) > 0 => Settled(d, l, n)'
      BY <1>5, <3>1, <3>2
    <3>4. n = Len(sent'[d]) - 1 /\ Len(sent'[d]) = Len(sent[d])
          /\ readWriterLock'[d] = readWriterLock[d]
      BY <3>2 DEF SameSends
    <3> QED
      BY <1>3, <3>3, <3>4
  <2> QED
    BY <2>1, <2>2, <2>3 DEF NoGapAtEnd, EofPos
<1> QED
  BY <1>2, <1>6

(* Who is sending at an end is alone there.                                  *)
LEMMA OnlySender ==
  ASSUME SendInv, NEW m \in Sends, NEW x \in Sends, sendPc[m] = "sending", sendPc[x] = "sending",
         Sender[x] = Sender[m]
  PROVE  x = m
  BY DEF SendInv, LockHeld

(* Send writes a packet: the one that NoGapAtEnd announced.                  *)
LEMMA NoGapWrite ==
  ASSUME TypeOK, SendInv, WireInv, NEW m \in Sends, WritePacket(m) \/ AbortSend(m),
         NEW e \in Ends, e = Sender[m], SameNursery(e), NoGapOnWire(e), NoGapAtEnd(e)
  PROVE  NoGapOnWire(e)' /\ NoGapAtEnd(e)'
<1>0. /\ SendTypes /\ NChunks[m] \in Nat /\ msgno[m] \in Nat /\ next[m] \in Nat /\ EofPos(m) \in Nat
      /\ Len(sent[e]) \in Nat
  <2>1. SendTypes /\ NChunks[m] \in Nat
    BY SendsAssumption DEF TypeOK
  <2> QED
    BY SMTT(30), <2>1 DEF SendTypes, EofPos
<1>p. PICK p \in Packet : Written(m, p)
  BY WriteEffect
<1>1.   /\ Len(wire[e]) \in Nat
        /\ Len(wire'[e]) = Len(wire[e]) + 1
        /\ \A i \in 1..Len(wire[e]) : wire'[e][i] = wire[e][i]
        /\ wire'[e][Len(wire[e]) + 1] = p
        /\ Real(p) /\ p.msgNo = msgno[m] /\ p.msg = m /\ p.pos = next[m]
        /\ sendPc[m] = "sending" /\ next[m] <= EofPos(m)
        /\ werr[e] = "none"
        /\ \/ /\ p.type = PacketAt(m, msgno[m], next[m]).type
              /\ next'[m] = next[m] + 1 /\ sendPc' = sendPc /\ readWriterLock' = readWriterLock
           \/ /\ p.type = "TXERR"
              /\ sendPc'[m] = "err" /\ readWriterLock'[e] = Free
  BY <1>p DEF Written
<1>2. /\ msgno[m] + 1 = Len(sent[e]) /\ readWriterLock[e] = m
  BY <1>1 DEF SendInv, LockHeld
<1>3. /\ sent' = sent /\ msgno'[m] = msgno[m]
      /\ \A x \in Sends : x # m => sendPc'[x] = sendPc[x]
  BY <1>1, SendFrame DEF SendStep
<1>4. Grows(e)
  BY <1>1 DEF Grows
<1>5. ASSUME NEW n, n # msgno[m] PROVE AddsNoneOf(e, n)
  BY <1>1, <1>5 DEF AddsNoneOf
<1>6. PICK l \in Nat : l = Len(wire[e])
  BY <1>1
<1>7. PICK n \in Nat, pos \in Nat : n = msgno[m] /\ pos = next[m]
  BY <1>0
<1>o. PICK o : o = msgno[m] - 1
  OBVIOUS
<1>8. NoGapOnWire(e)'
  <2>1. ASSUME NEW j \in 1..Len(wire'[e]), NEW r, r = wire'[e][j], Real(r)
        PROVE  /\ r.pos > 0 => Preceded(e, j - 1, r.msgNo, r.pos)'
               /\ r.pos = 0 /\ r.msgNo > 0 => Settled(e, j - 1, r.msgNo - 1)'
    <3>1. CASE j \in 1..Len(wire[e])
      <4>1. r = wire[e][j] /\ r \in Packet
        BY <1>1, <2>1, <3>1 DEF TypeOK, LinkTypes
      <4>2. PacketInv(e, r) /\ r.msgNo \in Nat
        BY <2>1, <3>1, <4>1 DEF WireInv, Packet
      <4>3. r.msgNo - 1 # msgno[m]
        BY <1>0, <1>2, <4>2 DEF PacketInv
      <4> QED
        BY <1>4, <1>5, <2>1, <3>1, <4>1, <4>3, NoGapKept
    <3>2. CASE j = Len(wire[e]) + 1
      <4>1. r = p /\ j - 1 = l
        BY <1>1, <1>6, <2>1, <3>2
      <4>2. pos > 0 => Preceded(e, l, n, pos)
        BY <1>1, <1>6, <1>7 DEF NoGapAtEnd
      <4>3. pos = 0 /\ n > 0 => Settled(e, l, o)
        BY <1>1, <1>6, <1>7, <1>o DEF NoGapAtEnd
      <4>4. pos > 0 => Preceded(e, l, n, pos)'
        BY <1>4, <1>6, <4>2, PrecededGrows
      <4>5. o # msgno[m]
        BY <1>7, <1>o
      <4>6. pos = 0 /\ n > 0 => Settled(e, l, o)'
        BY <1>4, <1>5, <1>6, <4>3, <4>5, SettledGrows
      <4> QED
        BY <1>1, <1>7, <1>o, <4>1, <4>4, <4>6
    <3> QED
      BY <1>1, <3>1, <3>2
  <2> QED
    BY <2>1 DEF NoGapOnWire, Real
<1>9. NoGapAtEnd(e)'
  <2>0. ASSUME NEW x \in Sends, sendPc'[x] = "sending", Sender[x] = e PROVE x = m /\ sendPc'[m] # "err"
    BY <1>1, <1>3, <2>0, OnlySender
  <2>1. l + 1 \in 1..Len(wire'[e]) /\ wire'[e][l + 1] = p /\ Len(wire'[e]) = l + 1
    BY <1>1, <1>6
  <2>2. CASE p.type = "TXERR"
    <3>1. sendPc'[m] = "err"
      BY <1>1, <2>2 DEF PacketAt
    <3>2. Settled(e, Len(wire[e]), n)'
      BY <1>1, <1>7, <2>1, <2>2 DEF Settled, IsFinal
    <3>3. Len(sent'[e]) - 1 = n
      BY <1>0, <1>2, <1>3, <1>7
    <3> QED
      BY <2>0, <3>1, <3>2, <3>3 DEF NoGapAtEnd
  <2>3. CASE p.type # "TXERR"
    <3>1. /\ p.type = PacketAt(m, msgno[m], next[m]).type
          /\ next'[m] = pos + 1 /\ readWriterLock'[e] # Free
      BY <1>1, <1>2, <1>7, <2>3, SendsAssumption
    <3>2. Preceded(e, Len(wire[e]), n, pos + 1)'
      BY <1>1, <1>7, <2>1 DEF Preceded, Real
    <3>3. pos + 1 > EofPos(m) => Settled(e, Len(wire[e]), n)'
      <4>1. pos + 1 > EofPos(m) => p.type = "EOF"
        BY <1>0, <1>1, <1>7, <3>1 DEF PacketAt, EofPos
      <4> QED
        BY <1>1, <1>7, <2>1, <4>1 DEF Settled, IsFinal
    <3>4. n = msgno'[m]
      BY <1>3, <1>7
    <3> QED
      BY <2>0, <3>1, <3>2, <3>3, <3>4 DEF NoGapAtEnd, EofPos
  <2> QED
    BY <2>2, <2>3
<1> QED
  BY <1>8, <1>9

LEMMA NoGapSend ==
  ASSUME TypeOK, SendInv, WireInv, ReadInv, NEW m \in Sends, SendStep(m) \/ AbortSend(m),
         NEW d \in Ends, NoGapOnWire(d), NoGapAtEnd(d)
  PROVE  NoGapOnWire(d)' /\ NoGapAtEnd(d)'
<1>0. /\ SendTypes /\ Sender[m] \in Ends /\ NChunks[m] \in Nat /\ msgno[m] \in Nat /\ EofPos(m) \in Nat
      /\ next[m] \in Nat /\ Len(sent[d]) \in Nat /\ Len(wire[d]) \in Nat
  <2>1. SendTypes /\ Sender[m] \in Ends /\ NChunks[m] \in Nat /\ Len(wire[d]) \in Nat
    BY SendsAssumption DEF TypeOK, LinkTypes
  <2> QED
    BY <2>1 DEF SendTypes, EofPos
<1>1. /\ UNCHANGED <<readVars, linkVars>>
      /\ \A x \in Sends : x # m => /\ sendPc'[x] = sendPc[x] /\ next'[x] = next[x]
                                   /\ msgno'[x] = msgno[x]
  BY SendFrame
<1>2. SameNursery(d)
  BY <1>1 DEF SameNursery, Holds, readVars
<1>3. CASE WritePacket(m) \/ AbortSend(m)
  <2>1. CASE d = Sender[m]
    BY <1>2, <1>3, <2>1, NoGapWrite
  <2>2. CASE d # Sender[m]
    <3>1. PICK p \in Packet : Written(m, p)
      BY <1>3, WriteEffect
    <3>2. wire'[d] = wire[d] /\ sendPc[m] = "sending"
      BY <2>2, <3>1 DEF Written
    <3>3. ExtendedAt(d)
      BY <1>0, <3>2 DEF ExtendedAt
    <3>4. sent' = sent /\ readWriterLock'[d] = readWriterLock[d]
      BY <1>0, <1>3, <2>2 DEF WritePacket, AbortSend, Return, SendTypes
    <3>5. SameSends(d)
      BY <1>1, <2>2, <3>4 DEF SameSends, linkVars
    <3> QED
      BY <1>2, <3>3, <3>5, NoGapOthers
  <2> QED
    BY <2>1, <2>2
<1>4. CASE ~(WritePacket(m) \/ AbortSend(m))
  <2>1. UNCHANGED wire
    BY <1>4 DEF SendStep, Send, SendUnnumbered, WriteSkipped, WriteRetry, WriteGiveUp, SendReturn
  <2>2. ExtendedAt(d) /\ Grows(d) /\ \A n : AddsNoneOf(d, n)
    BY <1>0, <2>1 DEF ExtendedAt, Grows, AddsNoneOf
  <2>3. NoGapOnWire(d)'
    BY <1>2, <2>2, NoGapExtended
  <2>4. CASE d # Sender[m]
    <3>1. sent'[d] = sent[d] /\ readWriterLock'[d] = readWriterLock[d]
      <4>1. CASE Send(m)
        BY <2>4, <4>1, SendEffect
      <4>2. CASE ~Send(m)
        BY <1>0, <1>4, <2>4, <4>2
        DEF SendStep, SendUnnumbered, WriteSkipped, WriteRetry, WriteGiveUp, SendReturn, Return,
            SendTypes
      <4> QED
        BY <4>1, <4>2
    <3>2. SameSends(d)
      BY <1>1, <2>4, <3>1 DEF SameSends, linkVars
    <3> QED
      BY <1>2, <2>2, <3>2, NoGapOthers
  <2>5. CASE d = Sender[m] /\ Send(m)
    <3>1. /\ readWriterLock[d] = Free /\ readWriterLock'[d] = m /\ msgno'[m] = outgoingmsgno[d]
          /\ next'[m] = next[m] /\ sendPc[m] = "idle"
      BY <2>5, SendEffect
    <3>2. next'[m] = 0 /\ msgno'[m] = Len(sent[d]) /\ m # Free
      BY <3>1, SendsAssumption DEF SendInv, Progress, Numbered
    <3>3. ASSUME NEW x \in Sends, sendPc'[x] = "sending", Sender[x] = d PROVE x = m
      <4>1. SUFFICES ASSUME x # m PROVE FALSE
        OBVIOUS
      <4>2. sendPc[x] = "sending"
        BY <1>1, <3>3, <4>1
      <4>3. readWriterLock[d] = x
        BY <3>3, <4>2 DEF SendInv, LockHeld
      <4> QED
        BY <3>1, <4>3, SendsAssumption
    <3>4. ASSUME werr[d] = "none", Len(sent[d]) > 0
          PROVE  Settled(d, Len(wire[d]), msgno[m] - 1)'
      <4>0. PICK l \in Nat : l = Len(wire[d])
        BY <1>0
      <4>1. PICK n : n = Len(sent[d]) - 1
        OBVIOUS
      <4>2. Settled(d, l, n)
        BY <3>1, <3>4, <4>0, <4>1 DEF NoGapAtEnd
      <4>3. Settled(d, l, n)'
        BY <1>2, <2>2, <4>0, <4>2, SettledGrows
      <4>4. l = Len(wire'[d]) /\ n = msgno'[m] - 1
        BY <2>1, <3>2, <4>0, <4>1
      <4> QED
        BY <4>3, <4>4
    <3>5. UNCHANGED werr
      BY <1>1 DEF linkVars
    <3>6. NoGapAtEnd(d)'
      BY <1>0, <3>1, <3>2, <3>3, <3>4, <3>5 DEF NoGapAtEnd, EofPos
    <3> QED
      BY <2>3, <3>6
  <2>6. CASE d = Sender[m] /\ (SendUnnumbered(m) \/ WriteRetry(m))
    <3>1. SameSends(d)
      BY <1>0, <1>1, <2>6 DEF SameSends, linkVars, SendUnnumbered, WriteRetry, SendTypes
    <3> QED
      BY <1>2, <2>2, <3>1, NoGapOthers
  <2>7. CASE d = Sender[m] /\ WriteSkipped(m)
    <3>1. werr'[d] # "none"
      BY <1>1, <2>7 DEF WriteSkipped, linkVars
    <3> QED
      BY <2>3, <3>1 DEF NoGapAtEnd
  <2>8. CASE d = Sender[m] /\ (WriteGiveUp(m) \/ SendReturn(m))
    <3>1. /\ sendPc[m] = "sending" /\ sendPc'[m] # "sending" /\ UNCHANGED <<sent, next, msgno>>
      BY <1>0, <2>8 DEF WriteGiveUp, SendReturn, Writing, Return, SendTypes
    <3>2. ASSUME NEW x \in Sends, sendPc'[x] = "sending", Sender[x] = d PROVE FALSE
      <4>1. x # m /\ sendPc[x] = "sending"
        BY <1>1, <3>1, <3>2
      <4> QED
        BY <2>8, <3>1, <3>2, <4>1, OnlySender
    <3>3. msgno[m] + 1 = Len(sent[d]) /\ sent[d][msgno[m] + 1] = m
      BY <2>8, <3>1 DEF SendInv, LockHeld
    <3>4. PICK l \in Nat, n \in Nat : l = Len(wire[d]) /\ n = msgno[m]
      BY <1>0
    <3>5. ASSUME werr[d] = "none" PROVE Settled(d, l, n)
      <4>1. CASE next[m] > EofPos(m)
        BY <2>8, <3>1, <3>4, <3>5, <4>1 DEF NoGapAtEnd
      <4>2. CASE next[m] = 0
        <5>1. ASSUME NEW i \in 1..Len(wire[d]), Real(wire[d][i]) PROVE wire[d][i].msgNo # n
          <6>1. PICK p \in Packet : p = wire[d][i] /\ PacketInv(d, p)
            BY <5>1 DEF WireInv, TypeOK, LinkTypes
          <6>2. SUFFICES ASSUME p.msgNo = n PROVE FALSE
            BY <6>1
          <6>3. p.msg = m /\ p.pos \in Nat
            BY <3>3, <3>4, <6>1, <6>2 DEF PacketInv, Packet
          <6>4. p.type # "TXERR"
            BY <3>1, <6>1, <6>3 DEF PacketInv
          <6> QED
            BY <4>2, <6>1, <6>3, <6>4 DEF PacketInv
        <5>2. ~Holds(d, n)
          <6>1. SUFFICES ASSUME Holds(d, n) PROVE FALSE
            OBVIOUS
          <6>2. Peer[d] \in Ends /\ Peer[Peer[d]] = d
            BY EndsAssumption
          <6>3. PICK msg \in Message : msg = pktToMsg[Peer[d]][n] /\ ~msg.err
            BY <6>1, <6>2 DEF Holds, TypeOK, ReadTypes, MapTypes
          <6>4. Partial(Peer[d], n, msg)
            BY <6>1, <6>2, <6>3 DEF Holds, ReadInv
          <6>5. msg.hdr = m /\ Len(msg.body) < next[m]
            BY <3>3, <3>4, <6>2, <6>3, <6>4 DEF Partial
          <6>6. Len(msg.body) \in Nat
            BY DEF Message
          <6> QED
            BY <4>2, <6>5, <6>6
        <5> QED
          BY <5>1, <5>2 DEF Settled
      <4>3. next[m] > EofPos(m) \/ next[m] = 0
        BY <2>8, <3>5 DEF WriteGiveUp, WriteFails, Unmarshalable, SendReturn
      <4> QED
        BY <4>1, <4>2, <4>3
    <3>6. werr[d] = "none" => Settled(d, l, n)'
      BY <1>2, <2>2, <3>4, <3>5, SettledGrows
    <3>7. l = Len(wire'[d]) /\ n = Len(sent'[d]) - 1 /\ werr' = werr
      <4>1. n = Len(sent[d]) - 1
        BY <1>0, <3>3, <3>4
      <4>2. sent' = sent /\ werr' = werr /\ wire' = wire
        BY <1>1, <2>1, <3>1 DEF linkVars
      <4> QED
        BY <3>4, <4>1, <4>2
    <3>8. NoGapAtEnd(d)'
      <4>1. werr'[d] = "none" => Settled(d, Len(wire[d]), Len(sent[d]) - 1)'
        BY <3>6, <3>7
      <4> QED
        BY <3>2, <4>1 DEF NoGapAtEnd
    <3> QED
      BY <2>3, <3>8
  <2> QED
    BY <1>4, <2>4, <2>5, <2>6, <2>7, <2>8 DEF SendStep
<1> QED
  BY <1>3, <1>4

(* The reader takes h: what h preceded now follows what is in the nursery,   *)
(* and what h ended has left it.                                             *)
LEMMA PrecededTaken ==
  ASSUME TypeOK, WireInv, GapInv, ReadInv, NEW q \in Ends, NEW h \in Packet, Taken(q, h), Routed(q, h),
         NEW e \in Ends, e = Peer[q], NEW k \in Nat, k + 1 <= Len(wire[e]), NEW n, NEW pos,
         Real(h) => h.msgNo < n \/ (h.msgNo = n /\ h.pos < pos /\ ~IsFinal(h)),
         n \in Nat, Preceded(e, k + 1, n, pos)
  PROVE  Preceded(e, k, n, pos)'
<1>0. /\ h.type \in PacketTypes /\ h.msgNo \in Nat /\ h.pos \in Nat
      /\ reader[q] = "read" /\ Peer[e] = q /\ MapTypes
  BY EndsAssumption DEF Packet, Routed, TypeOK, ReadTypes
<1>1. ASSUME Real(h)
      PROVE  /\ PacketInv(e, h)
             /\ h.pos > 0 => /\ h.msgNo \in DOMAIN pktToMsg[q]
                             /\ Len(pktToMsg[q][h.msgNo].body) + 1 = h.pos
  BY <1>0, <1>1, HeadFits
<1>2. CASE \E i \in 1..(k + 1) :
             Real(wire[e][i]) /\ wire[e][i].msgNo = n /\ wire[e][i].pos + 1 = pos
  <2>1. PICK i \in 1..(k + 1) :
          Real(wire[e][i]) /\ wire[e][i].msgNo = n /\ wire[e][i].pos + 1 = pos
    BY <1>2
  <2>2. CASE i > 1
    <3>1. i - 1 \in 1..k /\ i - 1 \in 1..(Len(wire[e]) - 1) /\ (i - 1) + 1 = i
      BY <2>2 DEF Taken
    <3>2. wire'[e][i - 1] = wire[e][i]
      BY <3>1 DEF Taken
    <3> QED
      BY <2>1, <3>1, <3>2 DEF Preceded, Real
  <2>3. CASE i = 1
    <3>1. Real(h) /\ h.msgNo = n /\ h.pos + 1 = pos /\ ~IsFinal(h)
      BY <1>0, <2>1, <2>3 DEF Taken
    <3>2. CASE h.type = "HEADER"
      <4>1. n \in DOMAIN pktToMsg'[q] /\ pktToMsg'[q][n] = NewMessage(h.msg) /\ pos = 1
        BY <1>1, <3>1, <3>2 DEF Routed, PacketInv
      <4>2. ~pktToMsg'[q][n].err /\ Len(pktToMsg'[q][n].body) = 0
        BY <4>1 DEF NewMessage
      <4> QED
        BY <1>0, <4>1, <4>2 DEF Preceded, Holds
    <3>3. CASE h.type = "DATA"
      <4> DEFINE old == pktToMsg[q][n]
      <4>1. n \in DOMAIN pktToMsg'[q] /\ pktToMsg'[q][n] = Write(old, <<h.msg, h.pos>>, h.bytes)
            /\ n \in DOMAIN pktToMsg[q]
        BY <3>1, <3>3 DEF Routed
      <4>2. old \in Message /\ ~old.err /\ Len(old.body) + 1 = h.pos
        BY <1>0, <1>1, <3>1, <3>3, <4>1, NoErrWhileReading DEF MapTypes, PacketInv
      <4>3. ~pktToMsg'[q][n].err /\ pktToMsg'[q][n].body = Append(old.body, <<h.msg, h.pos>>)
        BY <4>1, <4>2 DEF Write, Message
      <4>4. Len(Append(old.body, <<h.msg, h.pos>>)) = Len(old.body) + 1
        <5>1. PICK s \in Seq(Chunk), c \in Chunk : s = old.body /\ c = <<h.msg, h.pos>>
          BY <4>2 DEF Message, Packet, Chunk
        <5> QED
          BY <5>1, AppendFacts
      <4>5. Holds(e, n)' /\ Len(pktToMsg'[q][n].body) + 1 = pos
        BY <1>0, <3>1, <4>1, <4>2, <4>3, <4>4 DEF Holds
      <4> QED
        BY <1>0, <4>5 DEF Preceded
    <3> QED
      BY <1>0, <3>1, <3>2, <3>3 DEF PacketTypes, Real, IsFinal
  <2> QED
    BY <2>2, <2>3
<1>3. CASE Holds(e, n) /\ Len(pktToMsg[q][n].body) + 1 = pos
  <2>1. n \in DOMAIN pktToMsg'[q] /\ pktToMsg'[q][n] = pktToMsg[q][n]
    <3>1. n \in DOMAIN pktToMsg[q]
      BY <1>0, <1>3 DEF Holds
    <3>2. CASE n # h.msgNo
      BY <3>1, <3>2 DEF Routed
    <3>3. CASE h.type = "ACK"
      BY <3>1, <3>3 DEF Routed
    <3>4. CASE n = h.msgNo /\ h.type # "ACK"
      <4>1. Real(h) /\ h.pos < pos /\ ~IsFinal(h)
        BY <1>0, <3>4 DEF Real
      <4>2. h.type # "HEADER"
        BY <3>1, <3>4 DEF Routed
      <4>3. h.type = "DATA"
        BY <1>0, <4>1, <4>2 DEF PacketTypes, Real, IsFinal
      <4>4. h.pos > 0
        BY <1>1, <4>1, <4>3 DEF PacketInv
      <4> QED
        BY <1>0, <1>1, <1>3, <3>4, <4>1, <4>4
    <3> QED
      BY <3>2, <3>3, <3>4
  <2> QED
    BY <1>0, <1>3, <2>1 DEF Preceded, Holds
<1> QED
  BY <1>0, <1>2, <1>3 DEF Preceded

LEMMA SettledTaken ==
  ASSUME TypeOK, WireInv, NEW q \in Ends, NEW h \in Packet, Taken(q, h), Routed(q, h),
         NEW e \in Ends, e = Peer[q], NEW k \in Nat, k + 1 <= Len(wire[e]), NEW n,
         Settled(e, k + 1, n)
  PROVE  Settled(e, k, n)'
<1>0. /\ h.type \in PacketTypes /\ h.msgNo \in Nat /\ Peer[e] = q
      /\ Len(wire[e]) \in Nat \ {0} /\ Len(wire'[e]) = Len(wire[e]) - 1
  BY EndsAssumption DEF Packet, Taken
<1>1. ASSUME NEW i \in 1..Len(wire'[e])
      PROVE  i + 1 \in 1..Len(wire[e]) /\ wire'[e][i] = wire[e][i + 1] /\ 1 < i + 1
  BY SMTT(30), <1>0 DEF Taken
<1>2. CASE \E i \in 1..(k + 1) : IsFinal(wire[e][i]) /\ wire[e][i].msgNo = n
  <2>1. PICK i \in 1..(k + 1) : IsFinal(wire[e][i]) /\ wire[e][i].msgNo = n
    BY <1>2
  <2>2. CASE i > 1
    <3>1. i - 1 \in 1..k /\ i - 1 \in 1..Len(wire'[e]) /\ (i - 1) + 1 = i
      BY <1>0, <2>2
    <3>2. wire'[e][i - 1] = wire[e][i]
      BY <1>1, <3>1
    <3> QED
      BY <2>1, <3>1, <3>2 DEF Settled, IsFinal
  <2>3. CASE i = 1
    <3>1. IsFinal(h) /\ Real(h) /\ h.msgNo = n /\ h = wire[e][1] /\ 1 \in 1..Len(wire[e])
      BY <1>0, <2>1, <2>3 DEF Taken, IsFinal, Real
    <3>2. ASSUME NEW j \in 1..Len(wire'[e]), Real(wire'[e][j]) PROVE wire'[e][j].msgNo # n
      <4>1. Before(h, wire'[e][j])
        BY <1>1, <3>1, <3>2 DEF WireInv
      <4> QED
        BY <1>0, <3>1, <4>1 DEF Before
    <3>3. ~Holds(e, n)'
      BY <1>0, <3>1 DEF Holds, Routed, IsFinal
    <3> QED
      BY <3>2, <3>3 DEF Settled, Real
  <2> QED
    BY <2>2, <2>3
<1>3. CASE ~Holds(e, n) /\ \A i \in 1..Len(wire[e]) : Real(wire[e][i]) => wire[e][i].msgNo # n
  <2>1. ASSUME NEW j \in 1..Len(wire'[e]), Real(wire'[e][j]) PROVE wire'[e][j].msgNo # n
    BY <1>1, <1>3, <2>1
  <2>2. h.type = "ACK" \/ n # h.msgNo
    <3>1. 1 \in 1..Len(wire[e]) /\ h = wire[e][1]
      BY <1>0 DEF Taken
    <3> QED
      BY <1>3, <3>1 DEF Real
  <2>3. ~Holds(e, n)'
    BY <1>0, <1>3, <2>2 DEF Holds, Routed
  <2> QED
    BY <2>1, <2>3 DEF Settled, Real
<1> QED
  BY <1>2, <1>3 DEF Settled

LEMMA NoGapTaken ==
  ASSUME TypeOK, SendInv, WireInv, GapInv, ReadInv, NEW q \in Ends, NEW h \in Packet,
         Taken(q, h), Routed(q, h), NEW e \in Ends, e = Peer[q]
  PROVE  NoGapOnWire(e)' /\ NoGapAtEnd(e)'
<1>0. /\ h.msgNo \in Nat /\ h.pos \in Nat /\ Peer[e] = q /\ reader[q] = "read"
      /\ UNCHANGED <<sendVars, linkVars, readWriterLock>>
      /\ 1 \in 1..Len(wire[e]) /\ h = wire[e][1]
      /\ Len(wire[e]) \in Nat \ {0} /\ Len(wire'[e]) = Len(wire[e]) - 1
  BY EndsAssumption DEF Packet, Routed, Taken
<1>1. NoGapOnWire(e) /\ NoGapAtEnd(e)
  BY <1>0 DEF GapInv
<1>2. NoGapOnWire(e)'
  <2>1. ASSUME NEW j \in 1..Len(wire'[e]), NEW r, r = wire'[e][j], Real(r)
        PROVE  /\ r.pos > 0 => Preceded(e, j - 1, r.msgNo, r.pos)'
               /\ r.pos = 0 /\ r.msgNo > 0 => Settled(e, j - 1, r.msgNo - 1)'
    <3>1. /\ j + 1 \in 1..Len(wire[e]) /\ r = wire[e][j + 1] /\ 1 < j + 1 /\ (j + 1) - 1 = j
          /\ j <= Len(wire[e])
      <4>1. j \in Nat /\ j + 1 \in 1..Len(wire[e]) /\ j <= Len(wire[e])
        BY <1>0
      <4>2. r = wire[e][j + 1]
        BY <2>1 DEF Taken
      <4> QED
        BY <4>1, <4>2
    <3>2. Real(h) => Before(h, r)
      BY <1>0, <2>1, <3>1 DEF WireInv
    <3>3. /\ r.pos > 0 => Preceded(e, j, r.msgNo, r.pos)
          /\ r.pos = 0 /\ r.msgNo > 0 => Settled(e, j, r.msgNo - 1)
      BY <1>1, <2>1, <3>1 DEF NoGapOnWire
    <3>4. r.msgNo \in Nat /\ r.pos \in Nat
      <4>1. r \in Packet
        BY <3>1 DEF TypeOK, LinkTypes
      <4> QED
        BY <4>1 DEF Packet
    <3>5. PICK k \in Nat, n \in Nat, pos \in Nat : k = j - 1 /\ n = r.msgNo /\ pos = r.pos
      BY <3>4
    <3>6. PICK o : o = r.msgNo - 1
      OBVIOUS
    <3>7. k + 1 = j
      BY <3>5
    <3>8. pos > 0 => Preceded(e, k, n, pos)'
      <4>1. SUFFICES ASSUME pos > 0 PROVE Preceded(e, k, n, pos)'
        OBVIOUS
      <4>2. Preceded(e, k + 1, n, pos)
        BY <3>3, <3>5, <3>7, <4>1
      <4>3. Real(h) => h.msgNo < n \/ (h.msgNo = n /\ h.pos < pos /\ ~IsFinal(h))
        BY <3>2, <3>5 DEF Before
      <4>4. k + 1 <= Len(wire[e])
        BY <3>1, <3>7
      <4> QED
        BY <4>2, <4>3, <4>4, PrecededTaken
    <3>9. pos = 0 /\ n > 0 => Settled(e, k, o)'
      <4>1. pos = 0 /\ n > 0 => Settled(e, k + 1, o)
        BY <3>3, <3>5, <3>6, <3>7
      <4>2. k + 1 <= Len(wire[e])
        BY <3>1, <3>7
      <4> QED
        BY <4>1, <4>2, SettledTaken
    <3> QED
      BY <3>5, <3>6, <3>8, <3>9
  <2> QED
    BY <2>1 DEF NoGapOnWire, Real
<1>3. PICK k \in Nat : k + 1 = Len(wire[e]) /\ k = Len(wire'[e])
  <2>1. Len(wire[e]) - 1 \in Nat /\ (Len(wire[e]) - 1) + 1 = Len(wire[e])
    BY <1>0
  <2> QED
    BY <1>0, <2>1
<1>4. ASSUME NEW n, Settled(e, Len(wire[e]), n) PROVE Settled(e, k, n)'
  <2>1. Settled(e, k + 1, n) /\ k + 1 <= Len(wire[e])
    BY <1>0, <1>3, <1>4
  <2> QED
    BY <2>1, SettledTaken
<1>5. NoGapAtEnd(e)'
  <2>0. UNCHANGED <<werr, sendPc, next, msgno, sent, readWriterLock>>
    BY <1>0 DEF sendVars, linkVars
  <2>1. SUFFICES ASSUME werr[e] = "none" PROVE NoGapAtEnd(e)'
    BY <2>0 DEF NoGapAtEnd
  <2>2. ASSUME NEW m \in Sends, sendPc[m] = "sending", Sender[m] = e
        PROVE  /\ next[m] > 0 /\ next[m] <= EofPos(m) => Preceded(e, Len(wire[e]), msgno[m], next[m])'
               /\ next[m] = 0 /\ msgno[m] > 0 => Settled(e, Len(wire[e]), msgno[m] - 1)'
               /\ next[m] > EofPos(m) => Settled(e, Len(wire[e]), msgno[m])'
    <3>1. /\ next[m] > 0 /\ next[m] <= EofPos(m) => Preceded(e, Len(wire[e]), msgno[m], next[m])
          /\ next[m] = 0 /\ msgno[m] > 0 => Settled(e, Len(wire[e]), msgno[m] - 1)
          /\ next[m] > EofPos(m) => Settled(e, Len(wire[e]), msgno[m])
      BY <1>1, <2>1, <2>2 DEF NoGapAtEnd
    <3>2. PICK n \in Nat, pos \in Nat : n = msgno[m] /\ pos = next[m]
      BY DEF TypeOK, SendTypes
    <3>3. PICK o : o = msgno[m] - 1
      OBVIOUS
    <3>4. pos > 0 /\ pos <= EofPos(m) => Preceded(e, k, n, pos)'
      <4>1. SUFFICES ASSUME pos > 0, pos <= EofPos(m) PROVE Preceded(e, k, n, pos)'
        OBVIOUS
      <4>2. Preceded(e, k + 1, n, pos) /\ k + 1 <= Len(wire[e])
        BY <1>0, <1>3, <3>1, <3>2, <4>1
      <4>3. Real(h) => PacketInv(Sender[m], h)
        BY <1>0, <2>2 DEF WireInv
      <4>4. Real(h) => h.msgNo < n \/ (h.msgNo = n /\ h.pos < pos /\ ~IsFinal(h))
        BY <2>2, <3>2, <4>1, <4>3, OldBeforeNext
      <4> QED
        BY <4>2, <4>4, PrecededTaken
    <3>5. /\ pos = 0 /\ n > 0 => Settled(e, k, o)'
          /\ pos > EofPos(m) => Settled(e, k, n)'
      BY <1>4, <3>1, <3>2, <3>3
    <3>6. n = msgno'[m] /\ pos = next'[m] /\ o = msgno'[m] - 1
      BY <2>0, <3>2, <3>3
    <3> QED
      BY <1>3, <3>2, <3>4, <3>5, <3>6
  <2>3. readWriterLock[e] = Free /\ Len(sent[e]) > 0 => Settled(e, Len(wire[e]), Len(sent[e]) - 1)'
    <3>1. readWriterLock[e] = Free /\ Len(sent[e]) > 0 => Settled(e, Len(wire[e]), Len(sent[e]) - 1)
      BY <1>1, <2>1 DEF NoGapAtEnd
    <3>2. PICK n : n = Len(sent[e]) - 1
      OBVIOUS
    <3>3. readWriterLock[e] = Free /\ Len(sent[e]) > 0 => Settled(e, k, n)'
      BY <1>4, <3>1, <3>2
    <3>4. n = Len(sent'[e]) - 1
      BY <2>0, <3>2
    <3> QED
      BY <1>3, <3>3, <3>4
  <2> QED
    BY <2>0, <2>2, <2>3 DEF NoGapAtEnd, EofPos
<1> QED
  BY <1>2, <1>5

-----------------------------------------------------------------------------
(* The inductive invariant *)

LEMMA GapInvSend ==
  ASSUME IndInv, NEW m \in Sends, SendStep(m) \/ AbortSend(m)
  PROVE  GapInv'
<1>1. UNCHANGED readVars
  BY SendFrame DEF IndInv
<1>2. ASSUME NEW d \in Ends, reader'[Peer[d]] # "stopped" PROVE NoGapOnWire(d)' /\ NoGapAtEnd(d)'
  <2>1. NoGapOnWire(d) /\ NoGapAtEnd(d)
    BY <1>1, <1>2 DEF IndInv, GapInv, readVars
  <2> QED
    BY <2>1, NoGapSend DEF IndInv
<1> QED
  BY <1>2 DEF GapInv

LEMMA GapInvRoute ==
  ASSUME IndInv, NEW q \in Ends, NEW h \in Packet, Taken(q, h), Routed(q, h)
  PROVE  GapInv'
<1>1. ASSUME NEW d \in Ends, reader'[Peer[d]] # "stopped" PROVE NoGapOnWire(d)' /\ NoGapAtEnd(d)'
  <2>1. CASE d = Peer[q]
    BY <2>1, NoGapTaken DEF IndInv
  <2>2. CASE d # Peer[q]
    <3>1. Peer[d] \in Ends /\ Peer[d] # q
      BY <2>2, EndsAssumption
    <3>2. pktToMsg'[Peer[d]] = pktToMsg[Peer[d]] /\ reader'[Peer[d]] = reader[Peer[d]]
      BY <3>1 DEF Routed
    <3>3. wire'[d] = wire[d] /\ Len(wire[d]) \in Nat
      BY <2>2 DEF Taken, IndInv, TypeOK, LinkTypes
    <3>4. SameNursery(d)
      BY <3>2 DEF SameNursery, Holds
    <3>5. ExtendedAt(d)
      BY <3>3 DEF ExtendedAt
    <3>6. SameSends(d)
      BY DEF Routed, SameSends, sendVars, linkVars
    <3>7. NoGapOnWire(d) /\ NoGapAtEnd(d)
      BY <1>1, <3>2 DEF IndInv, GapInv
    <3> QED
      BY <3>4, <3>5, <3>6, <3>7, NoGapOthers
  <2> QED
    BY <2>1, <2>2
<1> QED
  BY <1>1 DEF GapInv

(* Steps that neither send nor route.                                        *)
LEMMA GapInvOther ==
  ASSUME IndInv, UNCHANGED <<sendVars, readWriterLock>>,
         \A d \in Ends : werr'[d] = "none" => werr[d] = "none",
         \A d \in Ends : reader'[Peer[d]] # "stopped" =>
           ExtendedAt(d) /\ SameNursery(d) /\ reader[Peer[d]] # "stopped"
  PROVE  GapInv'
<1>1. ASSUME NEW d \in Ends, reader'[Peer[d]] # "stopped" PROVE NoGapOnWire(d)' /\ NoGapAtEnd(d)'
  <2>1. NoGapOnWire(d) /\ NoGapAtEnd(d) /\ ExtendedAt(d) /\ SameNursery(d)
    BY <1>1 DEF IndInv, GapInv
  <2>2. SameSends(d)
    BY DEF SameSends, sendVars
  <2> QED
    BY <2>1, <2>2, NoGapOthers
<1> QED
  BY <1>1 DEF GapInv

LEMMA IndInvSend ==
  ASSUME IndInv, NEW m \in Sends, SendStep(m) \/ AbortSend(m)
  PROVE  IndInv'
<1> USE DEF IndInv
<1>1. TypeOK'
  BY TypeSend
<1>2. SendInv'
  BY SendInvSend
<1>3. WireInv'
  BY WireInvSend
<1>4. ReadInv'
  BY ReadInvSend
<1>5. GapInv'
  BY GapInvSend
<1> QED
  BY <1>1, <1>2, <1>3, <1>4, <1>5

LEMMA IndInvRead ==
  ASSUME IndInv, NEW q \in Ends, ReaderStep(q) \/ Receive(q)
  PROVE  IndInv'
<1>0. TypeOK /\ SendInv /\ WireInv /\ GapInv /\ ReadInv /\ TypeOK'
  BY TypeRead DEF IndInv
<1>1. CASE RouteSteps(q)
  <2>1. PICK h \in Packet : Taken(q, h) /\ Routed(q, h)
    BY <1>0, <1>1, RouteEffect
  <2>2. SendInv'
    BY <1>0, <2>1, SendInvOther DEF Routed, linkVars
  <2>3. WireInv'
    BY <1>0, <2>1, WireInvTaken DEF Routed
  <2>4. ReadInv'
    BY <1>0, <2>1, ReadInvRoute
  <2>5. GapInv'
    BY <2>1, GapInvRoute
  <2> QED
    BY <1>0, <2>2, <2>3, <2>4, <2>5 DEF IndInv
<1>2. CASE AckBytes(q)
  <2>1. UNCHANGED <<sendVars, linkVars, readWriterLock, incomingmsgno>> /\ Extended
    BY <1>0, <1>2, AckEffect, AckExtends
  <2>2. SendInv'
    BY <1>0, <2>1, SendInvOther DEF linkVars
  <2>3. WireInv'
    BY <1>0, <2>1, WireInvExtended
  <2>4. ReadInv'
    BY <1>0, <1>2, ReadInvAck
  <2>5. ASSUME NEW d \in Ends PROVE SameNursery(d) /\ (reader'[Peer[d]] # "stopped" => reader[Peer[d]] # "stopped")
    <3>1. CASE Peer[d] = q
      <4>1. /\ reader[q] = "ack"
            /\ \A k \in DOMAIN pktToMsg'[q] : k \in DOMAIN pktToMsg[q] /\ pktToMsg'[q][k] = pktToMsg[q][k]
            /\ \A k \in DOMAIN pktToMsg[q] : ~pktToMsg[q][k].err => k \in DOMAIN pktToMsg'[q]
        BY <1>0, <1>2, AckEffect
      <4> QED
        BY <3>1, <4>1 DEF SameNursery, Holds
    <3>2. CASE Peer[d] # q
      <4>1. Peer[d] \in Ends
        BY EndsAssumption
      <4>2. pktToMsg'[Peer[d]] = pktToMsg[Peer[d]] /\ reader'[Peer[d]] = reader[Peer[d]]
        BY <1>0, <1>2, <3>2, <4>1, AckEffect
      <4> QED
        BY <4>2 DEF SameNursery, Holds
    <3> QED
      BY <3>1, <3>2
  <2>6. GapInv'
    BY <2>1, <2>5, GapInvOther DEF linkVars, Extended
  <2> QED
    BY <1>0, <2>2, <2>3, <2>4, <2>6 DEF IndInv
<1>3. CASE RouteError(q) \/ ReadError(q) \/ Receive(q)
  <2>1. /\ UNCHANGED <<sendVars, linkVars, readWriterLock, incomingmsgno, pktToMsg, current>>
        /\ reader[q] # "ack" /\ reader[q] # "stopped"
        /\ \A d \in Ends : d # q => reader'[d] = reader[d]
        /\ RouteError(q) \/ ReadError(q) => reader'[q] = "stopped"
    <3>1. reader \in [Ends -> ReaderPcs]
      BY <1>0 DEF TypeOK, ReadTypes
    <3> QED
      BY <1>3, <3>1 DEF RouteError, ReadError, Receive, StopReading, Misplaced, Arrives
  <2>2. SendInv'
    BY <1>0, <2>1, SendInvOther DEF linkVars
  <2>3. ReadInv'
    BY <1>0, <2>1, ReadInvIdle
  <2>4. CASE RouteError(q)
    <3>1. Incoming(q) # <<>> /\ Consume(q)
      BY <2>4 DEF RouteError, Misplaced, Arrives
    <3>2. PICK h \in Packet : Taken(q, h)
      BY <1>0, <3>1, ConsumeEffect
    <3>3. WireInv'
      BY <1>0, <2>1, <3>2, WireInvTaken
    <3>4. ASSUME NEW d \in Ends, reader'[Peer[d]] # "stopped"
          PROVE  ExtendedAt(d) /\ SameNursery(d) /\ reader[Peer[d]] # "stopped"
      <4>1. Peer[d] \in Ends /\ Peer[d] # q /\ d # Peer[q]
        BY <2>1, <2>4, <3>4, EndsAssumption
      <4>2. wire'[d] = wire[d] /\ Len(wire[d]) \in Nat
        BY <1>0, <3>2, <4>1 DEF Taken, TypeOK, LinkTypes
      <4> QED
        BY <2>1, <3>4, <4>1, <4>2 DEF ExtendedAt, SameNursery, Holds
    <3>5. GapInv'
      BY <2>1, <3>4, GapInvOther DEF linkVars
    <3> QED
      BY <1>0, <2>2, <2>3, <3>3, <3>5 DEF IndInv
  <2>5. CASE ReadError(q) \/ Receive(q)
    <3>1. Extended
      BY <1>0, <2>5, UnchangedExtends DEF ReadError, Receive
    <3>2. WireInv'
      BY <1>0, <2>1, <3>1, WireInvExtended
    <3>3. ASSUME NEW d \in Ends, reader'[Peer[d]] # "stopped"
          PROVE  ExtendedAt(d) /\ SameNursery(d) /\ reader[Peer[d]] # "stopped"
      <4>1. Peer[d] \in Ends
        BY EndsAssumption
      <4> QED
        BY <2>1, <3>1, <3>3, <4>1 DEF Extended, SameNursery, Holds
    <3>4. GapInv'
      BY <2>1, <3>3, GapInvOther DEF linkVars
    <3> QED
      BY <1>0, <2>2, <2>3, <3>2, <3>4 DEF IndInv
  <2> QED
    BY <1>3, <2>4, <2>5
<1> QED
  BY <1>1, <1>2, <1>3 DEF ReaderStep, RouteSteps

LEMMA IndInvLink ==
  ASSUME IndInv, LinkFails \/ \E e \in Ends : Close(e) \/ WriteBreaks(e)
  PROVE  IndInv'
<1>0. TypeOK /\ SendInv /\ WireInv /\ ReadInv /\ TypeOK'
  BY TypeLink DEF IndInv
<1>1. UNCHANGED <<sendVars, readVars, readWriterLock, wire>>
  BY DEF LinkFails, Close, WriteBreaks
<1>2. /\ \A d \in Ends : isClosed[d] => isClosed'[d]
      /\ \A d \in Ends : werr'[d] = "none" => werr[d] = "none"
  BY <1>0 DEF LinkFails, Close, WriteBreaks, TypeOK, LinkTypes
<1>3. SendInv'
  BY <1>0, <1>1, <1>2, SendInvOther
<1>4. Extended
  BY <1>0, <1>1, UnchangedExtends
<1>5. WireInv'
  BY <1>0, <1>1, <1>4, WireInvExtended
<1>6. ReadInv'
  BY <1>0, <1>1 DEF ReadInv, Partial, readVars, sendVars
<1>7. GapInv'
  <2>1. \A d \in Ends : SameNursery(d) /\ reader'[Peer[d]] = reader[Peer[d]]
    BY <1>1 DEF SameNursery, Holds, readVars
  <2> QED
    BY <1>1, <1>2, <1>4, <2>1, GapInvOther DEF Extended
<1> QED
  BY <1>0, <1>3, <1>5, <1>6, <1>7 DEF IndInv

LEMMA IndInvInit == Init => IndInv
<1> SUFFICES ASSUME Init PROVE IndInv
  OBVIOUS
<1>1. TypeOK
  BY TypeInit
<1>2. \A e \in Ends : Len(wire[e]) = 0 /\ Len(sent[e]) = 0 /\ DOMAIN pktToMsg[e] = {}
  BY DEF Init, EmptyMap
<1>3. SendInv
  <2>1. Numbered /\ LockHeld
    BY <1>2, SendsAssumption DEF Init, Numbered, LockHeld
  <2>2. Progress
    BY SendsAssumption DEF Init, Progress, EofPos
  <2> QED
    BY <2>1, <2>2 DEF SendInv
<1>4. WireInv
  BY <1>2 DEF WireInv
<1>5. ReadInv
  BY <1>2 DEF ReadInv
<1>6. GapInv
  BY <1>2 DEF GapInv, NoGapOnWire, NoGapAtEnd, Init
<1> QED
  BY <1>1, <1>3, <1>4, <1>5, <1>6 DEF IndInv

LEMMA IndInvNext == IndInv /\ [Next]_vars => IndInv'
<1> SUFFICES ASSUME IndInv, [Next]_vars PROVE IndInv'
  OBVIOUS
<1>1. CASE UNCHANGED vars
  <2>1. TypeOK'
    BY <1>1, TypeNext DEF IndInv
  <2>2. UNCHANGED <<sendVars, readVars, linkVars, readWriterLock, wire>>
    BY <1>1 DEF vars
  <2>3. SendInv'
    BY <2>2 DEF IndInv, SendInv, Numbered, LockHeld, Progress, sendVars, linkVars
  <2>4. WireInv'
    BY <2>2 DEF IndInv, WireInv, PacketInv, Before, Real, IsFinal, sendVars, linkVars
  <2>5. GapInv'
    BY SMTT(30), <2>2 DEF IndInv, GapInv, NoGapOnWire, NoGapAtEnd, Preceded, Settled, Holds, Real, IsFinal,
                sendVars, readVars, linkVars
  <2>6. ReadInv'
    BY <2>2 DEF IndInv, ReadInv, Partial, sendVars, readVars
  <2> QED
    BY <2>1, <2>3, <2>4, <2>5, <2>6 DEF IndInv
<1>2. CASE \E m \in Sends : SendStep(m) \/ AbortSend(m)
  BY <1>2, IndInvSend
<1>3. CASE \E e \in Ends : ReaderStep(e) \/ Receive(e)
  BY <1>3, IndInvRead
<1>4. CASE LinkFails \/ \E e \in Ends : Close(e) \/ WriteBreaks(e)
  BY <1>4, IndInvLink
<1> QED
  BY <1>1, <1>2, <1>3, <1>4 DEF Next

(* packetReader never assembles two messages at once, and what it has        *)
(* assembled is a prefix of what Send was given, whatever Send calls run at  *)
(* either end, whatever is abandoned and however the stream fails.           *)
THEOREM AssemblesOneMessage == Spec => []OneMessageAtATime
<1>1. IndInv => OneMessageAtATime
  BY DEF IndInv, ReadInv, Partial, OneMessageAtATime
<1> QED
  BY <1>1, IndInvInit, IndInvNext, PTL DEF Spec

-----------------------------------------------------------------------------
(* What comes out *)

(* Message number k - 1 of the peer of q came out: whole, and then its Send  *)
(* has written all of it and does not fail; or flagged, which only a foreign *)
(* peer can cause.                                                           *)
Out(q, k, msg) ==
  /\ k <= Len(sent[Peer[q]])
  /\ msg.hdr = sent[Peer[q]][k]
  /\ Intact(msg) => /\ next[msg.hdr] > EofPos(msg.hdr)
                    /\ sendPc[msg.hdr] # "err" /\ ~sawClosed[msg.hdr]
  /\ ~Intact(msg) => Peer[q] \in Foreign

(* Every number the reader has counted came out, waits in hand or is being   *)
(* assembled, in this order.                                                 *)
Counted == \A q \in Ends :
  incomingmsgno[q] = Len(delivered[q]) + Len(hand[q])
                     + IF DOMAIN pktToMsg[q] = {} THEN 0 ELSE 1

OutInv == \A q \in Ends :
  /\ \A k \in 1..Len(delivered[q]) : Out(q, k, delivered[q][k])
  /\ \A k \in 1..Len(hand[q]) : Out(q, Len(delivered[q]) + k, hand[q][k])
  /\ \A n \in DOMAIN pktToMsg[q] : pktToMsg[q][n].err => Peer[q] \in Foreign

OutputInv == Counted /\ OutInv

LEMMA OutKept ==
  ASSUME TypeOK, SendInv, NEW m \in Sends, SendStep(m) \/ AbortSend(m),
         NEW q \in Ends, NEW k \in Nat \ {0}, NEW msg \in Message, Out(q, k, msg)
  PROVE  Out(q, k, msg)'
<1>0. SendTypes /\ SendTypes' /\ Peer[q] \in Ends /\ msg.hdr \in Sends
  BY TypeSend, EndsAssumption DEF TypeOK, Message
<1>1. Len(sent[Peer[q]]) \in Nat /\ Len(sent'[Peer[q]]) \in Nat
  <2>1. sent \in [Ends -> Seq(Sends)] /\ sent' \in [Ends -> Seq(Sends)]
    BY <1>0 DEF SendTypes
  <2>2. sent[Peer[q]] \in Seq(Sends) /\ sent'[Peer[q]] \in Seq(Sends)
    BY <1>0, <2>1
  <2> QED
    BY <2>2
<1>2. k \in 1..Len(sent[Peer[q]]) /\ msg.hdr = sent[Peer[q]][k]
  BY <1>1 DEF Out
<1>3. k <= Len(sent'[Peer[q]]) /\ msg.hdr = sent'[Peer[q]][k]
  <2>1. /\ Len(sent[Peer[q]]) <= Len(sent'[Peer[q]])
        /\ \A i \in 1..Len(sent[Peer[q]]) : sent'[Peer[q]][i] = sent[Peer[q]][i]
    BY <1>0, SendFrame
  <2> QED
    BY <1>1, <1>2, <2>1
<1>4. sendPc[msg.hdr] # "idle"
  BY <1>0, <1>2 DEF SendInv, Numbered
<1>5. CASE Intact(msg)
  <2>1. next[msg.hdr] > EofPos(msg.hdr) /\ sendPc[msg.hdr] # "err" /\ ~sawClosed[msg.hdr]
    BY <1>5 DEF Out
  <2>2. next'[msg.hdr] > EofPos(msg.hdr)
    <3>1. next[msg.hdr] <= next'[msg.hdr]
      BY <1>0, SendFrame
    <3>2. next[msg.hdr] \in Nat /\ next'[msg.hdr] \in Nat /\ EofPos(msg.hdr) \in Nat
      <4>1. next \in [Sends -> Nat] /\ next' \in [Sends -> Nat] /\ NChunks[msg.hdr] \in Nat
        BY <1>0, SendsAssumption DEF SendTypes
      <4> QED
        BY <1>0, <4>1 DEF EofPos
    <3> QED
      BY <2>1, <3>1, <3>2
  <2>3. sendPc'[msg.hdr] # "err" /\ ~sawClosed'[msg.hdr]
    <3>1. CASE msg.hdr # m
      BY <1>0, <2>1, <3>1, SendFrame
    <3>2. CASE msg.hdr = m
      BY <1>4, <2>1, <3>2, SendFrame
    <3> QED
      BY <3>1, <3>2
  <2> QED
    BY <1>3, <1>5, <2>2, <2>3 DEF Out, EofPos
<1>6. CASE ~Intact(msg)
  BY <1>3, <1>6 DEF Out
<1> QED
  BY <1>5, <1>6

LEMMA OutputSend ==
  ASSUME TypeOK, SendInv, OutputInv, NEW m \in Sends, SendStep(m) \/ AbortSend(m)
  PROVE  OutputInv'
<1>0. /\ UNCHANGED <<incomingmsgno, pktToMsg, hand, delivered>>
      /\ delivered \in [Ends -> Seq(Message)] /\ hand \in [Ends -> Seq(Message)]
  BY SendFrame DEF readVars, TypeOK, ReadTypes
<1>1. Counted'
  BY <1>0 DEF OutputInv, Counted
<1>2. ASSUME NEW q \in Ends, NEW k \in 1..Len(delivered[q])
      PROVE  Out(q, k, delivered[q][k])'
  <2>1. PICK msg \in Message : msg = delivered[q][k]
    BY <1>0
  <2>2. Out(q, k, msg) /\ k \in Nat \ {0}
    BY <2>1 DEF OutputInv, OutInv
  <2>3. Out(q, k, msg)'
    BY <2>2, OutKept
  <2> QED
    BY <1>0, <2>1, <2>3
<1>3. ASSUME NEW q \in Ends, NEW k \in 1..Len(hand[q])
      PROVE  Out(q, Len(delivered[q]) + k, hand[q][k])'
  <2>1. PICK msg \in Message : msg = hand[q][k]
    BY <1>0
  <2>2. PICK n \in Nat \ {0} : n = Len(delivered[q]) + k
    <3>1. Len(delivered[q]) \in Nat
      BY <1>0
    <3> QED
      BY <3>1
  <2>3. Out(q, n, msg)
    BY <2>1, <2>2 DEF OutputInv, OutInv
  <2>4. Out(q, n, msg)'
    BY <2>3, OutKept
  <2> QED
    BY <1>0, <2>1, <2>2, <2>4
<1>4. OutInv'
  <2>1. \A q \in Ends : \A n \in DOMAIN pktToMsg'[q] : pktToMsg'[q][n].err => Peer[q] \in Foreign
    BY <1>0 DEF OutputInv, OutInv
  <2> QED
    BY <1>0, <1>2, <1>3, <2>1 DEF OutInv
<1> QED
  BY <1>1, <1>4 DEF OutputInv

(* What the reader's steps do to what has come out.  A message that leaves   *)
(* the nursery is the only one there.                                        *)
LEMMA AloneInNursery ==
  ASSUME TypeOK, ReadInv, NEW q \in Ends, NEW n \in DOMAIN pktToMsg[q]
  PROVE  /\ n \in Nat /\ n + 1 = incomingmsgno[q]
         /\ \A k \in DOMAIN pktToMsg[q] : k = n
<1>1. \A k \in DOMAIN pktToMsg[q] : k \in Nat /\ k + 1 = incomingmsgno[q]
  BY DEF TypeOK, ReadTypes, MapTypes, ReadInv, Partial
<1> QED
  BY <1>1

(* Everything but hand-over leaves alone what came out.                      *)
LEMMA OutputSame ==
  ASSUME OutputInv, UNCHANGED <<sendVars, delivered, hand>>,
         \A q \in Ends : /\ incomingmsgno'[q] = incomingmsgno[q]
                         /\ DOMAIN pktToMsg'[q] = {} <=> DOMAIN pktToMsg[q] = {}
                         /\ \A n \in DOMAIN pktToMsg'[q] : pktToMsg'[q][n].err => Peer[q] \in Foreign
  PROVE  OutputInv'
<1>1. Counted'
  BY DEF OutputInv, Counted
<1>2. \A q \in Ends : \A k, msg : Out(q, k, msg)' <=> Out(q, k, msg)
  BY DEF Out, sendVars, EofPos
<1>3. OutInv'
  <2>1. ASSUME NEW q \in Ends, NEW k \in 1..Len(delivered[q]) PROVE Out(q, k, delivered[q][k])'
    <3>1. PICK msg : msg = delivered[q][k]
      OBVIOUS
    <3>2. Out(q, k, msg)'
      BY <1>2, <3>1 DEF OutputInv, OutInv
    <3> QED
      BY <3>1, <3>2
  <2>2. ASSUME NEW q \in Ends, NEW k \in 1..Len(hand[q])
        PROVE  Out(q, Len(delivered[q]) + k, hand[q][k])'
    <3>1. PICK msg, n : msg = hand[q][k] /\ n = Len(delivered[q]) + k
      OBVIOUS
    <3>2. Out(q, n, msg)'
      BY <1>2, <3>1 DEF OutputInv, OutInv
    <3> QED
      BY <3>1, <3>2
  <2> QED
    BY <2>1, <2>2 DEF OutInv
<1> QED
  BY <1>1, <1>3 DEF OutputInv

(* The reader takes message n, the last one it counted, from the nursery     *)
(* into its hand.                                                            *)
LEMMA OutputHandOver ==
  ASSUME TypeOK, ReadInv, OutputInv, NEW q \in Ends, NEW n \in DOMAIN pktToMsg[q],
         reader[q] # "deliver", HandOver(q, n), Out(q, n + 1, pktToMsg[q][n]),
         UNCHANGED <<sendVars, delivered, incomingmsgno>>
  PROVE  OutputInv'
<1>0. /\ MapTypes /\ hand \in [Ends -> Seq(Message)] /\ delivered \in [Ends -> Seq(Message)]
      /\ incomingmsgno \in [Ends -> Nat] /\ Len(hand[q]) = 0
      /\ \A d \in Ends : Len(delivered[d]) \in Nat
  BY DEF TypeOK, ReadTypes
<1>1. /\ n \in Nat /\ n + 1 = incomingmsgno[q] /\ \A k \in DOMAIN pktToMsg[q] : k = n
  BY AloneInNursery
<1>2. n = Len(delivered[q])
  <2>1. DOMAIN pktToMsg[q] # {}
    OBVIOUS
  <2>2. incomingmsgno[q] = Len(delivered[q]) + Len(hand[q]) + 1
    BY <2>1 DEF OutputInv, Counted
  <2> QED
    BY <1>0, <1>1, <2>2
<1>3. /\ DOMAIN pktToMsg'[q] = DOMAIN pktToMsg[q] \ {n}
      /\ \A k \in DOMAIN pktToMsg'[q] : pktToMsg'[q][k] = pktToMsg[q][k]
      /\ \A d \in Ends : d # q => pktToMsg'[d] = pktToMsg[d]
  BY <1>0, <1>1, UntrackFacts DEF HandOver
<1>4. DOMAIN pktToMsg'[q] = {}
  BY <1>1, <1>3
<1>5. /\ hand'[q] = <<pktToMsg[q][n]>>
      /\ \A d \in Ends : d # q => hand'[d] = hand[d]
  BY <1>0 DEF HandOver
<1>6. Counted'
  <2>1. ASSUME NEW d \in Ends
        PROVE  incomingmsgno'[d] = Len(delivered'[d]) + Len(hand'[d])
                                   + IF DOMAIN pktToMsg'[d] = {} THEN 0 ELSE 1
    <3>1. CASE d = q
      <4>1. Len(hand'[q]) = 1
        BY <1>5
      <4> QED
        BY <1>0, <1>1, <1>2, <1>4, <3>1, <4>1
    <3>2. CASE d # q
      BY <1>3, <1>5, <3>2 DEF OutputInv, Counted
    <3> QED
      BY <3>1, <3>2
  <2> QED
    BY <2>1 DEF Counted
<1>7. \A d \in Ends : \A k, msg : Out(d, k, msg)' <=> Out(d, k, msg)
  BY DEF Out, sendVars, EofPos
<1>8. ASSUME NEW d \in Ends, NEW k \in 1..Len(delivered'[d]) PROVE Out(d, k, delivered[d][k])'
  <2>1. PICK msg : msg = delivered[d][k]
    OBVIOUS
  <2>2. Out(d, k, msg)'
    BY <1>7, <1>8, <2>1 DEF OutputInv, OutInv
  <2> QED
    BY <2>1, <2>2
<1>9. ASSUME NEW d \in Ends, NEW k \in 1..Len(hand'[d])
      PROVE  Out(d, Len(delivered[d]) + k, hand[d][k])'
  <2>1. PICK msg, i : msg = hand'[d][k] /\ i = Len(delivered[d]) + k
    OBVIOUS
  <2>2. Out(d, i, msg)
    <3>1. CASE d = q
      <4>1. k = 1 /\ msg = pktToMsg[q][n]
        BY <1>5, <2>1, <3>1
      <4>2. i = n + 1
        BY <1>2, <2>1, <3>1, <4>1
      <4> QED
        BY <3>1, <4>1, <4>2
    <3>2. CASE d # q
      BY <1>5, <2>1, <3>2 DEF OutputInv, OutInv
    <3> QED
      BY <3>1, <3>2
  <2>3. Out(d, i, msg)'
    BY <1>7, <2>2
  <2> QED
    BY <2>1, <2>3
<1>10. \A d \in Ends : \A k \in DOMAIN pktToMsg'[d] : pktToMsg'[d][k].err => Peer[d] \in Foreign
  BY <1>3, <1>4 DEF OutputInv, OutInv
<1> QED
  BY <1>6, <1>8, <1>9, <1>10 DEF OutputInv, OutInv

(* The steps of the reader.                                                  *)
LEMMA OutputHeader ==
  ASSUME IndInv, OutputInv, NEW q \in Ends, RouteHeader(q)
  PROVE  OutputInv'
<1>0. /\ TypeOK /\ WireInv /\ GapInv /\ ReadInv /\ reader[q] = "read"
      /\ UNCHANGED <<sendVars, delivered, hand>>
  BY DEF IndInv, RouteHeader, Arrives
<1>1. PICK h \in Packet : Taken(q, h) /\ Routed(q, h) /\ h.type = "HEADER"
  <2>1. PICK h \in Packet : Taken(q, h) /\ Routed(q, h)
    BY <1>0, RouteEffect DEF RouteSteps
  <2>2. h = Head(Incoming(q))
    <3>1. Head(Incoming(q)) \in Packet /\ Taken(q, Head(Incoming(q)))
      BY <1>0, ConsumeEffect DEF RouteHeader, Arrives
    <3> QED
      BY <2>1, <3>1 DEF Taken
  <2> QED
    BY <2>1, <2>2 DEF RouteHeader, Arrives
<1>2. h.pos = 0 /\ h.msgNo - 1 \notin DOMAIN pktToMsg[q] /\ h.msgNo = incomingmsgno[q]
  BY <1>0, <1>1, HeadFits DEF PacketInv, Real, Routed
<1>3. DOMAIN pktToMsg[q] = {}
  <2>1. ASSUME NEW n \in DOMAIN pktToMsg[q] PROVE FALSE
    <3>1. n \in Nat /\ n + 1 = incomingmsgno[q]
      BY <1>0, AloneInNursery
    <3> QED
      BY <1>2, <3>1
  <2> QED
    BY <2>1
<1>4. /\ incomingmsgno'[q] = incomingmsgno[q] + 1
      /\ \A k \in DOMAIN pktToMsg'[q] : k = h.msgNo
      /\ h.msgNo \in DOMAIN pktToMsg'[q] /\ pktToMsg'[q][h.msgNo] = NewMessage(h.msg)
      /\ \A d \in Ends : d # q => /\ pktToMsg'[d] = pktToMsg[d]
                                  /\ incomingmsgno'[d] = incomingmsgno[d]
  BY <1>1, <1>2, <1>3 DEF Routed
<1>5. Counted'
  <2>1. ASSUME NEW d \in Ends
        PROVE  incomingmsgno'[d] = Len(delivered'[d]) + Len(hand'[d])
                                   + IF DOMAIN pktToMsg'[d] = {} THEN 0 ELSE 1
    <3>1. CASE d = q
      <4>1. incomingmsgno[q] = Len(delivered[q]) + Len(hand[q]) + 0
        BY <1>3 DEF OutputInv, Counted
      <4>2. Len(delivered[q]) \in Nat /\ Len(hand[q]) \in Nat
        BY <1>0 DEF TypeOK, ReadTypes
      <4>3. DOMAIN pktToMsg'[q] # {}
        BY <1>4
      <4> QED
        <5>1. incomingmsgno[q] = Len(delivered[q]) + Len(hand[q])
          BY <4>1, <4>2
        <5>2. delivered'[q] = delivered[q] /\ hand'[q] = hand[q]
          BY <1>0
        <5> QED
          BY <1>4, <3>1, <4>2, <4>3, <5>1, <5>2
    <3>2. CASE d # q
      BY <1>0, <1>4, <3>2 DEF OutputInv, Counted
    <3> QED
      BY <3>1, <3>2
  <2> QED
    BY <2>1 DEF Counted
<1>6. OutInv'
  <2>1. \A d \in Ends : \A k, msg : Out(d, k, msg)' <=> Out(d, k, msg)
    BY <1>0 DEF Out, sendVars, EofPos
  <2>2. ASSUME NEW d \in Ends, NEW k \in 1..Len(delivered[d]) PROVE Out(d, k, delivered[d][k])'
    <3>1. PICK msg : msg = delivered[d][k]
      OBVIOUS
    <3>2. Out(d, k, msg)'
      BY <2>1, <3>1 DEF OutputInv, OutInv
    <3> QED
      BY <1>0, <3>1, <3>2
  <2>3. ASSUME NEW d \in Ends, NEW k \in 1..Len(hand[d])
        PROVE  Out(d, Len(delivered[d]) + k, hand[d][k])'
    <3>1. PICK msg, n : msg = hand[d][k] /\ n = Len(delivered[d]) + k
      OBVIOUS
    <3>2. Out(d, n, msg)'
      BY <2>1, <3>1 DEF OutputInv, OutInv
    <3> QED
      BY <1>0, <3>1, <3>2
  <2>4. ASSUME NEW d \in Ends, NEW k \in DOMAIN pktToMsg'[d], pktToMsg'[d][k].err
        PROVE  Peer[d] \in Foreign
    BY <1>4, <2>4 DEF NewMessage, OutputInv, OutInv
  <2> QED
    BY <1>0, <2>2, <2>3, <2>4 DEF OutInv
<1> QED
  BY <1>5, <1>6 DEF OutputInv

(* EOF: what is handed over is whole, and its Send has written all of it.    *)
LEMMA OutputEOF ==
  ASSUME IndInv, OutputInv, NEW q \in Ends, RouteEOF(q)
  PROVE  OutputInv'
<1> DEFINE h == Head(Incoming(q))
           n == h.msgNo
<1>0. /\ TypeOK /\ WireInv /\ GapInv /\ ReadInv /\ reader[q] = "read" /\ h.type = "EOF"
      /\ Consume(q) /\ Incoming(q) # <<>>
      /\ n \in DOMAIN pktToMsg[q] /\ HandOver(q, n)
      /\ UNCHANGED <<sendVars, delivered, incomingmsgno>>
  BY DEF IndInv, RouteEOF, Arrives, Tracking
<1>1. h \in Packet /\ Taken(q, h)
  BY <1>0, ConsumeEffect
<1> HIDE DEF h
<1>2. PICK msg \in Message : msg = pktToMsg[q][n]
  BY <1>0 DEF TypeOK, ReadTypes, MapTypes
<1>3. PacketInv(Peer[q], h) /\ (h.pos > 0 => Len(msg.body) + 1 = h.pos)
  BY <1>0, <1>1, <1>2, HeadFits DEF Real
<1>4. /\ h.pos = EofPos(h.msg) /\ sendPc[h.msg] # "err" /\ ~sawClosed[h.msg]
      /\ n < Len(sent[Peer[q]]) /\ h.msg = sent[Peer[q]][n + 1] /\ h.pos < next[h.msg]
  BY <1>0, <1>3 DEF PacketInv
<1>5. msg.hdr = h.msg /\ ~msg.err
  BY <1>0, <1>2, <1>4, NoErrWhileReading DEF ReadInv, Partial
<1>6. \A i \in 1..Len(msg.body) : msg.body[i] = <<msg.hdr, i>>
  BY <1>0, <1>2, <1>5 DEF ReadInv, Partial
<1>7. /\ msg.hdr \in Sends /\ NChunks[msg.hdr] \in Nat /\ h.pos \in Nat /\ n \in Nat
      /\ msg.body \in Seq(Chunk) /\ Len(msg.body) \in Nat
  BY <1>1, SendsAssumption DEF Message, Packet
<1>8. Len(msg.body) = NChunks[msg.hdr]
  <2>1. h.pos = NChunks[msg.hdr] + 1
    BY <1>4, <1>5 DEF EofPos
  <2>2. h.pos > 0
    BY <1>7, <2>1
  <2>3. Len(msg.body) + 1 = h.pos
    BY <1>3, <2>2
  <2> QED
    BY <1>7, <2>1, <2>3
<1>9. Intact(msg)
  <2>1. msg.body = [i \in 1..Len(msg.body) |-> msg.body[i]]
    BY <1>7
  <2> QED
    BY <1>5, <1>6, <1>8, <2>1 DEF Intact, Chunks
<1>10. next[msg.hdr] > EofPos(msg.hdr)
  <2>1. next[msg.hdr] \in Nat /\ EofPos(msg.hdr) \in Nat
    BY <1>0, <1>7 DEF TypeOK, SendTypes, EofPos
  <2> QED
    BY <1>4, <1>5, <1>7, <2>1
<1>11. Out(q, n + 1, msg)
  <2>1. Len(sent[Peer[q]]) \in Nat
    BY <1>0, EndsAssumption DEF TypeOK, SendTypes
  <2>2. n + 1 <= Len(sent[Peer[q]])
    BY <1>4, <1>7, <2>1
  <2> QED
    BY <1>4, <1>5, <1>9, <1>10, <2>2 DEF Out
<1> HIDE DEF n
<1> QED
  BY <1>0, <1>2, <1>11, OutputHandOver

(* ackBytes, and TXERR: what is handed over is flagged.                      *)
LEMMA OutputAck ==
  ASSUME IndInv, OutputInv, NEW q \in Ends, AckBytes(q)
  PROVE  OutputInv'
<1>0. /\ TypeOK /\ ReadInv /\ reader[q] = "ack"
      /\ UNCHANGED <<sendVars, delivered, incomingmsgno>>
  BY DEF IndInv, AckBytes
<1>1. PICK n \in DOMAIN pktToMsg[q] : n = current[q]
  BY <1>0 DEF TypeOK, ReadTypes
<1>2. PICK msg \in Message : msg = pktToMsg[q][n]
  BY <1>0 DEF TypeOK, ReadTypes, MapTypes
<1>3. CASE msg.err
  <2>1. HandOver(q, n)
    BY <1>1, <1>2, <1>3 DEF AckBytes
  <2>2. Out(q, n + 1, msg)
    <3>1. n \in Nat /\ n < Len(sent[Peer[q]]) /\ msg.hdr = sent[Peer[q]][n + 1]
      BY <1>0, <1>2, AloneInNursery DEF ReadInv, Partial
    <3>2. Len(sent[Peer[q]]) \in Nat
      BY <1>0, EndsAssumption DEF TypeOK, SendTypes
    <3>3. n + 1 <= Len(sent[Peer[q]])
      BY <3>1, <3>2
    <3>4. ~Intact(msg) /\ Peer[q] \in Foreign
      BY <1>2, <1>3 DEF Intact, OutputInv, OutInv
    <3> QED
      BY <3>1, <3>3, <3>4 DEF Out
  <2> QED
    BY <1>0, <1>2, <2>1, <2>2, OutputHandOver
<1>4. CASE ~msg.err
  <2>1. UNCHANGED <<pktToMsg, hand>>
    BY <1>1, <1>2, <1>4 DEF AckBytes
  <2> QED
    BY <1>0, <2>1, OutputSame DEF OutputInv, OutInv
<1> QED
  BY <1>3, <1>4

LEMMA OutputRoute ==
  ASSUME IndInv, OutputInv, NEW q \in Ends, RouteData(q) \/ RouteTXERR(q) \/ RouteACK(q)
  PROVE  OutputInv'
<1>0. /\ TypeOK /\ WireInv /\ GapInv /\ ReadInv /\ reader[q] = "read"
      /\ UNCHANGED <<sendVars, delivered, hand>>
  BY DEF IndInv, RouteData, RouteTXERR, RouteACK, Arrives, readVars
<1>1. PICK h \in Packet : Taken(q, h) /\ Routed(q, h)
  BY <1>0, RouteEffect DEF RouteSteps
<1>2. h.type \in {"DATA", "TXERR", "ACK"}
  <2>1. Head(Incoming(q)) \in Packet /\ Taken(q, Head(Incoming(q)))
    BY <1>0, ConsumeEffect DEF RouteData, RouteTXERR, RouteACK, Arrives
  <2>2. h = Head(Incoming(q))
    BY <1>1, <2>1 DEF Taken
  <2> QED
    BY <2>2 DEF RouteData, RouteTXERR, RouteACK, Arrives
<1>3. h.type = "TXERR" => Peer[q] \in Foreign
  BY <1>0, <1>1, HeadFits DEF Real, PacketInv
<1>4. /\ incomingmsgno'[q] = incomingmsgno[q]
      /\ DOMAIN pktToMsg'[q] = DOMAIN pktToMsg[q]
      /\ \A d \in Ends : d # q => /\ pktToMsg'[d] = pktToMsg[d]
                                  /\ incomingmsgno'[d] = incomingmsgno[d]
  BY <1>1, <1>2 DEF Routed
<1>5. ASSUME NEW n \in DOMAIN pktToMsg'[q], pktToMsg'[q][n].err PROVE Peer[q] \in Foreign
  <2>1. CASE pktToMsg'[q][n] = pktToMsg[q][n]
    BY <1>4, <1>5, <2>1 DEF OutputInv, OutInv
  <2>2. CASE n = h.msgNo /\ h.type = "DATA"
    <3>1. PICK msg \in Message : msg = pktToMsg[q][n]
      BY <1>0, <1>4 DEF TypeOK, ReadTypes, MapTypes
    <3>2. pktToMsg'[q][n].err = msg.err
      BY <1>1, <2>2, <3>1 DEF Routed, Write, Message
    <3> QED
      BY <1>4, <1>5, <3>1, <3>2 DEF OutputInv, OutInv
  <2> QED
    BY <1>1, <1>2, <1>3, <2>1, <2>2 DEF Routed
<1>6. ASSUME NEW d \in Ends
      PROVE  /\ incomingmsgno'[d] = incomingmsgno[d]
             /\ DOMAIN pktToMsg'[d] = {} <=> DOMAIN pktToMsg[d] = {}
             /\ \A n \in DOMAIN pktToMsg'[d] : pktToMsg'[d][n].err => Peer[d] \in Foreign
  <2>1. CASE d = q
    BY <1>4, <1>5, <2>1
  <2>2. CASE d # q
    BY <1>4, <2>2 DEF OutputInv, OutInv
  <2> QED
    BY <2>1, <2>2
<1> QED
  BY <1>0, <1>6, OutputSame

(* The owner receives: what was in hand is the last that came out.           *)
LEMMA OutputReceive ==
  ASSUME IndInv, OutputInv, NEW q \in Ends, Receive(q)
  PROVE  OutputInv'
<1>0. /\ TypeOK /\ ReadTypes /\ hand[q] \in Seq(Message) /\ delivered[q] \in Seq(Message)
      /\ Len(hand[q]) = 1 /\ Len(delivered[q]) \in Nat
      /\ UNCHANGED <<sendVars, incomingmsgno, pktToMsg>>
  BY DEF IndInv, Receive, TypeOK, ReadTypes
<1>1. PICK msg \in Message : msg = hand[q][1]
  BY <1>0
<1>2. /\ delivered'[q] = Append(delivered[q], msg) /\ hand'[q] = <<>>
      /\ \A d \in Ends : d # q => delivered'[d] = delivered[d] /\ hand'[d] = hand[d]
  BY <1>0, <1>1 DEF Receive, ReadTypes
<1>3. /\ Len(delivered'[q]) = Len(delivered[q]) + 1
      /\ \A k \in 1..Len(delivered[q]) : delivered'[q][k] = delivered[q][k]
      /\ delivered'[q][Len(delivered[q]) + 1] = msg
      /\ Len(hand'[q]) = 0
  BY <1>0, <1>1, <1>2, AppendFacts
<1>4. Counted'
  <2>1. ASSUME NEW d \in Ends
        PROVE  incomingmsgno'[d] = Len(delivered'[d]) + Len(hand'[d])
                                   + IF DOMAIN pktToMsg'[d] = {} THEN 0 ELSE 1
    <3>1. CASE d = q
      <4>1. PICK c \in {0, 1} : c = IF DOMAIN pktToMsg[q] = {} THEN 0 ELSE 1
        OBVIOUS
      <4>2. incomingmsgno[q] = Len(delivered[q]) + Len(hand[q]) + c
        BY <4>1 DEF OutputInv, Counted
      <4>3. incomingmsgno'[q] = Len(delivered'[q]) + Len(hand'[q]) + c
        BY <1>0, <1>3, <4>2
      <4> QED
        BY <1>0, <3>1, <4>1, <4>3
    <3>2. CASE d # q
      BY <1>0, <1>2, <3>2 DEF OutputInv, Counted
    <3> QED
      BY <3>1, <3>2
  <2> QED
    BY <2>1 DEF Counted
<1>5. \A d \in Ends : \A k, w : Out(d, k, w)' <=> Out(d, k, w)
  BY <1>0 DEF Out, sendVars, EofPos
<1>6. ASSUME NEW d \in Ends, NEW k \in 1..Len(delivered'[d]) PROVE Out(d, k, delivered[d][k])'
  <2>1. PICK w : w = delivered'[d][k]
    OBVIOUS
  <2>2. Out(d, k, w)
    <3>1. CASE d = q /\ k = Len(delivered[q]) + 1
      <4>1. Out(q, Len(delivered[q]) + 1, hand[q][1])
        BY <1>0 DEF OutputInv, OutInv
      <4> QED
        BY <1>1, <1>3, <2>1, <3>1, <4>1
    <3>2. CASE k \in 1..Len(delivered[d]) /\ delivered'[d][k] = delivered[d][k]
      BY <2>1, <3>2 DEF OutputInv, OutInv
    <3>3. d # q => delivered'[d] = delivered[d]
      BY <1>2
    <3>4. d = q => k \in 1..Len(delivered[q]) \/ k = Len(delivered[q]) + 1
      BY <1>0, <1>3
    <3> QED
      BY <1>3, <1>6, <3>1, <3>2, <3>3, <3>4
  <2>3. Out(d, k, w)'
    BY <1>5, <2>2
  <2> QED
    BY <2>1, <2>3
<1>7. ASSUME NEW d \in Ends, NEW k \in 1..Len(hand'[d])
      PROVE  Out(d, Len(delivered[d]) + k, hand[d][k])'
  <2>1. d # q
    BY <1>3, <1>7
  <2>2. PICK w, i : w = hand'[d][k] /\ i = Len(delivered'[d]) + k
    OBVIOUS
  <2>3. Out(d, i, w)
    BY <1>2, <1>7, <2>1, <2>2 DEF OutputInv, OutInv
  <2>4. Out(d, i, w)'
    BY <1>5, <2>3
  <2> QED
    BY <2>2, <2>4
<1>8. \A d \in Ends : \A n \in DOMAIN pktToMsg'[d] : pktToMsg'[d][n].err => Peer[d] \in Foreign
  BY <1>0 DEF OutputInv, OutInv
<1> QED
  BY <1>4, <1>6, <1>7, <1>8 DEF OutputInv, OutInv

LEMMA OutputInit == Init => OutputInv
<1> SUFFICES ASSUME Init PROVE OutputInv
  OBVIOUS
<1>1. \A q \in Ends : /\ Len(delivered[q]) = 0 /\ Len(hand[q]) = 0 /\ incomingmsgno[q] = 0
                      /\ DOMAIN pktToMsg[q] = {}
  BY DEF Init, EmptyMap
<1>2. Counted
  <2>1. ASSUME NEW q \in Ends
        PROVE  incomingmsgno[q] = Len(delivered[q]) + Len(hand[q])
                                  + IF DOMAIN pktToMsg[q] = {} THEN 0 ELSE 1
    <3>1. /\ Len(delivered[q]) = 0 /\ Len(hand[q]) = 0 /\ incomingmsgno[q] = 0
          /\ DOMAIN pktToMsg[q] = {}
      BY <1>1
    <3> QED
      BY <3>1
  <2> QED
    BY <2>1 DEF Counted
<1>3. OutInv
  BY <1>1 DEF OutInv
<1> QED
  BY <1>2, <1>3 DEF OutputInv

LEMMA OutputNext ==
  ASSUME IndInv, OutputInv, [Next]_vars
  PROVE  OutputInv'
<1>0. TypeOK /\ SendInv
  BY DEF IndInv
<1>1. CASE UNCHANGED <<sendVars, incomingmsgno, pktToMsg, delivered, hand>>
  BY <1>1, OutputSame DEF OutputInv, OutInv
<1>2. ASSUME NEW m \in Sends, SendStep(m) \/ AbortSend(m) PROVE OutputInv'
  BY <1>0, <1>2, OutputSend
<1>3. ASSUME NEW q \in Ends, ReaderStep(q) \/ Receive(q) PROVE OutputInv'
  <2>1. CASE RouteError(q) \/ ReadError(q)
    <3>1. UNCHANGED <<sendVars, incomingmsgno, pktToMsg, delivered, hand>>
      BY <2>1 DEF RouteError, ReadError
    <3> QED
      BY <1>1, <3>1
  <2> QED
    BY <1>3, <2>1, OutputHeader, OutputEOF, OutputAck, OutputRoute, OutputReceive DEF ReaderStep
<1>4. CASE UNCHANGED vars \/ LinkFails \/ \E e \in Ends : Close(e) \/ WriteBreaks(e)
  <2>1. UNCHANGED <<sendVars, readVars>>
    BY <1>4 DEF LinkFails, Close, WriteBreaks, vars
  <2> QED
    BY <1>1, <2>1 DEF readVars
<1> QED
  BY <1>2, <1>3, <1>4 DEF Next

-----------------------------------------------------------------------------
(* The refinement of MessageChannel *)

(* The variables of MessageChannel, as Channel maps them.                    *)
Came(msg) == [msg |-> msg.hdr, whole |-> Intact(msg)]
Received == [e \in Ends |-> [k \in 1..Len(delivered[e]) |-> Came(delivered[e][k])]]
Result == [m \in Sends |-> IF sendPc[m] \in {"ok", "err"} THEN sendPc[m] ELSE "pending"]

LEMMA ChannelInit == Init => Channel!Init
<1> SUFFICES ASSUME Init PROVE Channel!Init
  OBVIOUS
<1>1. Received = [e \in Ends |-> <<>>]
  <2>1. \A e \in Ends : Len(delivered[e]) = 0
    BY DEF Init
  <2>2. ASSUME NEW e \in Ends PROVE [k \in 1..Len(delivered[e]) |-> Came(delivered[e][k])] = <<>>
    BY <2>1
  <2> QED
    BY <2>2 DEF Received
<1>2. Result = [m \in Sends |-> "pending"]
  BY DEF Init, Result
<1>3. sent = [e \in Ends |-> <<>>]
  BY DEF Init
<1> QED
  BY <1>1, <1>2, <1>3 DEF Channel!Init, Received, Result, Came

(* Entering Send is Accept.                                                  *)
LEMMA SendAccepts ==
  ASSUME TypeOK, SendInv, NEW m \in Sends, Send(m)
  PROVE  Channel!Accept(m)
<1>0. SendTypes /\ Sender[m] \in Ends /\ sendPc[m] = "idle" /\ sendPc' = [sendPc EXCEPT ![m] = "sending"]
      /\ UNCHANGED delivered /\ sent' = [sent EXCEPT ![Sender[m]] = Append(@, m)]
  BY SendsAssumption DEF TypeOK, Send, readVars
<1>1. Result[m] = "pending" /\ Result' = Result
  BY <1>0 DEF Result, SendTypes
<1>2. Received' = Received
  BY <1>0 DEF Received
<1>3. \A k \in 1..Len(sent[Sender[m]]) : sent[Sender[m]][k] # m
  BY <1>0 DEF SendInv, Numbered
<1> QED
  BY <1>0, <1>1, <1>2, <1>3 DEF Channel!Accept, Received, Result, Came

(* What arrived whole was completely written, by a Send that does not fail.  *)
LEMMA ArrivedMeansWritten ==
  ASSUME TypeOK, OutputInv, NEW m \in Sends, Channel!Arrived(Peer[Sender[m]], m)
  PROVE  next[m] > EofPos(m) /\ ~sawClosed[m]
         /\ \E k \in 1..Len(sent[Sender[m]]) : sent[Sender[m]][k] = m
<1> DEFINE q == Peer[Sender[m]]
<1>0. q \in Ends /\ Peer[q] = Sender[m] /\ Sender[m] \in Ends
  BY SendsAssumption, EndsAssumption
<1> HIDE DEF q
<1>1. PICK k \in 1..Len(Received[q]) : Received[q][k] = [msg |-> m, whole |-> TRUE]
  BY DEF Channel!Arrived, Received, Came, q
<1>2. Len(delivered[q]) \in Nat
  BY <1>0 DEF TypeOK, ReadTypes
<1>3. Len(Received[q]) = Len(delivered[q])
  BY <1>0, <1>2 DEF Received
<1>4. k \in 1..Len(delivered[q]) /\ Came(delivered[q][k]) = [msg |-> m, whole |-> TRUE]
  BY <1>0, <1>1, <1>3 DEF Received
<1>5. PICK msg : msg = delivered[q][k]
  OBVIOUS
<1>6. msg.hdr = m /\ Intact(msg) = TRUE
  BY <1>4, <1>5 DEF Came
<1>7. Out(q, k, msg)
  BY <1>0, <1>4, <1>5 DEF OutputInv, OutInv
<1>8. Len(sent[Sender[m]]) \in Nat
  BY <1>0 DEF TypeOK, SendTypes
<1>9. next[m] > EofPos(m) /\ ~sawClosed[m]
  BY <1>6, <1>7 DEF Out
<1>10. k \in 1..Len(sent[Sender[m]]) /\ sent[Sender[m]][k] = m
  <2>1. k <= Len(sent[Sender[m]]) /\ sent[Sender[m]][k] = m
    BY <1>0, <1>6, <1>7 DEF Out
  <2> QED
    BY <1>2, <1>4, <1>8, <2>1
<1> QED
  BY <1>9, <1>10

(* Every way out of Send is Return.                                          *)
LEMMA ReturnsMap ==
  ASSUME IndInv, OutputInv, NEW m \in Sends,
         SendUnnumbered(m) \/ WriteGiveUp(m) \/ SendReturn(m) \/ AbortSend(m)
  PROVE  Channel!Return(m, "ok") \/ Channel!Return(m, "err")
<1>0. TypeOK /\ SendInv /\ SendTypes /\ Sender[m] \in Ends /\ EofPos(m) \in Nat /\ next[m] \in Nat
  <2>1. TypeOK /\ SendInv /\ SendTypes
    BY DEF IndInv, TypeOK
  <2>2. Sender[m] \in Ends /\ NChunks[m] \in Nat
    BY SendsAssumption
  <2>3. EofPos(m) \in Nat
    BY <2>2 DEF EofPos
  <2>4. next[m] \in Nat
    BY <2>1 DEF SendTypes
  <2> QED
    BY <2>1, <2>2, <2>3, <2>4
<1>1. /\ sendPc[m] \in {"idle", "sending"} /\ UNCHANGED <<sent, delivered>>
      /\ \E r \in {"ok", "err"} : sendPc' = [sendPc EXCEPT ![m] = r]
  BY DEF SendUnnumbered, WriteGiveUp, SendReturn, AbortSend, Writing, Return, readVars
<1>2. PICK r \in {"ok", "err"} : sendPc' = [sendPc EXCEPT ![m] = r]
  BY <1>1
<1>3. Result[m] = "pending" /\ Result' = [Result EXCEPT ![m] = r]
  BY <1>0, <1>1, <1>2 DEF Result, SendTypes
<1>4. Received' = Received
  BY <1>1 DEF Received
<1>5. CASE r = "ok"
  <2>1. sendPc[m] = "sending"
    <3>1. sendPc'[m] = "ok"
      BY <1>0, <1>2, <1>5 DEF SendTypes
    <3> QED
      BY <1>0, <3>1 DEF SendUnnumbered, WriteGiveUp, SendReturn, AbortSend, Writing, Return, SendTypes
  <2>2. \E k \in 1..Len(sent[Sender[m]]) : sent[Sender[m]][k] = m
    <3>1. msgno[m] \in Nat /\ Len(sent[Sender[m]]) \in Nat
      BY <1>0 DEF SendTypes
    <3>2. msgno[m] + 1 = Len(sent[Sender[m]]) /\ sent[Sender[m]][msgno[m] + 1] = m
      BY <1>0, <2>1 DEF SendInv, LockHeld
    <3>3. msgno[m] + 1 \in 1..Len(sent[Sender[m]])
      BY <3>1, <3>2
    <3> QED
      BY <3>2, <3>3
  <2>3. Channel!Return(m, "ok")
    BY <1>1, <1>3, <1>4, <1>5, <2>2 DEF Channel!Return, Received, Result, Came
  <2> QED
    BY <2>3
<1>6. CASE r = "err"
  <2>1. ~(/\ next[m] > EofPos(m) /\ ~sawClosed[m]
          /\ \E k \in 1..Len(sent[Sender[m]]) : sent[Sender[m]][k] = m)
    <3>1. CASE SendUnnumbered(m)
      BY <1>0, <3>1 DEF SendUnnumbered, SendInv, Numbered
    <3>2. CASE WriteGiveUp(m) \/ AbortSend(m)
      BY <1>0, <3>2 DEF WriteGiveUp, AbortSend, Writing
    <3>3. CASE SendReturn(m)
      <4>1. sendPc'[m] = "err"
        BY <1>0, <1>2, <1>6 DEF SendTypes
      <4> QED
        BY <1>0, <3>3, <4>1 DEF SendReturn, Return, SendTypes
    <3> QED
      BY <3>1, <3>2, <3>3
  <2>2. ~Channel!Arrived(Peer[Sender[m]], m)
    BY <1>0, <2>1, ArrivedMeansWritten
  <2>3. Channel!Return(m, "err")
    BY <1>1, <1>3, <1>4, <1>6, <2>2 DEF Channel!Return, Received, Result, Came
  <2> QED
    BY <2>3
<1> QED
  BY <1>5, <1>6

(* Receiving from msgs is Deliver.                                           *)
LEMMA ReceiveDelivers ==
  ASSUME IndInv, OutputInv, NEW q \in Ends, Receive(q)
  PROVE  \E whole \in BOOLEAN : Channel!Deliver(q, whole)
<1>0. /\ TypeOK /\ ReadTypes /\ SendTypes /\ hand[q] \in Seq(Message) /\ delivered[q] \in Seq(Message)
      /\ Len(hand[q]) = 1 /\ Len(delivered[q]) \in Nat /\ Peer[q] \in Ends
      /\ UNCHANGED <<sent, sendPc>>
  <2>1. TypeOK /\ ReadTypes /\ SendTypes /\ Peer[q] \in Ends
    BY EndsAssumption DEF IndInv, TypeOK
  <2>2. hand[q] \in Seq(Message) /\ delivered[q] \in Seq(Message) /\ Len(hand[q]) = 1
    BY <2>1 DEF Receive, ReadTypes
  <2>3. Len(delivered[q]) \in Nat
    BY <2>2
  <2>4. UNCHANGED <<sent, sendPc>>
    BY DEF Receive, sendVars
  <2> QED
    BY <2>1, <2>2, <2>3, <2>4
<1>1. PICK msg \in Message : msg = hand[q][1]
  BY <1>0
<1>2. PICK whole \in BOOLEAN : whole = Intact(msg)
  BY DEF Intact
<1>3. /\ delivered'[q] = Append(delivered[q], msg)
      /\ \A d \in Ends : d # q => delivered'[d] = delivered[d]
  BY <1>0, <1>1 DEF Receive, ReadTypes
<1>4. /\ Len(delivered'[q]) = Len(delivered[q]) + 1
      /\ \A k \in 1..Len(delivered[q]) : delivered'[q][k] = delivered[q][k]
      /\ delivered'[q][Len(delivered[q]) + 1] = msg
  BY <1>0, <1>1, <1>3, AppendFacts
<1>5. Out(q, Len(delivered[q]) + 1, msg)
  BY <1>0, <1>1 DEF OutputInv, OutInv
<1>6. Result' = Result
  BY <1>0 DEF Result
<1>7. Len(Received[q]) = Len(delivered[q])
  BY <1>0 DEF Received
<1>8. /\ Len(Received[q]) < Len(sent[Peer[q]])
      /\ sent[Peer[q]][Len(Received[q]) + 1] = msg.hdr
  <2>1. Len(sent[Peer[q]]) \in Nat
    BY <1>0 DEF SendTypes
  <2> QED
    BY <1>0, <1>5, <1>7, <2>1 DEF Out
<1>9. /\ whole => Result[msg.hdr] # "err"
      /\ ~whole => Peer[q] \in Foreign
  <2>1. msg.hdr \in Sends
    BY DEF Message
  <2> QED
    BY <1>2, <1>5, <2>1 DEF Out, Result
<1>10. Received' = [Received EXCEPT ![q] = Append(@, [msg |-> msg.hdr, whole |-> whole])]
  <2> DEFINE new == [msg |-> msg.hdr, whole |-> whole]
  <2>1. Came(msg) = new
    BY <1>2 DEF Came
  <2> HIDE DEF new
  <2>2. Received'[q] = [k \in 1..(Len(delivered[q]) + 1) |-> Came(delivered'[q][k])]
    BY <1>4 DEF Received
  <2>3. Append(Received[q], new) = [k \in 1..(Len(delivered[q]) + 1) |->
                                     IF k = Len(delivered[q]) + 1 THEN new ELSE Received[q][k]]
    <3> DEFINE S == [msg : Sends, whole : BOOLEAN]
    <3>1. Received[q] \in Seq(S) /\ new \in S
      <4>1. \A w \in Message : Came(w) \in S
        BY DEF Came, Message, Intact
      <4>2. new \in S
        BY <2>1, <4>1
      <4>3. \A k \in 1..Len(delivered[q]) : Came(delivered[q][k]) \in S
        BY <1>0, <4>1
      <4>4. Received[q] = [k \in 1..Len(delivered[q]) |-> Came(delivered[q][k])]
        BY DEF Received
      <4> HIDE DEF S
      <4> QED
        BY <1>0, <4>2, <4>3, <4>4
    <3> HIDE DEF S
    <3>2. PICK s : s = Append(Received[q], new)
      OBVIOUS
    <3>3. /\ s \in Seq(S) /\ Len(s) = Len(delivered[q]) + 1
          /\ \A k \in 1..Len(delivered[q]) : s[k] = Received[q][k]
          /\ s[Len(delivered[q]) + 1] = new
      BY <1>7, <3>1, <3>2, AppendFacts
    <3>4. s = [k \in 1..(Len(delivered[q]) + 1) |-> s[k]]
      BY <3>3
    <3>5. \A k \in 1..(Len(delivered[q]) + 1) :
            s[k] = IF k = Len(delivered[q]) + 1 THEN new ELSE Received[q][k]
      BY <1>0, <3>3
    <3> QED
      BY <3>2, <3>4, <3>5
  <2>4. ASSUME NEW k \in 1..(Len(delivered[q]) + 1)
        PROVE  Came(delivered'[q][k]) = IF k = Len(delivered[q]) + 1 THEN new ELSE Received[q][k]
    <3>1. CASE k = Len(delivered[q]) + 1
      BY <1>4, <2>1, <3>1
    <3>2. CASE k \in 1..Len(delivered[q])
      BY <1>0, <1>4, <3>2 DEF Received
    <3> QED
      BY <1>0, <3>1, <3>2
  <2>5. Received'[q] = Append(Received[q], new)
    BY <2>2, <2>3, <2>4
  <2>6. \A d \in Ends : d # q => Received'[d] = Received[d]
    BY <1>3 DEF Received
  <2>7. /\ Received' = [d \in Ends |-> Received'[d]]
        /\ Received = [d \in Ends |-> Received[d]]
    BY DEF Received
  <2> QED
    BY <2>5, <2>6, <2>7 DEF new
<1>11. Channel!Deliver(q, whole)
  BY <1>0, <1>6, <1>8, <1>9, <1>10 DEF Channel!Deliver, Received, Result, Came
<1> QED
  BY <1>11

LEMMA ChannelStep ==
  ASSUME IndInv, OutputInv, [Next]_vars
  PROVE  [Channel!Next]_(Channel!channelVars)
<1>0. TypeOK /\ SendInv /\ SendTypes
  BY DEF IndInv, TypeOK
<1>1. CASE UNCHANGED <<sent, delivered, sendPc>>
  <2>1. UNCHANGED <<sent, Received, Result>>
    BY <1>1 DEF Received, Result
  <2> QED
    BY <2>1 DEF Channel!channelVars, Received, Result, Came
<1>2. ASSUME NEW m \in Sends, SendStep(m) \/ AbortSend(m) PROVE [Channel!Next]_(Channel!channelVars)
  <2>1. CASE Send(m)
    BY <1>0, <2>1, SendAccepts DEF Channel!Next
  <2>2. CASE SendUnnumbered(m) \/ WriteGiveUp(m) \/ SendReturn(m) \/ AbortSend(m)
    BY <2>2, ReturnsMap DEF Channel!Next
  <2>3. CASE WritePacket(m) \/ WriteSkipped(m) \/ WriteRetry(m)
    BY <1>1, <2>3 DEF WritePacket, WriteSkipped, WriteRetry, readVars
  <2> QED
    BY <1>2, <2>1, <2>2, <2>3 DEF SendStep
<1>3. ASSUME NEW q \in Ends, Receive(q) PROVE [Channel!Next]_(Channel!channelVars)
  BY <1>3, ReceiveDelivers DEF Channel!Next
<1>4. ASSUME NEW q \in Ends, ReaderStep(q) PROVE [Channel!Next]_(Channel!channelVars)
  <2>1. UNCHANGED <<sent, delivered, sendPc>>
    BY <1>4 DEF ReaderStep, RouteHeader, RouteData, RouteEOF, RouteTXERR, RouteACK, RouteError,
       ReadError, AckBytes, readVars, sendVars
  <2> QED
    BY <1>1, <2>1
<1>5. CASE UNCHANGED vars \/ LinkFails \/ \E e \in Ends : Close(e) \/ WriteBreaks(e)
  <2>1. UNCHANGED <<sent, delivered, sendPc>>
    BY <1>5 DEF LinkFails, Close, WriteBreaks, vars, sendVars, readVars
  <2> QED
    BY <1>1, <2>1
<1> QED
  BY <1>2, <1>3, <1>4, <1>5 DEF Next

(* A connection is a pair of message channels: what msgs.Receive hands over  *)
(* are the messages whose Send took a number, in the order of the numbers,   *)
(* at most once each, whole or flagged with an error, and a Send returns nil *)
(* or an error as MessageChannel lets it.                                    *)
THEOREM ImplementsChannel == Spec => ChannelSpec
<1>1. Spec => [](IndInv /\ OutputInv)
  <2>1. Init => IndInv /\ OutputInv
    BY IndInvInit, OutputInit
  <2>2. IndInv /\ OutputInv /\ [Next]_vars => (IndInv /\ OutputInv)'
    BY IndInvNext, OutputNext
  <2> QED
    BY <2>1, <2>2, PTL DEF Spec
<1>2. IndInv /\ OutputInv /\ [Next]_vars => [Channel!Next]_(Channel!channelVars)
  BY ChannelStep
<1> QED
  BY <1>1, <1>2, ChannelInit, PTL DEF Spec, ChannelSpec, Channel!Spec

-----------------------------------------------------------------------------
(* No number is skipped *)

(* Unless a header was not written because it is malformed, a HEADER carries *)
(* the number the reader expects or follows the HEADER of the number before. *)
WellFormed(e) == \A k \in 1..Len(sent[e]) : sent[e][k] \notin Malformed

IsHeader(e, i, n) == wire[e][i].type = "HEADER" /\ wire[e][i].msgNo + 1 = n

Expected(e, k, n) == n = incomingmsgno[Peer[e]] \/ \E i \in 1..k : IsHeader(e, i, n)

SequenceOnWire(e) ==
  \A j \in 1..Len(wire[e]) : wire[e][j].type = "HEADER" => Expected(e, j - 1, wire[e][j].msgNo)

SequenceAtEnd(e) == werr[e] = "none" =>
  /\ \A m \in Sends : sendPc[m] = "sending" /\ Sender[m] = e =>
       /\ next[m] = 0 => Expected(e, Len(wire[e]), msgno[m])
       /\ next[m] > 0 => Expected(e, Len(wire[e]), msgno[m] + 1)
  /\ readWriterLock[e] = Free => Expected(e, Len(wire[e]), Len(sent[e]))

SequenceInv == \A e \in Ends :
  WellFormed(e) /\ reader[Peer[e]] # "stopped" => SequenceOnWire(e) /\ SequenceAtEnd(e)

(* What is expected stays expected when packets are added behind it.         *)
LEMMA ExpectedGrows ==
  ASSUME NEW e \in Ends, NEW k \in Nat, NEW l \in Nat, k <= l, k <= Len(wire[e]), NEW n,
         Len(wire[e]) \in Nat, \A i \in 1..Len(wire[e]) : wire'[e][i] = wire[e][i],
         incomingmsgno'[Peer[e]] = incomingmsgno[Peer[e]], Expected(e, k, n)
  PROVE  n = incomingmsgno'[Peer[e]] \/ \E i \in 1..l : IsHeader(e, i, n)'
<1>1. CASE n = incomingmsgno[Peer[e]]
  BY <1>1
<1>2. CASE \E i \in 1..k : IsHeader(e, i, n)
  <2>1. PICK i \in 1..k : IsHeader(e, i, n)
    BY <1>2
  <2>2. i \in 1..l /\ i \in 1..Len(wire[e])
    OBVIOUS
  <2>3. IsHeader(e, i, n)'
    BY <2>1, <2>2 DEF IsHeader
  <2> QED
    BY <2>2, <2>3
<1> QED
  BY <1>1, <1>2 DEF Expected

LEMMA OnWireExtended ==
  ASSUME TypeOK, NEW e \in Ends, SequenceOnWire(e),
         Len(wire'[e]) \in Nat, Len(wire[e]) <= Len(wire'[e]),
         \A i \in 1..Len(wire[e]) : wire'[e][i] = wire[e][i],
         incomingmsgno'[Peer[e]] = incomingmsgno[Peer[e]],
         \A j \in 1..Len(wire'[e]) : j > Len(wire[e]) /\ wire'[e][j].type = "HEADER" =>
           Expected(e, Len(wire[e]), wire'[e][j].msgNo)
  PROVE  SequenceOnWire(e)'
<1>0. Len(wire[e]) \in Nat
  BY DEF TypeOK, LinkTypes
<1>1. ASSUME NEW j \in 1..Len(wire'[e]), wire'[e][j].type = "HEADER"
      PROVE  Expected(e, j - 1, wire[e][j].msgNo)'
  <2>1. PICK k \in Nat : k <= j - 1 /\ k <= Len(wire[e]) /\ Expected(e, k, wire'[e][j].msgNo)
    <3>1. CASE j \in 1..Len(wire[e])
      <4>1. Expected(e, j - 1, wire'[e][j].msgNo)
        BY <1>1, <3>1 DEF SequenceOnWire
      <4> QED
        BY <1>0, <3>1, <4>1
    <3>2. CASE j > Len(wire[e])
      BY <1>0, <1>1, <3>2
    <3> QED
      BY <1>0, <3>1, <3>2
  <2>2. PICK l \in Nat : l = j - 1
    OBVIOUS
  <2>3. PICK n : n = wire'[e][j].msgNo
    OBVIOUS
  <2>4. n = incomingmsgno'[Peer[e]] \/ \E i \in 1..l : IsHeader(e, i, n)'
    BY <1>0, <2>1, <2>2, <2>3, ExpectedGrows
  <2> QED
    BY <2>2, <2>3, <2>4 DEF Expected
<1> QED
  BY <1>1 DEF SequenceOnWire

LEMMA AtEndGrows ==
  ASSUME TypeOK, NEW e \in Ends, NEW n, Expected(e, Len(wire[e]), n),
         Len(wire'[e]) \in Nat, Len(wire[e]) <= Len(wire'[e]),
         \A i \in 1..Len(wire[e]) : wire'[e][i] = wire[e][i],
         incomingmsgno'[Peer[e]] = incomingmsgno[Peer[e]]
  PROVE  \A k : k = n => Expected(e, Len(wire[e]), k)'
<1>0. Len(wire[e]) \in Nat
  BY DEF TypeOK, LinkTypes
<1>1. PICK l \in Nat : l = Len(wire'[e])
  OBVIOUS
<1>2. n = incomingmsgno'[Peer[e]] \/ \E i \in 1..l : IsHeader(e, i, n)'
  <2>1. PICK k \in Nat : k = Len(wire[e])
    BY <1>0
  <2>2. Expected(e, k, n) /\ k <= l /\ k <= Len(wire[e])
    BY <1>0, <1>1, <2>1
  <2> QED
    BY <1>0, <1>1, <2>2, ExpectedGrows
<1> QED
  BY <1>1, <1>2 DEF Expected

(* Steps that neither send nor take a packet of e.                           *)
SendersKept(e) == \A x \in Sends : Sender[x] = e /\ sendPc'[x] = "sending" =>
  sendPc[x] = "sending" /\ msgno'[x] = msgno[x] /\ next'[x] = next[x]

LEMMA SequenceSame ==
  ASSUME TypeOK, SequenceInv, NEW e \in Ends, WellFormed(e), reader[Peer[e]] # "stopped",
         ExtendedAt(e), incomingmsgno'[Peer[e]] = incomingmsgno[Peer[e]],
         werr'[e] = "none" => /\ werr[e] = "none" /\ SendersKept(e)
                              /\ readWriterLock'[e] = Free =>
                                   readWriterLock[e] = Free /\ Len(sent'[e]) = Len(sent[e])
  PROVE  SequenceOnWire(e)' /\ SequenceAtEnd(e)'
<1>0. /\ Len(wire'[e]) \in Nat /\ Len(wire[e]) <= Len(wire'[e])
      /\ \A i \in 1..Len(wire[e]) : wire'[e][i] = wire[e][i]
      /\ \A j \in 1..Len(wire'[e]) : j > Len(wire[e]) => wire'[e][j].type # "HEADER"
  BY DEF ExtendedAt
<1>1. SequenceOnWire(e) /\ SequenceAtEnd(e)
  BY DEF SequenceInv
<1>2. SequenceOnWire(e)'
  BY <1>0, <1>1, OnWireExtended
<1>3. ASSUME NEW n, Expected(e, Len(wire[e]), n) PROVE \A k : k = n => Expected(e, Len(wire[e]), k)'
  BY <1>0, <1>3, AtEndGrows
<1>4. ASSUME werr'[e] = "none", NEW m \in Sends, sendPc'[m] = "sending", Sender[m] = e
      PROVE  /\ next'[m] = 0 => Expected(e, Len(wire[e]), msgno[m])'
             /\ next'[m] > 0 => Expected(e, Len(wire[e]), msgno[m] + 1)'
  BY <1>1, <1>3, <1>4 DEF SequenceAtEnd, SendersKept
<1>5. ASSUME werr'[e] = "none", readWriterLock'[e] = Free
      PROVE  Expected(e, Len(wire[e]), Len(sent[e]))'
  BY <1>1, <1>3, <1>5 DEF SequenceAtEnd
<1>6. SequenceAtEnd(e)'
  BY <1>4, <1>5 DEF SequenceAtEnd
<1> QED
  BY <1>2, <1>6
(* Send takes a number: the next one, and the lock was free.                 *)
LEMMA SequenceEnter ==
  ASSUME IndInv, SequenceInv, NEW m \in Sends, Send(m), WellFormed(Sender[m]),
         reader[Peer[Sender[m]]] # "stopped"
  PROVE  SequenceOnWire(Sender[m])' /\ SequenceAtEnd(Sender[m])'
<1>0. TypeOK /\ SendInv
  BY DEF IndInv
<1>1. PICK e \in Ends : e = Sender[m]
  BY SendsAssumption
<1>2. /\ sendPc[m] = "idle" /\ readWriterLock[e] = Free /\ readWriterLock'[e] = m
      /\ \A x \in Sends : x # m => sendPc'[x] = sendPc[x]
      /\ msgno'[m] = outgoingmsgno[e]
      /\ UNCHANGED <<wire, incomingmsgno, next, werr>>
  BY <1>0, <1>1, SendEffect DEF readVars, linkVars
<1>3. next'[m] = 0 /\ msgno'[m] = Len(sent[e])
  BY <1>0, <1>1, <1>2 DEF SendInv, Progress, Numbered
<1>4. \A x \in Sends : Sender[x] = e => sendPc[x] # "sending"
  BY <1>0, <1>2, SendsAssumption DEF SendInv, LockHeld
<1>5. SequenceOnWire(e) /\ SequenceAtEnd(e)
  BY <1>1 DEF SequenceInv
<1>6. \A k, n : Expected(e, k, n)' <=> Expected(e, k, n)
  BY <1>2 DEF Expected, IsHeader
<1>7. SequenceOnWire(e)'
  BY <1>2, <1>5, <1>6 DEF SequenceOnWire
<1>8. ASSUME werr'[e] = "none", NEW x \in Sends, sendPc'[x] = "sending", Sender[x] = e
      PROVE  /\ next'[x] = 0 => Expected(e, Len(wire[e]), msgno[x])'
             /\ next'[x] > 0 => Expected(e, Len(wire[e]), msgno[x] + 1)'
  <2>1. x = m
    BY <1>2, <1>4, <1>8
  <2>2. PICK n : n = Len(sent[e])
    OBVIOUS
  <2>3. Expected(e, Len(wire[e]), n)
    BY <1>2, <1>5, <1>8, <2>2 DEF SequenceAtEnd
  <2>4. PICK k : k = Len(wire[e])
    OBVIOUS
  <2>5. Expected(e, k, n)'
    BY <1>6, <2>3, <2>4
  <2>6. n = msgno'[m] /\ k = Len(wire'[e])
    BY <1>2, <1>3, <2>2, <2>4
  <2>7. next'[x] = 0
    BY <1>3, <2>1
  <2> QED
    BY <2>1, <2>5, <2>6, <2>7
<1>9. readWriterLock'[e] # Free
  BY <1>2, SendsAssumption
<1>10. SequenceAtEnd(e)'
  BY <1>8, <1>9 DEF SequenceAtEnd
<1> QED
  BY <1>1, <1>7, <1>10

(* A packet is written, or the Send ends with all of them written or is      *)
(* abandoned: the number of the next HEADER is the one expected.             *)
LEMMA SequenceWrite ==
  ASSUME IndInv, SequenceInv, NEW m \in Sends, WritePacket(m) \/ AbortSend(m) \/ SendReturn(m),
         WellFormed(Sender[m]), reader[Peer[Sender[m]]] # "stopped"
  PROVE  SequenceOnWire(Sender[m])' /\ SequenceAtEnd(Sender[m])'
<1>0. TypeOK /\ SendInv /\ SendTypes
  BY DEF IndInv, TypeOK
<1>1. PICK e \in Ends : e = Sender[m]
  BY SendsAssumption
<1>2. /\ sendPc[m] = "sending" /\ UNCHANGED <<incomingmsgno, sent, msgno, werr>>
      /\ sent' = sent
  BY DEF WritePacket, AbortSend, SendReturn, Writing, readVars, linkVars
<1>3. /\ next[m] \in Nat /\ msgno[m] \in Nat /\ EofPos(m) \in Nat \ {0}
      /\ msgno[m] + 1 = Len(sent[e])
  <2>1. next[m] \in Nat /\ msgno[m] \in Nat /\ NChunks[m] \in Nat
    BY <1>0, SendsAssumption DEF SendTypes
  <2>2. msgno[m] + 1 = Len(sent[e])
    BY <1>0, <1>1, <1>2 DEF SendInv, LockHeld
  <2> QED
    BY <2>1, <2>2 DEF EofPos
<1>4. Len(wire[e]) \in Nat
  BY <1>0 DEF TypeOK, LinkTypes
<1>5. SequenceOnWire(e) /\ SequenceAtEnd(e)
  BY <1>1 DEF SequenceInv
(* What is added, if anything, and what is expected next. *)
<1>6. /\ Len(wire'[e]) \in Nat /\ Len(wire[e]) <= Len(wire'[e])
      /\ \A i \in 1..Len(wire[e]) : wire'[e][i] = wire[e][i]
      /\ \A j \in 1..Len(wire'[e]) : j > Len(wire[e]) /\ wire'[e][j].type = "HEADER" =>
           werr[e] = "none" /\ next[m] = 0 /\ wire'[e][j].msgNo = msgno[m]
      /\ next[m] = 0 => /\ Len(wire'[e]) = Len(wire[e]) + 1 /\ next'[m] = 1
                        /\ wire'[e][Len(wire'[e])].type = "HEADER"
                        /\ wire'[e][Len(wire'[e])].msgNo = msgno[m]
      /\ next'[m] > 0
  <2>1. CASE SendReturn(m)
    <3>1. /\ wire' = wire /\ next' = next /\ next[m] > EofPos(m)
          /\ sendPc' = [sendPc EXCEPT ![m] = IF sawClosed[m] THEN "err" ELSE "ok"]
      BY <2>1 DEF SendReturn, Return
    <3>2. sendPc'[m] # "sending" /\ next[m] > 0
      BY <1>0, <1>3, <3>1 DEF SendTypes
    <3> QED
      BY <1>4, <3>1, <3>2
  <2>2. CASE WritePacket(m) \/ AbortSend(m)
    <3>1. PICK p \in Packet : Written(m, p)
      BY <1>0, <2>2, WriteEffect
    <3>2. /\ Len(wire'[e]) = Len(wire[e]) + 1
          /\ \A i \in 1..Len(wire[e]) : wire'[e][i] = wire[e][i]
          /\ wire'[e][Len(wire[e]) + 1] = p
          /\ p.msgNo = msgno[m] /\ werr[e] = "none"
      BY <1>1, <3>1 DEF Written
    <3>3. \/ /\ next[m] = 0 /\ p.type = "HEADER" /\ next'[m] = 1
          \/ next[m] > 0 /\ p.type # "HEADER" /\ next'[m] > 0
      BY <1>3, <3>1 DEF Written, PacketAt
    <3>4. \A j \in 1..Len(wire'[e]) : j > Len(wire[e]) => j = Len(wire[e]) + 1
      BY <1>4, <3>2
    <3> QED
      BY <1>4, <3>2, <3>3, <3>4
  <2> QED
    BY <2>1, <2>2
<1>7. \A x \in Sends : sendPc[x] = "sending" /\ Sender[x] = e => x = m
  BY <1>0, <1>1, <1>2, OnlySender
<1>8. SequenceOnWire(e)'
  <2>1. ASSUME NEW j \in 1..Len(wire'[e]), j > Len(wire[e]), wire'[e][j].type = "HEADER"
        PROVE  Expected(e, Len(wire[e]), wire'[e][j].msgNo)
    BY <1>1, <1>2, <1>5, <1>6, <2>1 DEF SequenceAtEnd
  <2> QED
    BY <1>0, <1>2, <1>5, <1>6, <2>1, OnWireExtended
<1>9. werr[e] = "none" => \A n : n = msgno[m] + 1 => Expected(e, Len(wire[e]), n)'
  <2> SUFFICES ASSUME werr[e] = "none", NEW n, n = msgno[m] + 1 PROVE Expected(e, Len(wire[e]), n)'
    OBVIOUS
  <2>1. CASE next[m] = 0
    <3>1. PICK l \in Nat \ {0} : l = Len(wire'[e]) /\ IsHeader(e, l, n)'
      BY <1>4, <1>6, <2>1 DEF IsHeader
    <3> QED
      BY <3>1 DEF Expected
  <2>2. CASE next[m] > 0
    <3>1. Expected(e, Len(wire[e]), n)
      BY <1>1, <1>2, <1>5, <2>2 DEF SequenceAtEnd
    <3> QED
      BY <1>0, <1>2, <1>6, <3>1, AtEndGrows
  <2> QED
    BY <1>3, <2>1, <2>2
<1>10. ASSUME werr'[e] = "none", NEW x \in Sends, sendPc'[x] = "sending", Sender[x] = e
       PROVE  /\ next'[x] = 0 => Expected(e, Len(wire[e]), msgno[x])'
              /\ next'[x] > 0 => Expected(e, Len(wire[e]), msgno[x] + 1)'
  <2>1. x = m
    <3>1. \A y \in Sends : y # m => sendPc'[y] = sendPc[y]
      BY <1>0, SendFrame DEF SendStep
    <3> QED
      BY <1>7, <1>10, <3>1
  <2>2. msgno'[x] + 1 = msgno[m] + 1 /\ werr[e] = "none"
    BY <1>2, <1>10, <2>1
  <2>3. PICK n : n = msgno'[x] + 1
    OBVIOUS
  <2>4. Expected(e, Len(wire[e]), n)'
    BY <1>9, <2>2, <2>3
  <2>5. next'[x] # 0
    BY <1>6, <2>1
  <2> QED
    BY <2>3, <2>4, <2>5
<1>11. ASSUME werr'[e] = "none", readWriterLock'[e] = Free
       PROVE  Expected(e, Len(wire[e]), Len(sent[e]))'
  <2>1. PICK n : n = Len(sent'[e])
    OBVIOUS
  <2>2. n = msgno[m] + 1 /\ werr[e] = "none"
    BY <1>2, <1>3, <1>11, <2>1
  <2>3. Expected(e, Len(wire[e]), n)'
    BY <1>9, <2>2
  <2> QED
    BY <2>1, <2>3
<1>12. SequenceAtEnd(e)'
  BY <1>10, <1>11 DEF SequenceAtEnd
<1> QED
  BY <1>1, <1>8, <1>12

LEMMA SequenceSend ==
  ASSUME IndInv, SequenceInv, NEW m \in Sends, SendStep(m) \/ AbortSend(m)
  PROVE  SequenceInv'
<1>0. TypeOK /\ SendInv /\ SendTypes /\ Sender[m] \in Ends
  BY SendsAssumption DEF IndInv, TypeOK
<1>1. UNCHANGED <<incomingmsgno, reader, werr>>
  BY <1>0, SendFrame DEF readVars, linkVars
<1>2. ASSUME NEW e \in Ends, WellFormed(e)' PROVE WellFormed(e)
  <2>1. /\ Len(sent[e]) <= Len(sent'[e])
        /\ \A k \in 1..Len(sent[e]) : sent'[e][k] = sent[e][k]
    BY <1>0, SendFrame
  <2>2. Len(sent[e]) \in Nat /\ Len(sent'[e]) \in Nat
    <3>1. SendTypes'
      BY <1>0, TypeSend DEF TypeOK
    <3>2. sent[e] \in Seq(Sends) /\ sent'[e] \in Seq(Sends)
      BY <1>0, <3>1 DEF SendTypes
    <3> QED
      BY <3>2
  <2>3. \A k \in 1..Len(sent[e]) : k \in 1..Len(sent'[e])
    BY <2>1, <2>2
  <2> QED
    BY <1>2, <2>1, <2>3 DEF WellFormed
<1>3. ASSUME NEW e \in Ends, WellFormed(e), reader[Peer[e]] # "stopped"
      PROVE  SequenceOnWire(e)' /\ SequenceAtEnd(e)'
  <2>1. CASE e # Sender[m]
    <3>1. wire'[e] = wire[e] /\ sent'[e] = sent[e] /\ readWriterLock'[e] = readWriterLock[e]
      BY <1>0, <2>1 DEF SendStep, Send, SendUnnumbered, WritePacket, WriteSkipped, WriteRetry,
         WriteGiveUp, SendReturn, AbortSend, Return, SendTypes, TypeOK, LinkTypes
    <3>2. SendersKept(e)
      BY <1>0, <2>1, SendFrame DEF SendersKept
    <3>3. ExtendedAt(e)
      <4>1. Len(wire[e]) \in Nat
        BY <1>0 DEF TypeOK, LinkTypes
      <4> QED
        BY <3>1, <4>1 DEF ExtendedAt
    <3> QED
      BY <1>0, <1>1, <1>3, <3>1, <3>2, <3>3, SequenceSame
  <2>2. CASE e = Sender[m]
    <3>1. CASE Send(m)
      BY <1>3, <2>2, <3>1, SequenceEnter
    <3>2. CASE WritePacket(m) \/ AbortSend(m) \/ SendReturn(m)
      BY <1>3, <2>2, <3>2, SequenceWrite
    <3>3. CASE SendUnnumbered(m) \/ WriteSkipped(m) \/ WriteRetry(m) \/ WriteGiveUp(m)
      <4>1. ExtendedAt(e) /\ sent' = sent
        <5>1. wire' = wire /\ sent' = sent
          BY <3>3 DEF SendUnnumbered, WriteSkipped, WriteRetry, WriteGiveUp
        <5>2. Len(wire[e]) \in Nat
          BY <1>0 DEF TypeOK, LinkTypes
        <5> QED
          BY <5>1, <5>2 DEF ExtendedAt
      <4>2. m \notin Malformed \/ ~WriteGiveUp(m)
        <5> SUFFICES ASSUME WriteGiveUp(m) PROVE m \notin Malformed
          OBVIOUS
        <5>1. msgno[m] + 1 = Len(sent[e]) /\ sent[e][msgno[m] + 1] = m /\ msgno[m] \in Nat
          BY <1>0, <2>2 DEF WriteGiveUp, Writing, SendInv, LockHeld, SendTypes
        <5>2. msgno[m] + 1 \in 1..Len(sent[e])
          BY <5>1
        <5> QED
          BY <1>3, <5>1, <5>2 DEF WellFormed
      <4>3. WriteSkipped(m) \/ WriteGiveUp(m) => werr[e] # "none"
        BY <2>2, <4>2 DEF WriteSkipped, WriteGiveUp, WriteFails, Unmarshalable
      <4>4. SendUnnumbered(m) \/ WriteRetry(m) => SendersKept(e) /\ UNCHANGED readWriterLock
        BY <1>0, SendFrame DEF SendersKept, SendUnnumbered, WriteRetry, SendTypes
      <4> QED
        BY <1>0, <1>1, <1>3, <3>3, <4>1, <4>3, <4>4, SequenceSame
    <3> QED
      BY <3>1, <3>2, <3>3 DEF SendStep
  <2> QED
    BY <2>1, <2>2
<1> QED
  BY <1>1, <1>2, <1>3 DEF SequenceInv
(* The reader takes a packet.  Everything behind a HEADER has a higher       *)
(* number, so what it made expected is expected of the reader now.           *)
LEMMA ExpectedTaken ==
  ASSUME TypeOK, NEW q \in Ends, NEW h \in Packet, Taken(q, h), Routed(q, h),
         NEW e \in Ends, e = Peer[q], NEW k \in Nat \ {0}, k <= Len(wire[e]), NEW l \in Nat, l = k - 1,
         NEW n, Expected(e, k, n), h.type = "HEADER" => n # h.msgNo
  PROVE  Expected(e, l, n)'
<1>0. /\ Peer[e] = q /\ Len(wire[e]) \in Nat \ {0} /\ h = wire[e][1]
      /\ \A i \in 1..(Len(wire[e]) - 1) : wire'[e][i] = wire[e][i + 1]
  BY EndsAssumption DEF Taken
<1>1. CASE n = incomingmsgno[q]
  <2>1. h.type # "HEADER"
    BY <1>1 DEF Routed
  <2> QED
    BY <1>0, <1>1, <2>1 DEF Expected, Routed
<1>2. CASE \E i \in 1..k : IsHeader(e, i, n)
  <2>1. PICK i \in 1..k : IsHeader(e, i, n)
    BY <1>2
  <2>2. CASE i = 1
    BY <1>0, <2>1, <2>2 DEF Expected, Routed, IsHeader
  <2>3. CASE i > 1
    <3>1. PICK j \in 1..l : j = i - 1
      BY <2>3
    <3>2. wire'[e][j] = wire[e][i]
      BY <1>0, <3>1
    <3>3. IsHeader(e, j, n)'
      BY <2>1, <3>2 DEF IsHeader
    <3> QED
      BY <3>1, <3>3 DEF Expected
  <2> QED
    BY <2>2, <2>3
<1> QED
  BY <1>0, <1>1, <1>2 DEF Expected

LEMMA SequenceTaken ==
  ASSUME IndInv, SequenceInv, NEW q \in Ends, NEW h \in Packet, Taken(q, h), Routed(q, h),
         WellFormed(Peer[q]), reader[q] # "stopped"
  PROVE  SequenceOnWire(Peer[q])' /\ SequenceAtEnd(Peer[q])'
<1>0. TypeOK /\ SendInv /\ WireInv /\ SendTypes
  BY DEF IndInv, TypeOK
<1>1. PICK e \in Ends : e = Peer[q]
  BY EndsAssumption
<1>2. /\ Peer[e] = q /\ Len(wire[e]) \in Nat \ {0} /\ h = wire[e][1]
      /\ Len(wire'[e]) = Len(wire[e]) - 1
      /\ \A i \in 1..(Len(wire[e]) - 1) : wire'[e][i] = wire[e][i + 1]
  BY <1>1, EndsAssumption DEF Taken
<1>3. UNCHANGED <<sendPc, msgno, next, sent, werr, readWriterLock>>
  BY DEF Routed, sendVars, linkVars
<1>4. SequenceOnWire(e) /\ SequenceAtEnd(e)
  BY <1>1, <1>2 DEF SequenceInv
<1>5. h.type = "HEADER" => PacketInv(e, h)
  BY <1>0, <1>2 DEF WireInv, Real
<1>6. h.msgNo \in Nat /\ Len(sent[e]) \in Nat
  BY <1>0 DEF SendTypes, Packet
<1>7. SequenceOnWire(e)'
  <2>1. ASSUME NEW j \in 1..Len(wire'[e]), wire'[e][j].type = "HEADER"
        PROVE  Expected(e, j - 1, wire[e][j].msgNo)'
    <3>1. PICK k \in 1..Len(wire[e]) : k = j + 1
      BY <1>2
    <3>2. PICK p \in Packet : p = wire[e][k]
      BY <1>0 DEF TypeOK, LinkTypes
    <3>3. wire'[e][j] = p
      BY <1>2, <3>1, <3>2
    <3>4. PICK n \in Nat : n = p.msgNo
      BY DEF Packet
    <3>5. Expected(e, j, n)
      <4>1. Expected(e, k - 1, n)
        BY <1>4, <2>1, <3>2, <3>3, <3>4 DEF SequenceOnWire
      <4> QED
        BY <3>1, <4>1
    <3>6. h.type = "HEADER" => n # h.msgNo
      <4> SUFFICES ASSUME h.type = "HEADER" PROVE n # h.msgNo
        OBVIOUS
      <4>1. Before(h, p) /\ PacketInv(e, p)
        BY <1>0, <1>2, <2>1, <3>1, <3>2, <3>3 DEF WireInv, Real
      <4>2. p.pos = 0
        BY <2>1, <3>3, <4>1 DEF PacketInv
      <4>3. h.pos = 0
        BY <1>5 DEF PacketInv
      <4> QED
        BY <1>6, <3>4, <4>1, <4>2, <4>3 DEF Before
    <3>7. PICK l \in Nat : l = j - 1
      OBVIOUS
    <3>8. j \in Nat \ {0} /\ j <= Len(wire[e])
      BY <1>2
    <3>9. Expected(e, l, n)'
      BY <1>0, <1>1, <3>5, <3>6, <3>7, <3>8, ExpectedTaken
    <3> QED
      BY <3>3, <3>4, <3>7, <3>9
  <2> QED
    BY <2>1 DEF SequenceOnWire
<1>8. ASSUME NEW n, Expected(e, Len(wire[e]), n), h.type = "HEADER" => n # h.msgNo
      PROVE  \A x : x = n => Expected(e, Len(wire[e]), x)'
  <2>1. PICK k \in Nat \ {0} : k = Len(wire[e])
    BY <1>2
  <2>2. PICK l \in Nat : l = k - 1
    OBVIOUS
  <2>3. Expected(e, k, n) /\ k <= Len(wire[e])
    BY <1>2, <1>8, <2>1
  <2>4. Expected(e, l, n)'
    BY <1>0, <1>1, <1>8, <2>2, <2>3, ExpectedTaken
  <2>5. l = Len(wire'[e])
    BY <1>2, <2>1, <2>2
  <2> QED
    BY <2>4, <2>5
<1>9. ASSUME werr'[e] = "none", NEW x \in Sends, sendPc'[x] = "sending", Sender[x] = e
      PROVE  /\ next'[x] = 0 => Expected(e, Len(wire[e]), msgno[x])'
             /\ next'[x] > 0 => Expected(e, Len(wire[e]), msgno[x] + 1)'
  <2>1. /\ msgno[x] \in Nat /\ next[x] \in Nat
        /\ msgno[x] + 1 = Len(sent[e]) /\ sent[e][msgno[x] + 1] = x
    BY <1>0, <1>3, <1>9 DEF SendTypes, SendInv, LockHeld
  <2>2. next[x] = 0 => Expected(e, Len(wire[e]), msgno[x])'
    <3> SUFFICES ASSUME next[x] = 0 PROVE Expected(e, Len(wire[e]), msgno[x])'
      OBVIOUS
    <3>1. Expected(e, Len(wire[e]), msgno[x])
      BY <1>3, <1>4, <1>9 DEF SequenceAtEnd
    <3>2. h.type = "HEADER" => msgno[x] # h.msgNo
      BY <1>5, <2>1 DEF PacketInv
    <3> QED
      BY <1>3, <1>8, <3>1, <3>2
  <2>3. next[x] > 0 => Expected(e, Len(wire[e]), msgno[x] + 1)'
    <3> SUFFICES ASSUME next[x] > 0 PROVE Expected(e, Len(wire[e]), msgno[x] + 1)'
      OBVIOUS
    <3>1. Expected(e, Len(wire[e]), msgno[x] + 1)
      BY <1>3, <1>4, <1>9 DEF SequenceAtEnd
    <3>2. h.type = "HEADER" => msgno[x] + 1 # h.msgNo
      BY <1>5, <1>6, <2>1 DEF PacketInv
    <3> QED
      BY <1>3, <1>8, <3>1, <3>2
  <2> QED
    BY <1>3, <2>2, <2>3
<1>10. ASSUME werr'[e] = "none", readWriterLock'[e] = Free
       PROVE  Expected(e, Len(wire[e]), Len(sent[e]))'
  <2>1. Expected(e, Len(wire[e]), Len(sent[e]))
    BY <1>3, <1>4, <1>10 DEF SequenceAtEnd
  <2>2. h.type = "HEADER" => Len(sent[e]) # h.msgNo
    BY <1>5, <1>6 DEF PacketInv
  <2> QED
    BY <1>3, <1>8, <2>1, <2>2
<1>11. SequenceAtEnd(e)'
  BY <1>9, <1>10 DEF SequenceAtEnd
<1> QED
  BY <1>1, <1>7, <1>11

(* Everybody but Send.                                                       *)
LEMMA SequenceOther ==
  ASSUME IndInv, SequenceInv, UNCHANGED <<sendVars, readWriterLock>>,
         \A e \in Ends : werr'[e] = "none" => werr[e] = "none",
         \A e \in Ends : reader'[Peer[e]] # "stopped" =>
           /\ reader[Peer[e]] # "stopped"
           /\ \/ ExtendedAt(e) /\ incomingmsgno'[Peer[e]] = incomingmsgno[Peer[e]]
              \/ \E h \in Packet : Taken(Peer[e], h) /\ Routed(Peer[e], h)
  PROVE  SequenceInv'
<1>0. TypeOK /\ UNCHANGED <<sent, sendPc, msgno, next>>
  BY DEF IndInv, sendVars
<1> SUFFICES ASSUME NEW e \in Ends, WellFormed(e)', reader'[Peer[e]] # "stopped"
             PROVE  SequenceOnWire(e)' /\ SequenceAtEnd(e)'
  BY DEF SequenceInv
<1>1. WellFormed(e) /\ reader[Peer[e]] # "stopped"
  BY <1>0 DEF WellFormed
<1>2. CASE ExtendedAt(e) /\ incomingmsgno'[Peer[e]] = incomingmsgno[Peer[e]]
  <2>1. SendersKept(e)
    BY <1>0 DEF SendersKept
  <2> QED
    BY <1>0, <1>1, <1>2, <2>1, SequenceSame
<1>3. CASE \E h \in Packet : Taken(Peer[e], h) /\ Routed(Peer[e], h)
  <2>1. PICK q \in Ends : q = Peer[e] /\ e = Peer[q]
    BY EndsAssumption
  <2>2. PICK h \in Packet : Taken(q, h) /\ Routed(q, h)
    BY <1>3, <2>1
  <2>3. WellFormed(Peer[q]) /\ reader[q] # "stopped"
    BY <1>1, <2>1
  <2>4. SequenceOnWire(Peer[q])' /\ SequenceAtEnd(Peer[q])'
    BY <2>2, <2>3, SequenceTaken
  <2> QED
    BY <2>1, <2>4
<1> QED
  BY <1>2, <1>3

LEMMA SequenceRead ==
  ASSUME IndInv, SequenceInv, NEW q \in Ends, ReaderStep(q) \/ Receive(q)
  PROVE  SequenceInv'
<1>0. TypeOK /\ reader \in [Ends -> ReaderPcs] /\ \A d \in Ends : Len(wire[d]) \in Nat
  BY DEF IndInv, TypeOK, ReadTypes, LinkTypes
<1>1. CASE RouteSteps(q)
  <2>1. PICK h \in Packet : Taken(q, h) /\ Routed(q, h)
    BY <1>0, <1>1, RouteEffect
  <2>2. /\ UNCHANGED <<sendVars, readWriterLock, werr>> /\ reader[q] = "read"
        /\ \A d \in Ends : d # q => reader'[d] = reader[d] /\ incomingmsgno'[d] = incomingmsgno[d]
    BY <2>1 DEF Routed, linkVars
  <2>3. ASSUME NEW e \in Ends, reader'[Peer[e]] # "stopped"
        PROVE  /\ reader[Peer[e]] # "stopped"
               /\ \/ ExtendedAt(e) /\ incomingmsgno'[Peer[e]] = incomingmsgno[Peer[e]]
                  \/ \E p \in Packet : Taken(Peer[e], p) /\ Routed(Peer[e], p)
    <3>1. CASE Peer[e] = q
      BY <2>1, <2>2, <3>1
    <3>2. CASE Peer[e] # q
      <4>1. Peer[e] \in Ends /\ e # Peer[q]
        BY <3>2, EndsAssumption
      <4>2. wire'[e] = wire[e]
        BY <2>1, <4>1 DEF Taken
      <4> QED
        BY <1>0, <2>2, <2>3, <3>2, <4>1, <4>2 DEF ExtendedAt
    <3> QED
      BY <3>1, <3>2
  <2> QED
    BY <2>2, <2>3, SequenceOther
<1>2. CASE AckBytes(q) \/ ReadError(q) \/ Receive(q)
  <2>1. Extended
    BY <1>0, <1>2, AckExtends, UnchangedExtends DEF ReadError, Receive
  <2>2. /\ UNCHANGED <<sendVars, readWriterLock, werr, incomingmsgno>> /\ reader[q] # "stopped"
        /\ \A d \in Ends : d # q => reader'[d] = reader[d]
    <3>1. CASE AckBytes(q)
      BY <1>0, <3>1, AckEffect DEF linkVars
    <3>2. CASE ReadError(q) \/ Receive(q)
      BY <1>0, <3>2 DEF ReadError, Receive, StopReading, linkVars
    <3> QED
      BY <1>2, <3>1, <3>2
  <2>3. ASSUME NEW e \in Ends, reader'[Peer[e]] # "stopped" PROVE reader[Peer[e]] # "stopped"
    BY <2>2, <2>3, EndsAssumption
  <2> QED
    BY <2>1, <2>2, <2>3, SequenceOther DEF Extended
<1>3. CASE RouteError(q)
  <2>1. Incoming(q) # <<>> /\ Consume(q)
    BY <1>3 DEF RouteError, Misplaced, Arrives
  <2>2. PICK h \in Packet : Taken(q, h)
    BY <1>0, <2>1, ConsumeEffect
  <2>3. /\ UNCHANGED <<sendVars, readWriterLock, werr, incomingmsgno>>
        /\ reader'[q] = "stopped" /\ \A d \in Ends : d # q => reader'[d] = reader[d]
    BY <1>0, <1>3 DEF RouteError, StopReading, linkVars
  <2>4. ASSUME NEW e \in Ends, reader'[Peer[e]] # "stopped"
        PROVE  reader[Peer[e]] # "stopped" /\ ExtendedAt(e)
    <3>1. Peer[e] \in Ends /\ Peer[e] # q /\ e # Peer[q]
      BY <2>3, <2>4, EndsAssumption
    <3>2. wire'[e] = wire[e]
      BY <2>2, <3>1 DEF Taken
    <3> QED
      BY <1>0, <2>3, <2>4, <3>1, <3>2 DEF ExtendedAt
  <2> QED
    BY <2>3, <2>4, SequenceOther
<1> QED
  BY <1>1, <1>2, <1>3 DEF ReaderStep, RouteSteps

LEMMA SequenceNext ==
  ASSUME IndInv, SequenceInv, [Next]_vars
  PROVE  SequenceInv'
<1>1. CASE \E m \in Sends : SendStep(m) \/ AbortSend(m)
  BY <1>1, SequenceSend
<1>2. CASE \E e \in Ends : ReaderStep(e) \/ Receive(e)
  BY <1>2, SequenceRead
<1>3. CASE UNCHANGED vars \/ LinkFails \/ \E e \in Ends : Close(e) \/ WriteBreaks(e)
  <2>1. UNCHANGED <<sendVars, readVars, readWriterLock, wire>>
    BY <1>3 DEF LinkFails, Close, WriteBreaks, vars
  <2>2. \A d \in Ends : werr'[d] = "none" => werr[d] = "none"
    BY <1>3 DEF LinkFails, Close, WriteBreaks, vars, linkVars, IndInv, TypeOK, LinkTypes
  <2>3. Extended
    BY <2>1, UnchangedExtends DEF IndInv
  <2> QED
    BY <2>1, <2>2, <2>3, SequenceOther DEF Extended, readVars
<1> QED
  BY <1>1, <1>2, <1>3 DEF Next

LEMMA SequenceInit == Init => SequenceInv
<1> SUFFICES ASSUME Init, NEW e \in Ends PROVE SequenceOnWire(e) /\ SequenceAtEnd(e)
  BY DEF SequenceInv
<1>1. /\ Len(wire[e]) = 0 /\ Len(sent[e]) = 0 /\ incomingmsgno[Peer[e]] = 0
      /\ \A m \in Sends : sendPc[m] = "idle"
  BY EndsAssumption DEF Init
<1> QED
  BY <1>1 DEF SequenceOnWire, SequenceAtEnd, Expected

(* routePacket's error returns for a packet out of sequence are reached only  *)
(* when the peer's Send was given a message whose HEADER cannot be encoded.  *)
THEOREM ErrorsNeedMalformed == Spec => []MisplacedOnlyAfterMalformed
<1>1. ASSUME IndInv, SequenceInv, NEW q \in Ends, Misplaced(q)
      PROVE  \E k \in 1..Len(sent[Peer[q]]) : sent[Peer[q]][k] \in Malformed
  <2> SUFFICES ASSUME WellFormed(Peer[q]) PROVE FALSE
    BY DEF WellFormed
  <2>0. TypeOK /\ WireInv /\ GapInv /\ ReadInv
    BY <1>1 DEF IndInv
  <2>1. PICK e \in Ends : e = Peer[q] /\ Peer[e] = q
    BY EndsAssumption
  <2>2. reader[q] = "read" /\ wire[e] # <<>>
    BY <1>1, <2>1 DEF Misplaced, Arrives, Incoming
  <2>3. /\ wire[e] \in Seq(Packet) /\ 1 \in 1..Len(wire[e]) /\ Head(Incoming(q)) = wire[e][1]
    BY <2>0, <2>1, <2>2 DEF TypeOK, LinkTypes, Incoming
  <2>4. PICK h \in Packet : h = wire[e][1]
    BY <2>3
  <2>5. /\ SequenceOnWire(e) /\ NoGapOnWire(e)
    BY <1>1, <2>0, <2>1, <2>2 DEF SequenceInv, GapInv
  <2>6. CASE h.type = "HEADER"
    <3>1. Expected(e, 0, h.msgNo)
      BY <2>3, <2>4, <2>5, <2>6 DEF SequenceOnWire
    <3>2. h.msgNo = incomingmsgno[q]
      BY <2>1, <3>1 DEF Expected
    <3>3. h.msgNo \in DOMAIN pktToMsg[q]
      BY <1>1, <2>3, <2>4, <2>6, <3>2 DEF Misplaced, InSequence, Tracking, Arrives
    <3>4. h.msgNo + 1 = incomingmsgno[q] /\ h.msgNo \in Nat
      BY <1>1, <2>0, <3>3, AloneInNursery
    <3> QED
      BY <3>2, <3>4
  <2>7. CASE h.type \in {"DATA", "EOF", "TXERR"}
    <3>1. PacketInv(e, h) /\ Real(h)
      BY <2>0, <2>3, <2>4, <2>7 DEF WireInv, Real
    <3>2. h.pos > 0
      <4>1. h.msg \in Sends /\ NChunks[h.msg] \in Nat
        BY SendsAssumption DEF Packet
      <4> QED
        BY <2>7, <3>1, <4>1 DEF PacketInv, EofPos
    <3>3. Preceded(e, 0, h.msgNo, h.pos)
      BY <2>3, <2>4, <2>5, <3>1, <3>2 DEF NoGapOnWire
    <3>4. h.msgNo \in DOMAIN pktToMsg[q]
      BY <2>1, <3>3 DEF Preceded, Holds
    <3> QED
      BY <1>1, <2>3, <2>4, <2>7, <3>4 DEF Misplaced, Tracking, Arrives
  <2> QED
    BY <1>1, <2>3, <2>4, <2>6, <2>7 DEF Misplaced, Arrives
<1>2. IndInv /\ SequenceInv => MisplacedOnlyAfterMalformed
  BY <1>1 DEF MisplacedOnlyAfterMalformed
<1>3. Init => IndInv /\ SequenceInv
  BY IndInvInit, SequenceInit
<1>4. IndInv /\ SequenceInv /\ [Next]_vars => (IndInv /\ SequenceInv)'
  BY IndInvNext, SequenceNext
<1> QED
  BY <1>2, <1>3, <1>4, PTL DEF Spec

-----------------------------------------------------------------------------
(* Acknowledgements *)

(* Where the reader of q is in the message that an ACK is about: the ACK it  *)
(* has still to send is about a later packet than all before it.             *)
AckFresh(q, a) ==
  a.msgNo \in DOMAIN pktToMsg[q] =>
    IF reader[q] = "ack" /\ current[q] = a.msgNo
    THEN a.pos < Len(pktToMsg[q][a.msgNo].body)
    ELSE a.pos <= Len(pktToMsg[q][a.msgNo].body)

(* An ACK of q names a message of its peer and a packet that was written.    *)
AckOK(q, a) ==
  /\ a.msgNo < incomingmsgno[q] /\ a.msgNo < Len(sent[Peer[q]])
  /\ a.msg = sent[Peer[q]][a.msgNo + 1]
  /\ a.pos <= next[a.msg]
  /\ AckFresh(q, a)

IsAck(q, i) == wire[q][i].type = "ACK"

AcksGrow(q) == \A i, j \in 1..Len(wire[q]) :
  i < j /\ IsAck(q, i) /\ IsAck(q, j) /\ wire[q][i].msgNo = wire[q][j].msgNo
    => wire[q][i].pos < wire[q][j].pos

BodySent(q) == \A n \in DOMAIN pktToMsg[q] :
  Len(pktToMsg[q][n].body) <= next[pktToMsg[q][n].hdr]

AckInv == \A q \in Ends :
  /\ \A i \in 1..Len(wire[q]) : IsAck(q, i) => AckOK(q, wire[q][i])
  /\ AcksGrow(q)
  /\ BodySent(q)

(* An ACK stays sound when its peer sends and when q reads on in other       *)
(* messages.                                                                 *)
LEMMA AckKept ==
  ASSUME TypeOK, TypeOK', NEW q \in Ends, NEW a \in Packet, AckOK(q, a),
         incomingmsgno[q] <= incomingmsgno'[q],
         Len(sent[Peer[q]]) <= Len(sent'[Peer[q]]),
         \A k \in 1..Len(sent[Peer[q]]) : sent'[Peer[q]][k] = sent[Peer[q]][k],
         \A m \in Sends : next[m] <= next'[m],
         AckFresh(q, a)'
  PROVE  AckOK(q, a)'
<1>1. Peer[q] \in Ends /\ a.msgNo \in Nat /\ a.pos \in Nat /\ a.msg \in Sends
  BY EndsAssumption DEF Packet
<1>2. /\ sent \in [Ends -> Seq(Sends)] /\ sent' \in [Ends -> Seq(Sends)]
      /\ next \in [Sends -> Nat] /\ next' \in [Sends -> Nat]
      /\ incomingmsgno \in [Ends -> Nat] /\ incomingmsgno' \in [Ends -> Nat]
  BY DEF TypeOK, SendTypes, ReadTypes
<1>3. sent[Peer[q]] \in Seq(Sends) /\ sent'[Peer[q]] \in Seq(Sends)
  BY <1>1, <1>2
<1>4. Len(sent[Peer[q]]) \in Nat /\ Len(sent'[Peer[q]]) \in Nat
  BY <1>3
<1>5. a.msgNo < incomingmsgno'[q]
  <2>1. incomingmsgno[q] \in Nat /\ incomingmsgno'[q] \in Nat
    BY <1>2
  <2>2. a.msgNo < incomingmsgno[q]
    BY DEF AckOK
  <2> QED
    BY <1>1, <2>1, <2>2
<1>6. a.msgNo + 1 \in 1..Len(sent[Peer[q]]) /\ a.msg = sent[Peer[q]][a.msgNo + 1]
  BY <1>1, <1>4 DEF AckOK
<1>7. a.msgNo < Len(sent'[Peer[q]]) /\ a.msg = sent'[Peer[q]][a.msgNo + 1]
  BY <1>1, <1>4, <1>6
<1>8. a.pos <= next'[a.msg]
  <2>1. next[a.msg] \in Nat /\ next'[a.msg] \in Nat /\ a.pos <= next[a.msg] /\ next[a.msg] <= next'[a.msg]
    BY <1>1, <1>2 DEF AckOK
  <2> QED
    BY <1>1, <2>1
<1> QED
  BY <1>5, <1>7, <1>8 DEF AckOK

(* The ACKs on the wire of q after a step are among those before it.         *)
LEMMA AcksShift ==
  ASSUME AckInv, NEW q \in Ends, NEW s \in {0, 1},
         \A i \in 1..Len(wire'[q]) :
           IsAck(q, i)' => i + s \in 1..Len(wire[q]) /\ wire'[q][i] = wire[q][i + s]
  PROVE  /\ AcksGrow(q)'
         /\ \A i \in 1..Len(wire'[q]) : IsAck(q, i)' =>
              \E k \in 1..Len(wire[q]) : IsAck(q, k) /\ wire'[q][i] = wire[q][k]
<1>1. ASSUME NEW i \in 1..Len(wire'[q]), IsAck(q, i)'
      PROVE  i + s \in 1..Len(wire[q]) /\ wire'[q][i] = wire[q][i + s] /\ IsAck(q, i + s)
  BY <1>1 DEF IsAck
<1>2. ASSUME NEW i \in 1..Len(wire'[q]), NEW j \in 1..Len(wire'[q]), i < j,
             IsAck(q, i)', IsAck(q, j)', wire'[q][i].msgNo = wire'[q][j].msgNo
      PROVE  wire'[q][i].pos < wire'[q][j].pos
  <2>1. /\ i + s \in 1..Len(wire[q]) /\ wire'[q][i] = wire[q][i + s] /\ IsAck(q, i + s)
        /\ j + s \in 1..Len(wire[q]) /\ wire'[q][j] = wire[q][j + s] /\ IsAck(q, j + s)
        /\ i + s < j + s
    BY <1>1, <1>2
  <2> QED
    BY <1>2, <2>1 DEF AckInv, AcksGrow
<1> QED
  BY <1>1, <1>2 DEF AcksGrow

(* Steps after which every ACK on the wire was there before.                 *)
LEMMA AckInvKept ==
  ASSUME TypeOK, TypeOK', AckInv, NEW q \in Ends, NEW s \in {0, 1},
         \A i \in 1..Len(wire'[q]) :
           IsAck(q, i)' => i + s \in 1..Len(wire[q]) /\ wire'[q][i] = wire[q][i + s],
         incomingmsgno[q] <= incomingmsgno'[q],
         Len(sent[Peer[q]]) <= Len(sent'[Peer[q]]),
         \A k \in 1..Len(sent[Peer[q]]) : sent'[Peer[q]][k] = sent[Peer[q]][k],
         \A m \in Sends : next[m] <= next'[m],
         \A a \in Packet : AckOK(q, a) => AckFresh(q, a)'
  PROVE  AcksGrow(q)' /\ \A i \in 1..Len(wire'[q]) : IsAck(q, i)' => AckOK(q, wire[q][i])'
<1>1. ASSUME NEW i \in 1..Len(wire'[q]), IsAck(q, i)' PROVE AckOK(q, wire[q][i])'
  <2>1. PICK k \in 1..Len(wire[q]) : IsAck(q, k) /\ wire'[q][i] = wire[q][k]
    BY <1>1, AcksShift
  <2>2. PICK a \in Packet : a = wire[q][k]
    BY DEF TypeOK, LinkTypes
  <2>3. AckOK(q, a)
    BY <2>1, <2>2 DEF AckInv
  <2>4. AckOK(q, a)'
    BY <2>3, AckKept
  <2> QED
    BY <2>1, <2>2, <2>4
<1> QED
  BY <1>1, AcksShift

LEMMA AckSend ==
  ASSUME IndInv, IndInv', AckInv, NEW m \in Sends, SendStep(m) \/ AbortSend(m)
  PROVE  AckInv'
<1>0. TypeOK /\ TypeOK' /\ SendInv
  BY DEF IndInv
<1>1. /\ UNCHANGED <<incomingmsgno, pktToMsg, reader, current>>
      /\ \A d \in Ends : /\ Len(sent[d]) <= Len(sent'[d])
                         /\ \A k \in 1..Len(sent[d]) : sent'[d][k] = sent[d][k]
      /\ \A x \in Sends : next[x] <= next'[x]
  BY <1>0, SendFrame DEF readVars
<1>2. ASSUME NEW q \in Ends, NEW i \in 1..Len(wire'[q]), IsAck(q, i)'
      PROVE  i + 0 \in 1..Len(wire[q]) /\ wire'[q][i] = wire[q][i + 0]
  <2>0. Len(wire[q]) \in Nat
    BY <1>0 DEF TypeOK, LinkTypes
  <2>1. CASE UNCHANGED wire
    BY <1>2, <2>0, <2>1
  <2>2. CASE WritePacket(m) \/ AbortSend(m)
    <3>1. PICK p \in Packet : Written(m, p)
      BY <1>0, <2>2, WriteEffect
    <3>2. CASE q = Sender[m]
      <4>1. /\ Len(wire'[q]) = Len(wire[q]) + 1 /\ wire'[q][Len(wire[q]) + 1] = p
            /\ \A k \in 1..Len(wire[q]) : wire'[q][k] = wire[q][k]
            /\ p.type # "ACK"
        BY <3>1, <3>2 DEF Written, Real
      <4>2. i \in 1..Len(wire[q])
        BY <1>2, <2>0, <4>1 DEF IsAck
      <4> QED
        BY <2>0, <4>1, <4>2
    <3>3. CASE q # Sender[m]
      BY <1>2, <2>0, <3>1, <3>3 DEF Written
    <3> QED
      BY <3>2, <3>3
  <2> QED
    BY <2>1, <2>2 DEF SendStep, Send, SendUnnumbered, WriteSkipped, WriteRetry, WriteGiveUp, SendReturn
<1>3. ASSUME NEW q \in Ends
      PROVE  AcksGrow(q)' /\ \A i \in 1..Len(wire'[q]) : IsAck(q, i)' => AckOK(q, wire[q][i])'
  <2>1. PICK s \in {0, 1} : s = 0
    OBVIOUS
  <2>2. \A a \in Packet : AckOK(q, a) => AckFresh(q, a)'
    BY <1>1 DEF AckOK, AckFresh
  <2>3. /\ incomingmsgno[q] <= incomingmsgno'[q] /\ Peer[q] \in Ends
    BY <1>0, <1>1, EndsAssumption DEF TypeOK, ReadTypes
  <2>4. \A i \in 1..Len(wire'[q]) :
          IsAck(q, i)' => i + s \in 1..Len(wire[q]) /\ wire'[q][i] = wire[q][i + s]
    BY <1>2, <2>1
  <2> QED
    BY <1>0, <1>1, <2>2, <2>3, <2>4, AckInvKept
<1>4. ASSUME NEW q \in Ends PROVE BodySent(q)'
  <2>1. ASSUME NEW n \in DOMAIN pktToMsg[q]
        PROVE  Len(pktToMsg[q][n].body) <= next'[pktToMsg[q][n].hdr]
    <3>1. PICK msg \in Message : msg = pktToMsg[q][n]
      BY <1>0 DEF TypeOK, ReadTypes, MapTypes
    <3>2. msg.hdr \in Sends /\ Len(msg.body) \in Nat
      BY DEF Message
    <3>3. next \in [Sends -> Nat] /\ next' \in [Sends -> Nat]
      BY <1>0 DEF TypeOK, SendTypes
    <3>4. Len(msg.body) <= next[msg.hdr]
      BY <3>1 DEF AckInv, BodySent
    <3>5. next[msg.hdr] <= next'[msg.hdr] /\ next[msg.hdr] \in Nat /\ next'[msg.hdr] \in Nat
      BY <1>1, <3>2, <3>3
    <3>6. Len(msg.body) <= next'[msg.hdr]
      BY <3>2, <3>4, <3>5
    <3> QED
      BY <3>1, <3>6
  <2> QED
    BY <1>1, <2>1 DEF BodySent
<1> QED
  BY <1>3, <1>4 DEF AckInv
(* The reader's steps.  What they leave alone at an end d.                   *)
SameReader(d) ==
  /\ pktToMsg'[d] = pktToMsg[d] /\ incomingmsgno'[d] = incomingmsgno[d]
  /\ \/ reader'[d] = reader[d] /\ current'[d] = current[d]
     \/ reader'[d] # "ack" /\ reader[d] # "ack"

LEMMA AckAt ==
  ASSUME TypeOK, TypeOK', AckInv, UNCHANGED sendVars, NEW d \in Ends, NEW s \in {0, 1},
         \A i \in 1..Len(wire'[d]) :
           IsAck(d, i)' => i + s \in 1..Len(wire[d]) /\ wire'[d][i] = wire[d][i + s],
         incomingmsgno[d] <= incomingmsgno'[d],
         \A a \in Packet : AckOK(d, a) => AckFresh(d, a)'
  PROVE  AcksGrow(d)' /\ \A i \in 1..Len(wire'[d]) : IsAck(d, i)' => AckOK(d, wire[d][i])'
<1>1. sent' = sent /\ next' = next
  BY DEF sendVars
<1>2. Len(sent[Peer[d]]) \in Nat /\ \A m \in Sends : next[m] \in Nat
  BY EndsAssumption DEF TypeOK, SendTypes
<1>3. /\ Len(sent[Peer[d]]) <= Len(sent'[Peer[d]])
      /\ \A k \in 1..Len(sent[Peer[d]]) : sent'[Peer[d]][k] = sent[Peer[d]][k]
      /\ \A m \in Sends : next[m] <= next'[m]
  BY <1>1, <1>2
<1> QED
  BY <1>3, AckInvKept

LEMMA AckSame ==
  ASSUME TypeOK, TypeOK', AckInv, UNCHANGED sendVars, NEW d \in Ends, NEW s \in {0, 1},
         \A i \in 1..Len(wire'[d]) :
           IsAck(d, i)' => i + s \in 1..Len(wire[d]) /\ wire'[d][i] = wire[d][i + s],
         SameReader(d)
  PROVE  /\ AcksGrow(d)' /\ BodySent(d)'
         /\ \A i \in 1..Len(wire'[d]) : IsAck(d, i)' => AckOK(d, wire[d][i])'
<1>1. \A a \in Packet : AckOK(d, a) => AckFresh(d, a)'
  BY DEF AckOK, AckFresh, SameReader
<1>2. incomingmsgno[d] <= incomingmsgno'[d]
  BY DEF TypeOK, ReadTypes, SameReader
<1>3. AcksGrow(d)' /\ \A i \in 1..Len(wire'[d]) : IsAck(d, i)' => AckOK(d, wire[d][i])'
  BY <1>1, <1>2, AckAt
<1>4. BodySent(d)'
  BY DEF AckInv, BodySent, SameReader, sendVars
<1> QED
  BY <1>3, <1>4

(* A packet is taken: the ACKs before it are gone, nothing is added.         *)
LEMMA TakenShift ==
  ASSUME TypeOK, NEW q \in Ends, NEW h, Taken(q, h), NEW d \in Ends
  PROVE  \E s \in {0, 1} :
           /\ \A i \in 1..Len(wire'[d]) :
                IsAck(d, i)' => i + s \in 1..Len(wire[d]) /\ wire'[d][i] = wire[d][i + s]
           /\ d # Peer[q] => s = 0
<1>0. Len(wire[d]) \in Nat
  BY DEF TypeOK, LinkTypes
<1>1. CASE d = Peer[q]
  <2>1. \A i \in 1..Len(wire'[d]) : i + 1 \in 1..Len(wire[d]) /\ wire'[d][i] = wire[d][i + 1]
    BY <1>0, <1>1 DEF Taken
  <2> QED
    BY <1>1, <2>1
<1>2. CASE d # Peer[q]
  <2>1. \A i \in 1..Len(wire'[d]) : i + 0 \in 1..Len(wire[d]) /\ wire'[d][i] = wire[d][i + 0]
    BY <1>0, <1>2 DEF Taken
  <2> QED
    BY <1>2, <2>1
<1> QED
  BY <1>1, <1>2

(* DATA and TXERR make the body longer by one, and an ACK is due.            *)
LEMMA DataEffect ==
  ASSUME TypeOK, NEW q \in Ends, RouteData(q) \/ RouteTXERR(q)
  PROVE  LET h == Head(Incoming(q)) IN
         /\ h.msgNo \in DOMAIN pktToMsg[q] /\ h.msgNo \in DOMAIN pktToMsg'[q]
         /\ pktToMsg'[q][h.msgNo].hdr = pktToMsg[q][h.msgNo].hdr
         /\ Len(pktToMsg'[q][h.msgNo].body) = Len(pktToMsg[q][h.msgNo].body) + 1
         /\ reader'[q] = "ack" /\ current'[q] = h.msgNo
<1> DEFINE h == Head(Incoming(q))
<1>0. MapTypes /\ reader \in [Ends -> ReaderPcs] /\ current \in [Ends -> Nat]
  BY DEF TypeOK, ReadTypes
<1>1. /\ Incoming(q) # <<>> /\ Consume(q) /\ h.msgNo \in DOMAIN pktToMsg[q]
      /\ reader' = [reader EXCEPT ![q] = "ack"] /\ current' = [current EXCEPT ![q] = h.msgNo]
      /\ \E c \in {<<h.msg, h.pos>>, <<h.msg, 0>>} :
           \/ Track(q, h.msgNo, Write(pktToMsg[q][h.msgNo], c, h.bytes))
           \/ Track(q, h.msgNo, [Write(pktToMsg[q][h.msgNo], c, h.bytes) EXCEPT !.err = TRUE])
  BY DEF RouteData, RouteTXERR, Arrives, Tracking
<1>2. h \in Packet /\ h.msgNo \in Nat /\ h.msg \in Sends /\ h.pos \in Nat /\ h.bytes \in Nat
  BY <1>1, ConsumeEffect DEF Packet
<1> HIDE DEF h
<1>3. PICK old \in Message : old = pktToMsg[q][h.msgNo]
  BY <1>0, <1>1 DEF MapTypes
<1>4. PICK c \in Chunk : \/ Track(q, h.msgNo, Write(old, c, h.bytes))
                          \/ Track(q, h.msgNo, [Write(old, c, h.bytes) EXCEPT !.err = TRUE])
  BY <1>1, <1>2, <1>3 DEF Chunk
<1>5. Len(Append(old.body, c)) = Len(old.body) + 1
  BY AppendFacts DEF Message
<1>6. /\ Write(old, c, h.bytes) \in Message /\ Write(old, c, h.bytes).hdr = old.hdr
      /\ Write(old, c, h.bytes).body = Append(old.body, c)
  BY <1>2, WriteTypes DEF Write, Message
<1>7. PICK new \in Message : /\ Track(q, h.msgNo, new) /\ new.hdr = old.hdr
                             /\ new.body = Append(old.body, c)
  <2>1. PICK w \in Message : w = Write(old, c, h.bytes)
    BY <1>6
  <2>2. [w EXCEPT !.err = TRUE] \in Message /\ [w EXCEPT !.err = TRUE].hdr = w.hdr
        /\ [w EXCEPT !.err = TRUE].body = w.body
    BY DEF Message
  <2> QED
    BY <1>4, <1>6, <2>1, <2>2
<1>8. h.msgNo \in DOMAIN pktToMsg'[q] /\ pktToMsg'[q][h.msgNo] = new
  BY <1>0, <1>2, <1>7, TrackFacts
<1>9. reader'[q] = "ack" /\ current'[q] = h.msgNo
  BY <1>0, <1>1
<1> QED
  BY <1>1, <1>3, <1>5, <1>7, <1>8, <1>9 DEF h

LEMMA AckRoute ==
  ASSUME IndInv, IndInv', AckInv, NEW q \in Ends, RouteSteps(q)
  PROVE  AckInv'
<1>0. TypeOK /\ TypeOK' /\ ReadInv /\ ReadInv'
  BY DEF IndInv
<1>1. PICK h \in Packet : Taken(q, h) /\ Routed(q, h)
  BY <1>0, RouteEffect
<1>2. /\ UNCHANGED sendVars /\ reader[q] = "read"
      /\ \A d \in Ends : d # q => SameReader(d)
  BY <1>1 DEF Routed, SameReader
<1>3. ASSUME NEW d \in Ends, d # q
      PROVE  /\ AcksGrow(d)' /\ BodySent(d)'
             /\ \A i \in 1..Len(wire'[d]) : IsAck(d, i)' => AckOK(d, wire[d][i])'
  <2>1. PICK s \in {0, 1} : \A i \in 1..Len(wire'[d]) :
          IsAck(d, i)' => i + s \in 1..Len(wire[d]) /\ wire'[d][i] = wire[d][i + s]
    BY <1>0, <1>1, TakenShift
  <2>2. SameReader(d)
    BY <1>2, <1>3
  <2> QED
    BY <1>0, <1>2, <2>1, <2>2, AckSame
<1>4. /\ h = Head(Incoming(q)) /\ h.msgNo \in Nat
      /\ h.type \in {"HEADER", "DATA", "EOF", "TXERR", "ACK"}
  <2>1. Head(Incoming(q)) \in Packet /\ Taken(q, Head(Incoming(q)))
    BY <1>0, ConsumeEffect
    DEF RouteSteps, RouteHeader, RouteData, RouteEOF, RouteTXERR, RouteACK, Arrives
  <2>2. h = Head(Incoming(q))
    BY <1>1, <2>1 DEF Taken
  <2> QED
    BY <2>2 DEF Packet, PacketTypes
<1>5. incomingmsgno[q] \in Nat /\ incomingmsgno'[q] \in Nat /\ incomingmsgno[q] <= incomingmsgno'[q]
  <2>1. incomingmsgno \in [Ends -> Nat]
    BY <1>0 DEF TypeOK, ReadTypes
  <2>2. incomingmsgno[q] \in Nat
    BY <2>1
  <2>3. incomingmsgno'[q] = incomingmsgno[q] \/ incomingmsgno'[q] = incomingmsgno[q] + 1
    BY <1>1 DEF Routed
  <2> QED
    BY <2>2, <2>3
<1>6. \A n \in DOMAIN pktToMsg'[q] : n \in Nat /\ n + 1 = incomingmsgno'[q]
  BY <1>0 DEF TypeOK, ReadTypes, MapTypes, ReadInv, Partial
<1>7. /\ h.type \in {"DATA", "TXERR"} => RouteData(q) \/ RouteTXERR(q)
      /\ h.type = "ACK" => UNCHANGED readVars
  BY <1>4 DEF RouteSteps, RouteHeader, RouteData, RouteEOF, RouteTXERR, RouteACK, Arrives
<1>8. h.type \in {"DATA", "TXERR"} =>
        /\ h.msgNo \in DOMAIN pktToMsg[q] /\ h.msgNo \in DOMAIN pktToMsg'[q]
        /\ pktToMsg'[q][h.msgNo].hdr = pktToMsg[q][h.msgNo].hdr
        /\ Len(pktToMsg'[q][h.msgNo].body) = Len(pktToMsg[q][h.msgNo].body) + 1
        /\ reader'[q] = "ack" /\ current'[q] = h.msgNo
  BY <1>0, <1>4, <1>7, DataEffect
<1>9. h.type \in {"DATA", "TXERR"} =>
        Len(pktToMsg[q][h.msgNo].body) \in Nat /\ pktToMsg[q][h.msgNo] \in Message
        /\ \A n \in DOMAIN pktToMsg'[q] : n = h.msgNo
  <2> SUFFICES ASSUME h.type \in {"DATA", "TXERR"}
               PROVE  Len(pktToMsg[q][h.msgNo].body) \in Nat /\ pktToMsg[q][h.msgNo] \in Message
                      /\ \A n \in DOMAIN pktToMsg'[q] : n = h.msgNo
    OBVIOUS
  <2>1. pktToMsg[q][h.msgNo] \in Message
    BY <1>0, <1>8 DEF TypeOK, ReadTypes, MapTypes
  <2>2. Len(pktToMsg[q][h.msgNo].body) \in Nat
    BY <2>1 DEF Message
  <2>3. \A n \in DOMAIN pktToMsg'[q] : n = h.msgNo
    BY <1>4, <1>6, <1>8
  <2> QED
    BY <2>1, <2>2, <2>3
<1>10. ASSUME NEW a \in Packet, AckOK(q, a) PROVE AckFresh(q, a)'
  <2> SUFFICES ASSUME a.msgNo \in DOMAIN pktToMsg'[q]
               PROVE  IF reader'[q] = "ack" /\ current'[q] = a.msgNo
                      THEN a.pos < Len(pktToMsg'[q][a.msgNo].body)
                      ELSE a.pos <= Len(pktToMsg'[q][a.msgNo].body)
    BY DEF AckFresh
  <2>0. a.msgNo \in Nat /\ a.pos \in Nat /\ a.msgNo < incomingmsgno[q]
    BY <1>10 DEF Packet, AckOK
  <2>1. a.msgNo + 1 = incomingmsgno'[q]
    BY <1>6
  <2>2. h.type # "HEADER"
    BY <1>1, <1>4, <2>0, <2>1 DEF Routed
  <2>3. h.type # "EOF"
    <3> SUFFICES ASSUME h.type = "EOF" PROVE FALSE
      OBVIOUS
    <3>1. h.msgNo \in DOMAIN pktToMsg[q] /\ h.msgNo \notin DOMAIN pktToMsg'[q]
          /\ incomingmsgno'[q] = incomingmsgno[q]
      BY <1>1 DEF Routed
    <3>2. h.msgNo + 1 = incomingmsgno[q]
      BY <1>0, <3>1, AloneInNursery
    <3> QED
      BY <1>4, <2>0, <2>1, <3>1, <3>2
  <2>4. CASE h.type \in {"DATA", "TXERR"}
    <3>1. a.msgNo = h.msgNo
      BY <1>9, <2>4
    <3>2. a.pos <= Len(pktToMsg[q][h.msgNo].body)
      BY <1>2, <1>8, <1>10, <2>4, <3>1 DEF AckOK, AckFresh
    <3>3. a.pos < Len(pktToMsg'[q][h.msgNo].body)
      BY <1>8, <1>9, <2>0, <2>4, <3>2
    <3> QED
      BY <1>8, <2>4, <3>1, <3>3
  <2>5. CASE h.type = "ACK"
    BY <1>2, <1>7, <1>10, <2>5 DEF AckOK, AckFresh, readVars
  <2> QED
    BY <1>4, <2>2, <2>3, <2>4, <2>5
<1>11. AcksGrow(q)' /\ \A i \in 1..Len(wire'[q]) : IsAck(q, i)' => AckOK(q, wire[q][i])'
  <2>1. PICK s \in {0, 1} : \A i \in 1..Len(wire'[q]) :
          IsAck(q, i)' => i + s \in 1..Len(wire[q]) /\ wire'[q][i] = wire[q][i + s]
    BY <1>0, <1>1, TakenShift
  <2> QED
    BY <1>0, <1>2, <1>5, <1>10, <2>1, AckAt
<1>12. ASSUME NEW n \in DOMAIN pktToMsg'[q]
       PROVE  Len(pktToMsg'[q][n].body) <= next'[pktToMsg'[q][n].hdr]
  <2>1. PICK msg \in Message : msg = pktToMsg'[q][n]
    BY <1>0 DEF TypeOK, ReadTypes, MapTypes
  <2>2. Len(msg.body) \in Nat /\ msg.hdr \in Sends
    BY DEF Message
  <2>3. next' = next /\ next[msg.hdr] \in Nat
    BY <1>0, <1>2, <2>2 DEF TypeOK, SendTypes, sendVars
  <2>4. CASE ~msg.err
    <3>1. Len(msg.body) < next'[msg.hdr]
      BY <1>0, <2>1, <2>4 DEF ReadInv, Partial
    <3> QED
      BY <2>1, <2>2, <2>3, <3>1
  <2>5. CASE msg.err /\ h.type \in {"DATA", "TXERR"}
    <3>1. n = h.msgNo
      BY <1>9, <2>5
    <3>2. PICK old \in Message : old = pktToMsg[q][h.msgNo]
      BY <1>9, <2>5
    <3>3. ~old.err
      BY <1>0, <1>2, <1>8, <2>5, <3>2, NoErrWhileReading
    <3>4. Len(old.body) < next[old.hdr]
      BY <1>0, <1>8, <2>5, <3>2, <3>3 DEF ReadInv, Partial
    <3>5. msg.hdr = old.hdr /\ Len(msg.body) = Len(old.body) + 1 /\ Len(old.body) \in Nat
      BY <1>8, <1>9, <2>1, <2>5, <3>1, <3>2
    <3>6. Len(msg.body) <= next[msg.hdr]
      BY <2>2, <2>3, <3>4, <3>5
    <3> QED
      BY <2>1, <2>3, <3>6
  <2>6. CASE msg.err /\ h.type \in {"HEADER", "EOF", "ACK"}
    <3>1. \/ n \in DOMAIN pktToMsg[q] /\ pktToMsg[q][n] = msg
          \/ msg = NewMessage(h.msg)
      BY <1>1, <2>1, <2>6 DEF Routed
    <3>2. n \in DOMAIN pktToMsg[q] /\ pktToMsg[q][n] = msg
      BY <2>6, <3>1 DEF NewMessage
    <3>3. Len(msg.body) <= next[msg.hdr]
      BY <3>2 DEF AckInv, BodySent
    <3> QED
      BY <2>1, <2>3, <3>3
  <2> QED
    BY <1>4, <2>4, <2>5, <2>6
<1> QED
  BY <1>3, <1>11, <1>12 DEF AckInv, BodySent

(* ackBytes adds an ACK about a later packet than those before it.           *)
LEMMA AckAdded ==
  ASSUME IndInv, IndInv', AckInv, NEW q \in Ends, AckBytes(q)
  PROVE  AckInv'
<1>0. TypeOK /\ TypeOK' /\ ReadInv
  BY DEF IndInv
<1>1. /\ reader[q] = "ack" /\ reader'[q] \in {"read", "deliver"}
      /\ UNCHANGED sendVars /\ incomingmsgno' = incomingmsgno /\ sent' = sent /\ next' = next
      /\ \A d \in Ends : d # q => /\ pktToMsg'[d] = pktToMsg[d] /\ reader'[d] = reader[d]
                                  /\ current'[d] = current[d]
      /\ \A k \in DOMAIN pktToMsg'[q] : k \in DOMAIN pktToMsg[q] /\ pktToMsg'[q][k] = pktToMsg[q][k]
  BY <1>0, AckEffect DEF sendVars
<1>2. PICK n \in DOMAIN pktToMsg[q] : n = current[q]
  BY <1>0, <1>1 DEF TypeOK, ReadTypes
<1>3. PICK msg \in Message : msg = pktToMsg[q][n]
  BY <1>0 DEF TypeOK, ReadTypes, MapTypes
<1>4. /\ n \in Nat /\ n + 1 = incomingmsgno[q] /\ \A k \in DOMAIN pktToMsg[q] : k = n
      /\ msg.hdr \in Sends /\ Len(msg.body) \in Nat /\ msg.bytesWritten \in Nat
  <2>1. msg.hdr \in Sends /\ Len(msg.body) \in Nat /\ msg.bytesWritten \in Nat
    BY DEF Message
  <2> QED
    BY <1>0, <2>1, AloneInNursery
<1>5. PICK new \in Packet : new = AckPacket(n, msg)
  BY <1>4 DEF AckPacket, Packet, PacketTypes
<1>6. new.type = "ACK" /\ new.msgNo = n /\ new.msg = msg.hdr /\ new.pos = Len(msg.body)
  BY <1>5 DEF AckPacket
<1>7. Len(wire[q]) \in Nat /\ wire[q] \in Seq(Packet) /\ wire \in [Ends -> Seq(Packet)]
      /\ \A d \in Ends : Len(wire[d]) \in Nat
  BY <1>0 DEF TypeOK, LinkTypes
<1>8. /\ \A d \in Ends : d # q => wire'[d] = wire[d]
      /\ \A i \in 1..Len(wire'[q]) : \/ i \in 1..Len(wire[q]) /\ wire'[q][i] = wire[q][i]
                                     \/ i = Len(wire[q]) + 1 /\ wire'[q][i] = new
  <2>1. CASE wire' = wire
    BY <1>7, <2>1
  <2>2. CASE wire' = [wire EXCEPT ![q] = Append(@, new)]
    <3>1. wire'[q] = Append(wire[q], new) /\ \A d \in Ends : d # q => wire'[d] = wire[d]
      BY <1>7, <2>2
    <3>2. /\ Len(wire'[q]) = Len(wire[q]) + 1
          /\ \A i \in 1..Len(wire[q]) : wire'[q][i] = wire[q][i]
          /\ wire'[q][Len(wire[q]) + 1] = new
      BY <1>7, <3>1, AppendFacts
    <3> QED
      BY <1>7, <3>1, <3>2
  <2> QED
    BY <1>2, <1>3, <1>5, <2>1, <2>2 DEF AckBytes
<1>9. ASSUME NEW d \in Ends, d # q
      PROVE  /\ AcksGrow(d)' /\ BodySent(d)'
             /\ \A i \in 1..Len(wire'[d]) : IsAck(d, i)' => AckOK(d, wire[d][i])'
  <2>1. PICK s \in {0, 1} : \A i \in 1..Len(wire'[d]) :
          IsAck(d, i)' => i + s \in 1..Len(wire[d]) /\ wire'[d][i] = wire[d][i + s]
    <3>1. \A i \in 1..Len(wire'[d]) : i + 0 \in 1..Len(wire[d]) /\ wire'[d][i] = wire[d][i + 0]
      BY <1>7, <1>8, <1>9
    <3> QED
      BY <3>1
  <2>2. SameReader(d)
    BY <1>1, <1>9 DEF SameReader
  <2> QED
    BY <1>0, <1>1, <2>1, <2>2, AckSame
(* ACKs that were there before are still right. *)
<1>10. ASSUME NEW a \in Packet, AckOK(q, a) PROVE AckOK(q, a)'
  <2>1. a.pos \in Nat
    BY DEF Packet
  <2>2. AckFresh(q, a)'
    <3> SUFFICES ASSUME a.msgNo \in DOMAIN pktToMsg'[q]
                 PROVE  a.pos <= Len(pktToMsg'[q][a.msgNo].body)
      BY <1>1 DEF AckFresh
    <3>1. a.msgNo = n /\ pktToMsg'[q][a.msgNo] = msg
      BY <1>1, <1>3, <1>4
    <3>2. a.pos < Len(msg.body)
      BY <1>1, <1>2, <1>3, <1>10, <3>1 DEF AckOK, AckFresh
    <3> QED
      BY <1>4, <2>1, <3>1, <3>2
  <2> QED
    BY <1>1, <1>10, <2>2 DEF AckOK
<1>11. AckOK(q, new)'
  <2>1. n < Len(sent[Peer[q]]) /\ msg.hdr = sent[Peer[q]][n + 1]
    BY <1>0, <1>3 DEF ReadInv, Partial
  <2>2. Len(msg.body) <= next[msg.hdr]
    BY <1>3 DEF AckInv, BodySent
  <2>3. n < incomingmsgno[q]
    BY <1>4
  <2>4. AckFresh(q, new)'
    <3> SUFFICES ASSUME n \in DOMAIN pktToMsg'[q] PROVE Len(msg.body) <= Len(pktToMsg'[q][n].body)
      BY <1>1, <1>6 DEF AckFresh
    <3> QED
      BY <1>1, <1>3, <1>4
  <2> QED
    BY <1>1, <1>6, <2>1, <2>2, <2>3, <2>4 DEF AckOK
<1>12. ASSUME NEW i \in 1..Len(wire'[q]), IsAck(q, i)' PROVE AckOK(q, wire[q][i])'
  <2>1. PICK a \in Packet : a = wire'[q][i]
    BY SMTT(30), <1>7, <1>8
  <2>2. AckOK(q, a) \/ a = new
    BY <1>8, <1>12, <2>1 DEF AckInv, IsAck
  <2>3. AckOK(q, a)'
    BY <1>10, <1>11, <2>2
  <2> QED
    BY <2>1, <2>3
<1>13. AcksGrow(q)'
  <2>1. ASSUME NEW i \in 1..Len(wire'[q]), NEW j \in 1..Len(wire'[q]), i < j,
               IsAck(q, i)', IsAck(q, j)', wire'[q][i].msgNo = wire'[q][j].msgNo
        PROVE  wire'[q][i].pos < wire'[q][j].pos
    <3>1. i \in 1..Len(wire[q]) /\ wire'[q][i] = wire[q][i]
      BY <1>7, <1>8, <2>1
    <3>2. CASE j \in 1..Len(wire[q]) /\ wire'[q][j] = wire[q][j]
      BY <2>1, <3>1, <3>2 DEF AckInv, AcksGrow, IsAck
    <3>3. CASE wire'[q][j] = new
      <4>1. AckOK(q, wire[q][i]) /\ wire[q][i].msgNo = n
        BY <1>6, <2>1, <3>1, <3>3 DEF AckInv, IsAck
      <4>2. wire[q][i].pos < Len(msg.body)
        BY <1>1, <1>2, <1>3, <4>1 DEF AckOK, AckFresh
      <4> QED
        BY <1>6, <3>1, <3>3, <4>2
    <3> QED
      BY <1>8, <3>2, <3>3
  <2> QED
    BY <2>1 DEF AcksGrow
<1>14. BodySent(q)'
  BY <1>1 DEF AckInv, BodySent
<1> QED
  BY <1>9, <1>12, <1>13, <1>14 DEF AckInv

LEMMA AckInvNext ==
  ASSUME IndInv, IndInv', AckInv, [Next]_vars
  PROVE  AckInv'
<1>0. TypeOK /\ TypeOK' /\ reader \in [Ends -> ReaderPcs] /\ \A d \in Ends : Len(wire[d]) \in Nat
  BY DEF IndInv, TypeOK, ReadTypes, LinkTypes
<1>1. ASSUME UNCHANGED sendVars, \A d \in Ends : SameReader(d),
             \A d \in Ends : \E s \in {0, 1} : \A i \in 1..Len(wire'[d]) :
               IsAck(d, i)' => i + s \in 1..Len(wire[d]) /\ wire'[d][i] = wire[d][i + s]
      PROVE  AckInv'
  BY <1>0, <1>1, AckSame DEF AckInv
<1>2. CASE \E m \in Sends : SendStep(m) \/ AbortSend(m)
  BY <1>2, AckSend
<1>3. ASSUME NEW q \in Ends, ReaderStep(q) \/ Receive(q) PROVE AckInv'
  <2>1. CASE RouteSteps(q)
    BY <2>1, AckRoute
  <2>2. CASE AckBytes(q)
    BY <2>2, AckAdded
  <2>3. CASE RouteError(q) \/ ReadError(q) \/ Receive(q)
    <3>1. UNCHANGED sendVars /\ \A d \in Ends : SameReader(d)
      BY <1>0, <2>3 DEF RouteError, ReadError, Receive, StopReading, Misplaced, Arrives, SameReader
    <3>2. ASSUME NEW d \in Ends
          PROVE  \E s \in {0, 1} : \A i \in 1..Len(wire'[d]) :
                   IsAck(d, i)' => i + s \in 1..Len(wire[d]) /\ wire'[d][i] = wire[d][i + s]
      <4>1. CASE RouteError(q)
        <5>1. Incoming(q) # <<>> /\ Consume(q)
          BY <4>1 DEF RouteError, Misplaced, Arrives
        <5>2. PICK h \in Packet : Taken(q, h)
          BY <1>0, <5>1, ConsumeEffect
        <5> QED
          BY <1>0, <5>2, TakenShift
      <4>2. CASE UNCHANGED wire
        <5>1. \A i \in 1..Len(wire'[d]) : i + 0 \in 1..Len(wire[d]) /\ wire'[d][i] = wire[d][i + 0]
          BY <1>0, <4>2
        <5> QED
          BY <5>1
      <4> QED
        BY <2>3, <4>1, <4>2 DEF ReadError, Receive
    <3> QED
      BY <1>1, <3>1, <3>2
  <2> QED
    BY <1>3, <2>1, <2>2, <2>3 DEF ReaderStep, RouteSteps
<1>4. CASE UNCHANGED vars \/ LinkFails \/ \E e \in Ends : Close(e) \/ WriteBreaks(e)
  <2>1. UNCHANGED <<sendVars, readVars, wire>>
    BY <1>4 DEF LinkFails, Close, WriteBreaks, vars
  <2>2. \A d \in Ends : SameReader(d)
    BY <2>1 DEF SameReader, readVars
  <2>3. \A d \in Ends : \A i \in 1..Len(wire'[d]) :
          i + 0 \in 1..Len(wire[d]) /\ wire'[d][i] = wire[d][i + 0]
    BY <1>0, <2>1
  <2> QED
    BY <1>1, <2>1, <2>2, <2>3
<1> QED
  BY <1>2, <1>3, <1>4 DEF Next

LEMMA AckInvInit == Init => AckInv
<1> SUFFICES ASSUME Init, NEW q \in Ends PROVE Len(wire[q]) = 0 /\ DOMAIN pktToMsg[q] = {}
  BY DEF AckInv, AcksGrow, BodySent
<1> QED
  BY DEF Init, EmptyMap

-----------------------------------------------------------------------------
(* Byte counts *)

(* What a message of the nursery has counted, and the bytes that packets on  *)
(* their way carry.                                                          *)
MessageBytes(msg) ==
  IF msg.err THEN IsTotal(msg.hdr, Len(msg.body), msg.bytesWritten)
  ELSE /\ Len(msg.body) \in 0..NChunks[msg.hdr]
       /\ msg.bytesWritten = Offset[msg.hdr][Len(msg.body)]

PacketBytes(p) ==
  /\ p.type = "ACK" => IsTotal(p.msg, p.pos, p.bytes)
  /\ p.type = "DATA" => p.bytes = Size(p.msg, p.pos)
  /\ p.type = "TXERR" => p.bytes \in TextSizes /\ p.pos = next[p.msg]

BytesInv == \A q \in Ends :
  /\ \A n \in DOMAIN pktToMsg[q] : MessageBytes(pktToMsg[q][n])
  /\ \A i \in 1..Len(wire[q]) : PacketBytes(wire[q][i])

(* A total stays one: a Send that has ended writes no more.                  *)
LEMMA TotalKept ==
  ASSUME TypeOK, SendInv, NEW m \in Sends, SendStep(m) \/ AbortSend(m),
         NEW x \in Sends, NEW pos, NEW count, IsTotal(x, pos, count)
  PROVE  IsTotal(x, pos, count)'
<1>1. CASE pos \in 0..NChunks[x] /\ count = Offset[x][pos]
  BY <1>1 DEF IsTotal
<1>2. CASE /\ pos = next[x] /\ pos - 1 \in 0..NChunks[x] /\ sendPc[x] = "err"
           /\ \E textSize \in TextSizes : count = Offset[x][pos - 1] + textSize
  <2>1. sendPc'[x] = sendPc[x] /\ next'[x] = next[x]
    BY <1>2, SendFrame
  <2> QED
    BY <1>2, <2>1 DEF IsTotal
<1> QED
  BY <1>1, <1>2 DEF IsTotal

(* The bytes after a step that Send takes no part in.                        *)
LEMMA BytesSame ==
  ASSUME TypeOK', BytesInv, UNCHANGED sendVars, NEW d \in Ends,
         \A i \in 1..Len(wire'[d]) : \E k \in 1..Len(wire[d]) : wire'[d][i] = wire[d][k]
  PROVE  \A i \in 1..Len(wire'[d]) : PacketBytes(wire[d][i])'
<1>1. ASSUME NEW i \in 1..Len(wire'[d]) PROVE PacketBytes(wire[d][i])'
  <2>1. PICK k \in 1..Len(wire[d]) : wire'[d][i] = wire[d][k]
    OBVIOUS
  <2>2. PICK p \in Packet : p = wire'[d][i]
    BY DEF TypeOK, LinkTypes
  <2>3. PacketBytes(p)
    BY <2>1, <2>2 DEF BytesInv
  <2>4. PacketBytes(p)'
    BY <2>3 DEF PacketBytes, IsTotal, sendVars
  <2> QED
    BY <2>2, <2>4
<1> QED
  BY <1>1

LEMMA MessagesSame ==
  ASSUME TypeOK, BytesInv, UNCHANGED sendVars, NEW d \in Ends,
         \A n \in DOMAIN pktToMsg'[d] : /\ n \in DOMAIN pktToMsg[d]
                                        /\ pktToMsg'[d][n] = pktToMsg[d][n]
  PROVE  \A n \in DOMAIN pktToMsg'[d] : MessageBytes(pktToMsg[d][n])'
<1>1. ASSUME NEW n \in DOMAIN pktToMsg'[d] PROVE MessageBytes(pktToMsg[d][n])'
  <2>1. PICK msg \in Message : msg = pktToMsg[d][n]
    BY DEF TypeOK, ReadTypes, MapTypes
  <2>2. MessageBytes(msg)
    BY <2>1 DEF BytesInv
  <2>3. MessageBytes(msg)'
    BY <2>2 DEF MessageBytes, IsTotal, sendVars
  <2> QED
    BY <2>1, <2>3
<1> QED
  BY <1>1

LEMMA BytesSend ==
  ASSUME IndInv, IndInv', BytesInv, NEW m \in Sends, SendStep(m) \/ AbortSend(m)
  PROVE  BytesInv'
<1>0. TypeOK /\ TypeOK' /\ SendInv /\ WireInv /\ \A d \in Ends : Len(wire[d]) \in Nat
  BY DEF IndInv, TypeOK, LinkTypes
<1>1. pktToMsg' = pktToMsg
  BY <1>0, SendFrame DEF readVars
<1>2. ASSUME NEW q \in Ends, NEW n \in DOMAIN pktToMsg[q] PROVE MessageBytes(pktToMsg[q][n])'
  <2>1. PICK msg \in Message : msg = pktToMsg[q][n]
    BY <1>0 DEF TypeOK, ReadTypes, MapTypes
  <2>2. MessageBytes(msg) /\ msg.hdr \in Sends
    BY <2>1 DEF BytesInv, Message
  <2>3. MessageBytes(msg)'
    BY <1>0, <2>2, TotalKept DEF MessageBytes
  <2> QED
    BY <1>1, <2>1, <2>3
<1>3. ASSUME NEW q \in Ends, NEW p \in Packet, NEW k \in 1..Len(wire[q]), p = wire[q][k]
      PROVE  PacketBytes(p)'
  <2>1. PacketBytes(p) /\ p.msg \in Sends
    BY <1>3 DEF BytesInv, Packet
  <2>2. p.type = "ACK" => IsTotal(p.msg, p.pos, p.bytes)'
    BY <1>0, <2>1, TotalKept DEF PacketBytes
  <2>3. p.type = "TXERR" => next'[p.msg] = next[p.msg]
    <3>1. p.type = "TXERR" => sendPc[p.msg] = "err"
      BY <1>0, <1>3 DEF WireInv, PacketInv, Real
    <3> QED
      BY <1>0, <2>1, <3>1, SendFrame
  <2> QED
    BY <2>1, <2>2, <2>3 DEF PacketBytes
<1>4. ASSUME NEW q \in Ends, NEW i \in 1..Len(wire'[q]) PROVE PacketBytes(wire[q][i])'
  <2>0. PICK p \in Packet : p = wire'[q][i]
    BY <1>0 DEF TypeOK, LinkTypes
  <2>1. CASE i \in 1..Len(wire[q]) /\ wire'[q][i] = wire[q][i]
    <3>1. PacketBytes(p)'
      BY <1>3, <2>0, <2>1
    <3> QED
      BY <2>0, <3>1
  <2>2. CASE wire' = wire
    BY <2>1, <2>2
  <2>3. CASE WritePacket(m) \/ AbortSend(m)
    <3>1. PICK r \in Packet : Written(m, r)
      BY <1>0, <2>3, WriteEffect
    <3>2. CASE p = r
      <4>1. PacketBytes(r)'
        <5>1. r.msg = m /\ r.pos = next[m] /\ r.type # "ACK"
          BY <3>1 DEF Written, Real
        <5>2. CASE r.type = PacketAt(m, msgno[m], next[m]).type /\ r.bytes = Size(m, next[m])
          <6>1. r.type # "TXERR"
            BY <5>2 DEF PacketAt
          <6> QED
            BY <5>1, <5>2, <6>1 DEF PacketBytes
        <5>3. CASE r.type = "TXERR" /\ r.bytes \in TextSizes /\ next' = next
          BY <5>1, <5>3 DEF PacketBytes
        <5> QED
          BY <3>1, <5>2, <5>3 DEF Written
      <4> QED
        BY <2>0, <3>2, <4>1
    <3>3. CASE q # Sender[m]
      <4>1. wire'[q] = wire[q]
        BY <3>1, <3>3 DEF Written
      <4> QED
        BY <2>1, <4>1
    <3>4. CASE q = Sender[m] /\ p # r
      <4>1. /\ Len(wire'[q]) = Len(wire[q]) + 1
            /\ \A k \in 1..Len(wire[q]) : wire'[q][k] = wire[q][k]
            /\ wire'[q][Len(wire[q]) + 1] = r
        BY <3>1, <3>4 DEF Written
      <4>2. i \in 1..Len(wire[q])
        BY <1>0, <2>0, <3>4, <4>1
      <4> QED
        BY <2>1, <4>1, <4>2
    <3> QED
      BY <3>2, <3>3, <3>4
  <2> QED
    BY <2>2, <2>3 DEF SendStep, Send, SendUnnumbered, WriteSkipped, WriteRetry, WriteGiveUp, SendReturn
<1> QED
  BY <1>1, <1>2, <1>4 DEF BytesInv

(* DATA adds the bytes of the packet that is due, TXERR those of its text.   *)
LEMMA DataBytes ==
  ASSUME IndInv, BytesInv, NEW q \in Ends, NEW h \in Packet, Taken(q, h), Routed(q, h),
         NEW old \in Message, NEW new \in Message, h.type \in {"DATA", "TXERR"},
         h.msgNo \in DOMAIN pktToMsg[q], old = pktToMsg[q][h.msgNo],
         new.hdr = old.hdr, Len(new.body) = Len(old.body) + 1,
         new.err = (h.type = "TXERR"), new.bytesWritten = old.bytesWritten + h.bytes
  PROVE  MessageBytes(new)
<1>0. TypeOK /\ WireInv /\ GapInv /\ ReadInv
  BY DEF IndInv
<1>1. reader[q] = "read" /\ Real(h) /\ h.msg \in Sends /\ h.pos \in Nat /\ h.msgNo \in Nat
  BY DEF Routed, Real, Packet
<1>2. PacketInv(Peer[q], h) /\ h.pos > 0
  <2>1. PacketInv(Peer[q], h)
    BY <1>0, <1>1, HeadFits
  <2> QED
    BY <1>1, <2>1 DEF PacketInv
<1>3. Len(old.body) + 1 = h.pos /\ Len(old.body) \in Nat
  BY <1>0, <1>1, <1>2, HeadFits DEF Message
<1>4. old.hdr = h.msg
  BY <1>0, <1>2 DEF ReadInv, Partial, PacketInv
<1>5. MessageBytes(old) /\ ~old.err
  BY <1>0, <1>1, NoErrWhileReading DEF BytesInv
<1>6. PacketBytes(h)
  <2>1. Peer[q] \in Ends /\ 1 \in 1..Len(wire[Peer[q]]) /\ h = wire[Peer[q]][1]
    BY DEF Taken
  <2> QED
    BY <2>1 DEF BytesInv
<1>7. /\ NChunks[h.msg] \in Nat /\ h.pos - 1 = Len(old.body) /\ h.pos - 1 \in 0..NChunks[h.msg]
      /\ old.bytesWritten = Offset[h.msg][h.pos - 1]
      /\ new.hdr = h.msg /\ Len(new.body) = h.pos
  <2>1. NChunks[h.msg] \in Nat
    BY <1>1, SendsAssumption
  <2>2. h.pos - 1 = Len(old.body) /\ Len(new.body) = h.pos
    BY <1>1, <1>3
  <2>3. Len(old.body) \in 0..NChunks[h.msg] /\ old.bytesWritten = Offset[h.msg][Len(old.body)]
    BY <1>4, <1>5 DEF MessageBytes
  <2> QED
    BY <1>4, <2>1, <2>2, <2>3
<1>8. CASE h.type = "DATA"
  <2>1. h.pos \in 1..NChunks[h.msg]
    BY <1>1, <1>2, <1>7, <1>8 DEF PacketInv
  <2>2. h.bytes = Offset[h.msg][h.pos] - Offset[h.msg][h.pos - 1]
    BY <1>6, <1>8, <2>1 DEF PacketBytes, Size, IsData
  <2>3. Offset[h.msg][h.pos] \in Nat /\ Offset[h.msg][h.pos - 1] \in Nat
    BY <1>1, <1>7, <2>1, OffsetAssumption
  <2>4. new.bytesWritten = Offset[h.msg][h.pos]
    <3>1. PICK low \in Nat, high \in Nat :
            low = Offset[h.msg][h.pos - 1] /\ high = Offset[h.msg][h.pos]
      BY <2>3
    <3>2. new.bytesWritten = low + (high - low)
      BY <1>7, <2>2, <3>1
    <3>3. low + (high - low) = high
      OBVIOUS
    <3> QED
      BY <3>1, <3>2, <3>3
  <2>5. ~new.err
    <3>1. h.type # "TXERR"
      BY <1>8
    <3> QED
      BY <3>1
  <2>6. h.pos \in 0..NChunks[h.msg]
    BY <2>1
  <2> QED
    BY <1>7, <2>4, <2>5, <2>6 DEF MessageBytes
<1>9. CASE h.type = "TXERR"
  <2>1. sendPc[h.msg] = "err" /\ h.pos = next[h.msg] /\ h.bytes \in TextSizes /\ new.err
    BY <1>2, <1>6, <1>9 DEF PacketInv, PacketBytes
  <2>2. IsTotal(h.msg, h.pos, new.bytesWritten)
    BY <1>7, <2>1 DEF IsTotal
  <2> QED
    BY <1>7, <2>1, <2>2 DEF MessageBytes
<1> QED
  BY <1>8, <1>9

LEMMA BytesRoute ==
  ASSUME IndInv, IndInv', BytesInv, NEW q \in Ends, RouteSteps(q)
  PROVE  BytesInv'
<1>0. TypeOK /\ TypeOK' /\ MapTypes /\ MapTypes'
  BY DEF IndInv, TypeOK, ReadTypes
<1>1. PICK h \in Packet : Taken(q, h) /\ Routed(q, h)
  BY <1>0, RouteEffect
<1>2. UNCHANGED sendVars /\ \A d \in Ends : d # q => pktToMsg'[d] = pktToMsg[d]
  BY <1>1 DEF Routed
<1>3. ASSUME NEW d \in Ends PROVE \A i \in 1..Len(wire'[d]) : PacketBytes(wire[d][i])'
  <2>1. \A i \in 1..Len(wire'[d]) : \E k \in 1..Len(wire[d]) : wire'[d][i] = wire[d][k]
    <3>1. CASE d = Peer[q]
      <4>1. \A i \in 1..Len(wire'[d]) : i + 1 \in 1..Len(wire[d]) /\ wire'[d][i] = wire[d][i + 1]
        BY <1>1, <3>1 DEF Taken
      <4> QED
        BY <4>1
    <3>2. CASE d # Peer[q]
      BY <1>1, <3>2 DEF Taken
    <3> QED
      BY <3>1, <3>2
  <2> QED
    BY <1>0, <1>2, <2>1, BytesSame
<1>4. ASSUME NEW d \in Ends, d # q PROVE \A n \in DOMAIN pktToMsg'[d] : MessageBytes(pktToMsg[d][n])'
  BY <1>0, <1>2, <1>4, MessagesSame
<1>5. /\ h.msgNo \in Nat /\ h.type \in {"HEADER", "DATA", "EOF", "TXERR", "ACK"}
      /\ h.bytes \in Nat /\ h.msg \in Sends /\ h.pos \in Nat
  BY DEF Packet, PacketTypes
<1>6. ASSUME NEW n \in DOMAIN pktToMsg'[q] PROVE MessageBytes(pktToMsg[q][n])'
  <2>1. PICK new \in Message : new = pktToMsg'[q][n]
    BY <1>0 DEF MapTypes
  <2>2. MessageBytes(new)
    <3>1. CASE n # h.msgNo \/ h.type = "ACK"
      <4>1. n \in DOMAIN pktToMsg[q] /\ pktToMsg[q][n] = new
        BY <1>1, <1>6, <2>1, <3>1 DEF Routed
      <4> QED
        BY <4>1 DEF BytesInv
    <3>2. CASE n = h.msgNo /\ h.type = "HEADER"
      <4>1. new = NewMessage(h.msg)
        BY <1>1, <2>1, <3>2 DEF Routed
      <4>2. /\ new.hdr = h.msg /\ ~new.err /\ new.bytesWritten = 0 /\ new.body = <<>>
        BY <4>1 DEF NewMessage
      <4>3. Len(new.body) = 0 /\ 0 \in 0..NChunks[h.msg] /\ Offset[h.msg][0] = 0
        BY <1>5, <4>2, SendsAssumption, OffsetAssumption
      <4> QED
        BY <4>2, <4>3 DEF MessageBytes
    <3>3. CASE n = h.msgNo /\ h.type \in {"DATA", "TXERR"}
      <4>1. h.msgNo \in DOMAIN pktToMsg[q]
        BY <1>1, <3>3 DEF Routed
      <4>2. PICK old \in Message : old = pktToMsg[q][h.msgNo]
        BY <1>0, <4>1 DEF MapTypes
      <4>3. RouteData(q) \/ RouteTXERR(q)
        <5>1. h = Head(Incoming(q))
          <6>1. Head(Incoming(q)) \in Packet /\ Taken(q, Head(Incoming(q)))
            BY <1>0, ConsumeEffect
            DEF RouteSteps, RouteHeader, RouteData, RouteEOF, RouteTXERR, RouteACK, Arrives
          <6> QED
            BY <1>1, <6>1 DEF Taken
        <5> QED
          BY <3>3, <5>1 DEF RouteSteps, RouteHeader, RouteEOF, RouteACK, Arrives
      <4>4. h = Head(Incoming(q))
        <5>1. Head(Incoming(q)) \in Packet /\ Taken(q, Head(Incoming(q)))
          BY <1>0, <4>3, ConsumeEffect DEF RouteData, RouteTXERR, Arrives
        <5> QED
          BY <1>1, <5>1 DEF Taken
      <4>5. new.hdr = old.hdr /\ Len(new.body) = Len(old.body) + 1
        BY <1>0, <2>1, <3>3, <4>2, <4>3, <4>4, DataEffect
      <4>6. new.err = (h.type = "TXERR") /\ new.bytesWritten = old.bytesWritten + h.bytes
        <5>1. CASE h.type = "DATA"
          <6>1. new = Write(old, <<h.msg, h.pos>>, h.bytes)
            BY <1>1, <2>1, <3>3, <4>2, <5>1 DEF Routed
          <6>2. ~old.err
            BY <1>1, <4>1, <4>2, NoErrWhileReading DEF Routed, IndInv
          <6>3. new.err = old.err /\ new.bytesWritten = old.bytesWritten + h.bytes
            BY <6>1 DEF Write, Message
          <6> QED
            BY <5>1, <6>2, <6>3 DEF Message
        <5>2. CASE h.type = "TXERR"
          <6>1. new.err /\ new.bytesWritten = old.bytesWritten + h.bytes
            BY <1>1, <2>1, <3>3, <4>2, <5>2 DEF Routed
          <6> QED
            BY <5>2, <6>1 DEF Message
        <5> QED
          BY <3>3, <5>1, <5>2
      <4> QED
        BY <1>1, <3>3, <4>1, <4>2, <4>5, <4>6, DataBytes
    <3>4. h.type = "EOF" => n # h.msgNo
      BY <1>1, <1>6 DEF Routed
    <3> QED
      BY <1>5, <3>1, <3>2, <3>3, <3>4
  <2>3. MessageBytes(new)'
    BY <1>2, <2>2 DEF MessageBytes, IsTotal, sendVars
  <2> QED
    BY <2>1, <2>3
<1> QED
  BY <1>3, <1>4, <1>6 DEF BytesInv

(* ackBytes sends the total of the message in the reader's hands.            *)
LEMMA BytesAck ==
  ASSUME IndInv, IndInv', BytesInv, NEW q \in Ends, AckBytes(q)
  PROVE  BytesInv'
<1>0. TypeOK /\ TypeOK' /\ wire \in [Ends -> Seq(Packet)] /\ \A d \in Ends : Len(wire[d]) \in Nat
  BY DEF IndInv, TypeOK, LinkTypes
<1>1. /\ UNCHANGED sendVars
      /\ \A d \in Ends : d # q => pktToMsg'[d] = pktToMsg[d]
      /\ \A k \in DOMAIN pktToMsg'[q] : k \in DOMAIN pktToMsg[q] /\ pktToMsg'[q][k] = pktToMsg[q][k]
  BY <1>0, AckEffect
<1>2. ASSUME NEW d \in Ends PROVE \A n \in DOMAIN pktToMsg'[d] : MessageBytes(pktToMsg[d][n])'
  BY <1>0, <1>1, MessagesSame
<1>3. PICK n \in DOMAIN pktToMsg[q] : n = current[q] /\ n \in Nat
  BY <1>0 DEF TypeOK, ReadTypes, AckBytes
<1>4. PICK msg \in Message : msg = pktToMsg[q][n]
  BY <1>0 DEF TypeOK, ReadTypes, MapTypes
<1>5. IsTotal(msg.hdr, Len(msg.body), msg.bytesWritten)
  <2>1. MessageBytes(msg)
    BY <1>4 DEF BytesInv
  <2> QED
    BY <2>1 DEF MessageBytes, IsTotal
<1>6. PICK new \in Packet : new = AckPacket(n, msg)
  <2>1. msg.hdr \in Sends /\ Len(msg.body) \in Nat /\ msg.bytesWritten \in Nat
    BY DEF Message
  <2> QED
    BY <1>3, <2>1 DEF AckPacket, Packet, PacketTypes
<1>7. PacketBytes(new)'
  <2>1. new.type = "ACK" /\ IsTotal(new.msg, new.pos, new.bytes)
    BY <1>5, <1>6 DEF AckPacket
  <2> QED
    BY <1>1, <2>1 DEF PacketBytes, IsTotal, sendVars
<1>8. CASE wire' = wire
  <2>1. \A d \in Ends : \A i \in 1..Len(wire'[d]) : \E k \in 1..Len(wire[d]) : wire'[d][i] = wire[d][k]
    BY <1>8
  <2>2. \A d \in Ends : \A i \in 1..Len(wire'[d]) : PacketBytes(wire[d][i])'
    BY <1>0, <1>1, <2>1, BytesSame
  <2> QED
    BY <1>2, <2>2 DEF BytesInv
<1>9. CASE wire' = [wire EXCEPT ![q] = Append(@, new)]
  <2>1. wire'[q] = Append(wire[q], new) /\ \A d \in Ends : d # q => wire'[d] = wire[d]
    BY <1>0, <1>9
  <2>2. /\ Len(wire'[q]) = Len(wire[q]) + 1
        /\ \A i \in 1..Len(wire[q]) : wire'[q][i] = wire[q][i]
        /\ wire'[q][Len(wire[q]) + 1] = new
    BY <1>0, <2>1, AppendFacts
  <2>3. ASSUME NEW d \in Ends, d # q PROVE \A i \in 1..Len(wire'[d]) : PacketBytes(wire[d][i])'
    <3>1. \A i \in 1..Len(wire'[d]) : \E k \in 1..Len(wire[d]) : wire'[d][i] = wire[d][k]
      BY <2>1, <2>3
    <3> QED
      BY <1>0, <1>1, <3>1, BytesSame
  <2>4. ASSUME NEW i \in 1..Len(wire'[q]) PROVE PacketBytes(wire[q][i])'
    <3>1. PICK p \in Packet : p = wire'[q][i]
      BY <1>0 DEF TypeOK, LinkTypes
    <3>2. CASE i = Len(wire[q]) + 1
      <4>1. p = new
        BY <2>2, <3>1, <3>2
      <4> QED
        BY <1>7, <3>1, <4>1
    <3>3. CASE i \in 1..Len(wire[q])
      <4>1. PacketBytes(p)
        BY <2>2, <3>1, <3>3 DEF BytesInv
      <4>2. PacketBytes(p)'
        BY <1>1, <4>1 DEF PacketBytes, IsTotal, sendVars
      <4> QED
        BY <3>1, <4>2
    <3> QED
      BY <1>0, <2>2, <3>2, <3>3
  <2> QED
    BY <1>2, <2>3, <2>4 DEF BytesInv
<1> QED
  BY <1>3, <1>4, <1>6, <1>8, <1>9 DEF AckBytes

LEMMA BytesNext ==
  ASSUME IndInv, IndInv', BytesInv, [Next]_vars
  PROVE  BytesInv'
<1>0. TypeOK /\ TypeOK' /\ \A d \in Ends : Len(wire[d]) \in Nat
  BY DEF IndInv, TypeOK, LinkTypes
<1>1. ASSUME UNCHANGED <<sendVars, pktToMsg>>,
             \A d \in Ends : \A i \in 1..Len(wire'[d]) : \E k \in 1..Len(wire[d]) : wire'[d][i] = wire[d][k]
      PROVE  BytesInv'
  <2>1. \A d \in Ends : \A i \in 1..Len(wire'[d]) : PacketBytes(wire[d][i])'
    BY <1>0, <1>1, BytesSame
  <2>2. \A d \in Ends : \A n \in DOMAIN pktToMsg'[d] : MessageBytes(pktToMsg[d][n])'
    BY <1>0, <1>1, MessagesSame
  <2> QED
    BY <2>1, <2>2 DEF BytesInv
<1>2. CASE \E m \in Sends : SendStep(m) \/ AbortSend(m)
  BY <1>2, BytesSend
<1>3. ASSUME NEW q \in Ends, ReaderStep(q) PROVE BytesInv'
  <2>1. CASE RouteSteps(q)
    BY <2>1, BytesRoute
  <2>2. CASE AckBytes(q)
    BY <2>2, BytesAck
  <2>3. CASE RouteError(q)
    <3>1. Incoming(q) # <<>> /\ Consume(q) /\ UNCHANGED <<sendVars, pktToMsg>>
      BY <2>3 DEF RouteError, Misplaced, Arrives
    <3>2. PICK h \in Packet : Taken(q, h)
      BY <1>0, <3>1, ConsumeEffect
    <3>3. ASSUME NEW d \in Ends, NEW i \in 1..Len(wire'[d])
          PROVE  \E k \in 1..Len(wire[d]) : wire'[d][i] = wire[d][k]
      <4>1. CASE d = Peer[q]
        <5>1. i + 1 \in 1..Len(wire[d]) /\ wire'[d][i] = wire[d][i + 1]
          BY <3>2, <4>1 DEF Taken
        <5> QED
          BY <5>1
      <4>2. CASE d # Peer[q]
        BY <3>2, <4>2 DEF Taken
      <4> QED
        BY <4>1, <4>2
    <3> QED
      BY <1>1, <3>1, <3>3
  <2>4. CASE ReadError(q)
    BY <1>1, <2>4 DEF ReadError
  <2> QED
    BY <1>3, <2>1, <2>2, <2>3, <2>4 DEF ReaderStep, RouteSteps
<1>4. CASE UNCHANGED vars \/ LinkFails \/ \E e \in Ends : Receive(e) \/ Close(e) \/ WriteBreaks(e)
  <2>1. UNCHANGED <<sendVars, pktToMsg, wire>>
    BY <1>4 DEF Receive, LinkFails, Close, WriteBreaks, vars, readVars
  <2> QED
    BY <1>1, <2>1
<1> QED
  BY <1>2, <1>3, <1>4 DEF Next

LEMMA BytesInit == Init => BytesInv
<1> SUFFICES ASSUME Init, NEW q \in Ends PROVE Len(wire[q]) = 0 /\ DOMAIN pktToMsg[q] = {}
  BY DEF BytesInv
<1> QED
  BY DEF Init, EmptyMap

(* Totals of one message do not shrink from packet to packet.                *)
LEMMA TotalsGrow ==
  ASSUME NEW m \in Sends, NEW pos1 \in Nat, NEW pos2 \in Nat, pos1 < pos2, pos2 <= next[m],
         NEW count1 \in Nat, NEW count2 \in Nat,
         IsTotal(m, pos1, count1), IsTotal(m, pos2, count2)
  PROVE  count1 <= count2
<1>0. NChunks[m] \in Nat
  BY SendsAssumption
<1>1. pos1 \in 0..NChunks[m] /\ count1 = Offset[m][pos1]
  <2>1. pos1 # next[m]
    <3>1. CASE pos1 = next[m]
      <4>1. pos2 <= pos1
        BY <3>1
      <4> QED
        BY <4>1
    <3> QED
      BY <3>1
  <2> QED
    BY <2>1 DEF IsTotal
<1>2. CASE pos2 \in 0..NChunks[m] /\ count2 = Offset[m][pos2]
  <2>1. pos1 <= pos2
    OBVIOUS
  <2> QED
    BY <1>1, <1>2, <2>1, OffsetAssumption
<1>3. CASE /\ pos2 - 1 \in 0..NChunks[m]
           /\ \E textSize \in TextSizes : count2 = Offset[m][pos2 - 1] + textSize
  <2>1. PICK textSize \in Nat : count2 = Offset[m][pos2 - 1] + textSize
    BY <1>3, TextSizesAssumption
  <2>2. pos1 <= pos2 - 1
    OBVIOUS
  <2>3. Offset[m][pos1] <= Offset[m][pos2 - 1] /\ Offset[m][pos1] \in Nat /\ Offset[m][pos2 - 1] \in Nat
    BY <1>1, <1>3, <2>2, OffsetAssumption
  <2> QED
    BY <1>1, <2>1, <2>3
<1> QED
  BY <1>2, <1>3 DEF IsTotal

(* ackBytes never acknowledges what was not sent: each ACK on the wire is    *)
(* about a message the other end sent, its count is the bytes of the packets *)
(* up to one that was written, and ACKs of one message acknowledge one       *)
(* packet after the other with counts that do not shrink.                    *)
THEOREM AcknowledgesWhatWasSent == Spec => []AcksAreSound
<1>1. IndInv /\ AckInv /\ BytesInv => AcksAreSound
  <2> SUFFICES ASSUME IndInv, AckInv, BytesInv, NEW e \in Ends, NEW i \in 1..Len(wire[e]),
                      wire[e][i].type = "ACK"
               PROVE  LET ack == wire[e][i] IN
                      /\ ack.msgNo < outgoingmsgno[Peer[e]]
                      /\ sent[Peer[e]][ack.msgNo + 1] = ack.msg
                      /\ ack.pos <= next[ack.msg]
                      /\ IsTotal(ack.msg, ack.pos, ack.bytes)
                      /\ \A j \in 1..(i - 1) :
                           wire[e][j].type = "ACK" /\ wire[e][j].msgNo = ack.msgNo
                             => wire[e][j].pos < ack.pos /\ wire[e][j].bytes <= ack.bytes
    BY DEF AcksAreSound
  <2>1. AckOK(e, wire[e][i])
    BY DEF AckInv, IsAck
  <2>2. outgoingmsgno[Peer[e]] = Len(sent[Peer[e]])
    BY EndsAssumption DEF IndInv, SendInv, Numbered
  <2>3. IsTotal(wire[e][i].msg, wire[e][i].pos, wire[e][i].bytes)
    BY DEF BytesInv, PacketBytes
  <2>4. ASSUME NEW j \in 1..(i - 1), wire[e][j].type = "ACK", wire[e][j].msgNo = wire[e][i].msgNo
        PROVE  wire[e][j].pos < wire[e][i].pos /\ wire[e][j].bytes <= wire[e][i].bytes
    <3>1. Len(wire[e]) \in Nat
      BY DEF IndInv, TypeOK, LinkTypes
    <3>2. j \in 1..Len(wire[e]) /\ j < i
      BY <3>1
    <3>3. PICK a \in Packet, b \in Packet : a = wire[e][j] /\ b = wire[e][i]
      BY <3>2 DEF IndInv, TypeOK, LinkTypes
    <3>4. a.pos < b.pos
      BY <2>4, <3>2, <3>3 DEF AckInv, AcksGrow, IsAck
    <3>5. a.msg = b.msg /\ b.pos <= next[b.msg]
      <4>1. AckOK(e, a) /\ AckOK(e, b)
        BY <2>1, <2>4, <3>2, <3>3 DEF AckInv, IsAck
      <4> QED
        BY <2>4, <3>3, <4>1 DEF AckOK
    <3>6. IsTotal(a.msg, a.pos, a.bytes) /\ IsTotal(b.msg, b.pos, b.bytes)
      BY <2>3, <2>4, <3>2, <3>3 DEF BytesInv, PacketBytes
    <3>7. a.pos \in Nat /\ b.pos \in Nat /\ a.bytes \in Nat /\ b.bytes \in Nat /\ b.msg \in Sends
      BY DEF Packet
    <3>8. a.bytes <= b.bytes
      BY <3>4, <3>5, <3>6, <3>7, TotalsGrow
    <3> QED
      BY <3>3, <3>4, <3>8
  <2> QED
    BY <2>1, <2>2, <2>3, <2>4 DEF AckOK
<1>2. Init => IndInv /\ AckInv /\ BytesInv
  BY IndInvInit, AckInvInit, BytesInit
<1>3. IndInv /\ AckInv /\ BytesInv /\ [Next]_vars => (IndInv /\ AckInv /\ BytesInv)'
  BY IndInvNext, AckInvNext, BytesNext
<1> QED
  BY <1>1, <1>2, <1>3, PTL DEF Spec
=============================================================================
