------------------------------ MODULE Connection ------------------------------
(***************************************************************************)
(* A scamp Connection (src/scamp/connection.go): two ends joined by a TLS   *)
(* stream.  Each end runs Send, from any number of goroutines that contend  *)
(* for readWriterLock, and one packetReader goroutine, which reassembles    *)
(* messages from packets, acknowledges DATA packets through the same lock   *)
(* and hands whole messages to the owner over the unbuffered channel msgs.  *)
(*                                                                          *)
(* A message is named by the Send call that transmits it.  Its body is the  *)
(* sequence of its NChunks DATA packets, so a packet is its type, its msgNo *)
(* and its payload: the message, the position in toPackets and the number   *)
(* of bytes, which may be 0.  The bufio buffers and the TCP stream of one   *)
(* direction are one bounded FIFO.                                          *)
(***************************************************************************)
EXTENDS Naturals, Sequences, FiniteSets

CONSTANTS
  Ends,         \* the two ends of the stream
  Peer,         \* [Ends -> Ends]: the other end
  Sends,        \* the Send calls, each with the message it transmits
  Sender,       \* [Sends -> Ends]: the end that makes the call
  NChunks,      \* [Sends -> Nat]: DATA packets in msg.packets
  Offset,       \* Offset[m][k]: the bytes of the first k DATA packets of m
  TextSizes,    \* sizes of the error texts that TXERR packets carry
  Malformed,    \* messages whose header MarshalJSON refuses (no MessageType)
  Unnumbered,   \* messages with RequestID 0
  Foreign,      \* ends of another scamp implementation, which send TXERR
  WireCap,      \* packets the buffers of one direction hold
  RetryLimit    \* connection.go: const RetryLimit

Free == "free"  \* readWriterLock is held by nobody

ASSUME EndsAssumption ==
  /\ Peer \in [Ends -> Ends]
  /\ \A e \in Ends : Peer[e] # e /\ Peer[Peer[e]] = e
ASSUME SendsAssumption ==
  /\ Sender \in [Sends -> Ends]
  /\ NChunks \in [Sends -> Nat]
  /\ Free \notin Sends
ASSUME OffsetAssumption == \A m \in Sends :
  /\ Offset[m] \in [0..NChunks[m] -> Nat]
  /\ Offset[m][0] = 0
  /\ \A j, k \in 0..NChunks[m] : j <= k => Offset[m][j] <= Offset[m][k]
ASSUME TextSizesAssumption == TextSizes \subseteq Nat
ASSUME BoundsAssumption ==
  /\ WireCap \in Nat \ {0}
  /\ RetryLimit \in Nat

VARIABLES
  outgoingmsgno,   \* [Ends -> Nat]
  incomingmsgno,   \* [Ends -> Nat]
  pktToMsg,        \* [Ends -> map from msgno to the message being assembled]
  readWriterLock,  \* [Ends -> the Send call that holds it, or Free]
  sendPc,          \* [Sends -> where the call is, and what it returned]
  msgno,           \* [Sends -> Nat]: Send's local outgoingmsgno
  next,            \* [Sends -> Nat]: position in toPackets of the packet to write
  retries,         \* [Sends -> Nat]: Send's local retries
  sawClosed,       \* [Sends -> BOOLEAN]: Send read isClosed as true
  reader,          \* [Ends -> where packetReader is]
  current,         \* [Ends -> Nat]: msgno of the packet being routed
  hand,            \* [Ends -> <<>> or <<the message on its way into msgs>>]
  isClosed,        \* [Ends -> BOOLEAN]
  wire,            \* [Ends -> packets written by the end and not yet read]
  werr,            \* [Ends -> what a write meets now]
  up,              \* the network still carries the stream
  sent,            \* history: [Ends -> Send calls in the order they took a msgno]
  delivered        \* history: [Ends -> messages received from msgs]

sendVars  == <<sendPc, msgno, next, retries, sawClosed, outgoingmsgno, sent>>
readVars  == <<incomingmsgno, pktToMsg, reader, current, hand, delivered>>
linkVars  == <<isClosed, werr, up>>
vars == <<sendVars, readVars, linkVars, readWriterLock, wire>>

-----------------------------------------------------------------------------
(* Messages and packets *)

(* What HEADER and DATA payloads make of a message: its header fields, its  *)
(* body so far, the bytes of that body and whether TXERR set its Error.     *)
Chunk == Sends \X Nat
Message == [hdr : Sends, body : Seq(Chunk), bytesWritten : Nat, err : BOOLEAN]
NewMessage(m) == [hdr |-> m, body |-> <<>>, bytesWritten |-> 0, err |-> FALSE]

(* Mutant of Write: bytesWritten is set and not added to.                   *)
WriteLastOnly(msg, chunk, bytes) ==
  [msg EXCEPT !.body = Append(@, chunk), !.bytesWritten = bytes]

(* Message.Write: append a packet body of so many bytes.                    *)
Write(msg, chunk, bytes) ==
  [msg EXCEPT !.body = Append(@, chunk), !.bytesWritten = @ + bytes]

(* The body a message was given by its sender.                              *)
Chunks(m) == [i \in 1..NChunks[m] |-> <<m, i>>]
Intact(msg) == ~msg.err /\ msg.body = Chunks(msg.hdr)

PacketTypes == {"HEADER", "DATA", "EOF", "TXERR", "ACK"}
Packet == [type : PacketTypes, msgNo : Nat, msg : Sends, pos : Nat, bytes : Nat]

EofPos(m) == NChunks[m] + 1

(* Message.toPackets: HEADER, then the DATA packets, then EOF, all numbered *)
(* msgNo.  PacketAt is the packet at position pos of that sequence; bytes   *)
(* is the size of a DATA body.                                              *)
IsData(m, pos) == pos \in 1..NChunks[m]
Size(m, pos) == IF IsData(m, pos) THEN Offset[m][pos] - Offset[m][pos - 1] ELSE 0

PacketAt(m, msgNo, pos) ==
  [type  |-> IF pos = 0 THEN "HEADER" ELSE IF pos = EofPos(m) THEN "EOF" ELSE "DATA",
   msgNo |-> msgNo, msg |-> m, pos |-> pos, bytes |-> Size(m, pos)]

TxErrPacket(m, msgNo, pos, textSize) ==
  [type |-> "TXERR", msgNo |-> msgNo, msg |-> m, pos |-> pos, bytes |-> textSize]

(* The body of an ACK is BytesWritten, the cumulative count of what was     *)
(* written to the message.  pos is the packet that it acknowledges, which   *)
(* it does not carry.                                                       *)
AckPacket(msgNo, msg) ==
  [type |-> "ACK", msgNo |-> msgNo, msg |-> msg.hdr, pos |-> Len(msg.body),
   bytes |-> msg.bytesWritten]

-----------------------------------------------------------------------------
(* The TLS stream.  A write meets one of three situations: it goes through  *)
(* ("none"); the packet is lost and Send does not notice, because the       *)
(* buffers took it or because the error is one Send swallows ("lost": broken*)
(* pipe); or it fails with an error that Send retries ("retried").          *)
(* bufio.Writer makes an error sticky, and nothing reaches the peer after   *)
(* the first loss.                                                          *)

WriteErrors == {"none", "lost", "retried"}

Broken(e) == ~up \/ isClosed[e] \/ isClosed[Peer[e]]
HasRoom(e) == Len(wire[e]) < WireCap
CanWrite(e) == werr[e] = "none" /\ ~isClosed[e] /\ HasRoom(e)

LinkFails ==
  /\ up
  /\ up' = FALSE
  /\ UNCHANGED <<isClosed, werr, sendVars, readVars, readWriterLock, wire>>

WriteBreaks(e) ==
  /\ Broken(e)
  /\ readWriterLock[e] # Free \/ reader[e] = "ack"   \* somebody writes
  /\ \/ werr[e] = "none" /\ werr' = [werr EXCEPT ![e] = "lost"]
     \/ werr[e] # "retried" /\ werr' = [werr EXCEPT ![e] = "retried"]
  /\ UNCHANGED <<isClosed, up, sendVars, readVars, readWriterLock, wire>>

-----------------------------------------------------------------------------
(* Connection.Send *)

(* Mutant of Send: readWriterLock is not waited for.                        *)
SendUnlocked(m) == LET e == Sender[m] IN
  /\ sendPc[m] = "idle"
  /\ m \notin Unnumbered
  /\ sendPc' = [sendPc EXCEPT ![m] = "sending"]
  /\ readWriterLock' = [readWriterLock EXCEPT ![e] = m]
  /\ msgno' = [msgno EXCEPT ![m] = outgoingmsgno[e]]
  /\ outgoingmsgno' = [outgoingmsgno EXCEPT ![e] = @ + 1]
  /\ sent' = [sent EXCEPT ![e] = Append(@, m)]
  /\ UNCHANGED <<next, retries, sawClosed, readVars, linkVars, wire>>

(* isClosed is read before the lock is taken, and without closedMutex: the  *)
(* value may be stale, but true is never read before Close.  Finding it     *)
(* true only sets the error that is returned at the end.                    *)
Send(m) == LET e == Sender[m] IN
  /\ sendPc[m] = "idle"
  /\ m \notin Unnumbered
  /\ readWriterLock[e] = Free
  /\ readWriterLock' = [readWriterLock EXCEPT ![e] = m]
  /\ \E saw \in BOOLEAN :
       /\ saw => isClosed[e]
       /\ sawClosed' = [sawClosed EXCEPT ![m] = saw]
  /\ sendPc' = [sendPc EXCEPT ![m] = "sending"]
  /\ msgno' = [msgno EXCEPT ![m] = outgoingmsgno[e]]
  /\ outgoingmsgno' = [outgoingmsgno EXCEPT ![e] = @ + 1]
  /\ sent' = [sent EXCEPT ![e] = Append(@, m)]
  /\ UNCHANGED <<next, retries, readVars, linkVars, wire>>

(* RequestID 0: an error, and no msgno is used up.                          *)
SendUnnumbered(m) ==
  /\ sendPc[m] = "idle"
  /\ m \in Unnumbered
  /\ readWriterLock[Sender[m]] = Free
  /\ sendPc' = [sendPc EXCEPT ![m] = "err"]
  /\ UNCHANGED <<msgno, next, retries, sawClosed, outgoingmsgno, sent, readVars,
                 linkVars, readWriterLock, wire>>

(* The header of a malformed message fails to marshal before a byte of it   *)
(* is written.                                                              *)
Unmarshalable(m) == m \in Malformed /\ next[m] = 0

Writing(m) ==
  /\ sendPc[m] = "sending"
  /\ readWriterLock[Sender[m]] = m
  /\ next[m] <= EofPos(m)

(* pkt.Write goes through, blocking while the buffers are full.             *)
WritePacket(m) == LET e == Sender[m] IN
  /\ Writing(m)
  /\ ~Unmarshalable(m)
  /\ CanWrite(e)
  /\ wire' = [wire EXCEPT ![e] = Append(@, PacketAt(m, msgno[m], next[m]))]
  /\ next' = [next EXCEPT ![m] = @ + 1]
  /\ retries' = [retries EXCEPT ![m] = 0]
  /\ UNCHANGED <<sendPc, msgno, sawClosed, outgoingmsgno, sent, readVars, linkVars,
                 readWriterLock>>

(* pkt.Write succeeds into a stream that is already lost, or its error is   *)
(* one of the two that only break the retry loop: err is a shadow of the    *)
(* result, and Send goes on to the next packet.                             *)
WriteSkipped(m) ==
  /\ Writing(m)
  /\ ~Unmarshalable(m)
  /\ werr[Sender[m]] = "lost"
  /\ next' = [next EXCEPT ![m] = @ + 1]
  /\ retries' = [retries EXCEPT ![m] = 0]
  /\ UNCHANGED <<sendPc, msgno, sawClosed, outgoingmsgno, sent, readVars, linkVars,
                 readWriterLock, wire>>

WriteFails(m) == Unmarshalable(m) \/ werr[Sender[m]] = "retried"

(* Mutant of WriteRetry: retries is not incremented.                        *)
WriteRetryUncounted(m) ==
  /\ Writing(m)
  /\ WriteFails(m)
  /\ retries[m] <= RetryLimit
  /\ UNCHANGED vars

(* Mutant of WriteRetry: RetryLimit is not looked at.                       *)
WriteRetryAlways(m) ==
  /\ Writing(m)
  /\ WriteFails(m)
  /\ retries' = [retries EXCEPT ![m] = @ + 1]
  /\ UNCHANGED <<sendPc, msgno, next, sawClosed, outgoingmsgno, sent, readVars, linkVars,
                 readWriterLock, wire>>

WriteRetry(m) ==
  /\ Writing(m)
  /\ WriteFails(m)
  /\ retries[m] <= RetryLimit
  /\ retries' = [retries EXCEPT ![m] = @ + 1]
  /\ UNCHANGED <<sendPc, msgno, next, sawClosed, outgoingmsgno, sent, readVars, linkVars,
                 readWriterLock, wire>>

Return(m, result) ==
  /\ sendPc' = [sendPc EXCEPT ![m] = result]
  /\ readWriterLock' = [readWriterLock EXCEPT ![Sender[m]] = Free]
  /\ retries' = [retries EXCEPT ![m] = 0]

(* "Retried too many times": the msgno stays used up.                       *)
WriteGiveUp(m) ==
  /\ Writing(m)
  /\ WriteFails(m)
  /\ retries[m] > RetryLimit
  /\ Return(m, "err")
  /\ UNCHANGED <<msgno, next, sawClosed, outgoingmsgno, sent, readVars, linkVars,
                 wire>>

(* Mutant of SendReturn: isClosed is read again at the end.                 *)
SendReturnRechecked(m) ==
  /\ sendPc[m] = "sending"
  /\ readWriterLock[Sender[m]] = m
  /\ next[m] > EofPos(m)
  /\ Return(m, IF sawClosed[m] \/ isClosed[Sender[m]] THEN "err" ELSE "ok")
  /\ UNCHANGED <<msgno, next, sawClosed, outgoingmsgno, sent, readVars, linkVars,
                 wire>>

(* All packets are written: Flush, whose error is ignored, and return.      *)
SendReturn(m) ==
  /\ sendPc[m] = "sending"
  /\ readWriterLock[Sender[m]] = m
  /\ next[m] > EofPos(m)
  /\ Return(m, IF sawClosed[m] THEN "err" ELSE "ok")
  /\ UNCHANGED <<msgno, next, sawClosed, outgoingmsgno, sent, readVars, linkVars,
                 wire>>

(* External: another implementation abandons a message it has begun.        *)
AbortSend(m) == LET e == Sender[m] IN
  /\ e \in Foreign
  /\ Writing(m)
  /\ next[m] > 0
  /\ CanWrite(e)
  /\ \E textSize \in TextSizes :
       wire' = [wire EXCEPT ![e] = Append(@, TxErrPacket(m, msgno[m], next[m], textSize))]
  /\ Return(m, "err")
  /\ UNCHANGED <<msgno, next, sawClosed, outgoingmsgno, sent, readVars, linkVars>>

-----------------------------------------------------------------------------
(* packetReader and routePacket *)

Incoming(e) == wire[Peer[e]]
Arrives(e, type) ==
  /\ reader[e] = "read"
  /\ Incoming(e) # <<>>
  /\ Head(Incoming(e)).type = type
Consume(e) == wire' = [wire EXCEPT ![Peer[e]] = Tail(@)]

EmptyMap == [n \in {} |-> n]
Tracking(e, n) == n \in DOMAIN pktToMsg[e]
Track(e, n, msg) ==
  pktToMsg' = [pktToMsg EXCEPT ![e] =
                 [k \in DOMAIN @ \cup {n} |-> IF k = n THEN msg ELSE @[k]]]
Untrack(e, n) ==
  pktToMsg' = [pktToMsg EXCEPT ![e] = [k \in DOMAIN @ \ {n} |-> @[k]]]

InSequence(e, pkt) == pkt.msgNo = incomingmsgno[e]

(* Mutant of RouteHeader: incomingmsgno is not incremented.                 *)
RouteHeaderUncounted(e) == LET pkt == Head(Incoming(e)) IN
  /\ Arrives(e, "HEADER")
  /\ InSequence(e, pkt)
  /\ ~Tracking(e, pkt.msgNo)
  /\ Consume(e)
  /\ Track(e, pkt.msgNo, NewMessage(pkt.msg))
  /\ UNCHANGED <<incomingmsgno, reader, current, hand, delivered, sendVars, linkVars,
                 readWriterLock>>

RouteHeader(e) == LET pkt == Head(Incoming(e)) IN
  /\ Arrives(e, "HEADER")
  /\ InSequence(e, pkt)
  /\ ~Tracking(e, pkt.msgNo)
  /\ Consume(e)
  /\ Track(e, pkt.msgNo, NewMessage(pkt.msg))
  /\ incomingmsgno' = [incomingmsgno EXCEPT ![e] = @ + 1]
  /\ UNCHANGED <<reader, current, hand, delivered, sendVars, linkVars, readWriterLock>>

RouteData(e) == LET pkt == Head(Incoming(e)) IN
  /\ Arrives(e, "DATA")
  /\ Tracking(e, pkt.msgNo)
  /\ Consume(e)
  /\ Track(e, pkt.msgNo, Write(pktToMsg[e][pkt.msgNo], <<pkt.msg, pkt.pos>>, pkt.bytes))
  /\ reader' = [reader EXCEPT ![e] = "ack"]
  /\ current' = [current EXCEPT ![e] = pkt.msgNo]
  /\ UNCHANGED <<incomingmsgno, hand, delivered, sendVars, linkVars, readWriterLock>>

(* The message leaves pktToMsg and waits for a receiver of msgs.            *)
HandOver(e, n) ==
  /\ Untrack(e, n)
  /\ hand' = [hand EXCEPT ![e] = <<pktToMsg[e][n]>>]
  /\ reader' = [reader EXCEPT ![e] = "deliver"]

(* Mutant of RouteEOF: the message is deleted before it is sent on msgs.    *)
RouteEOFDropped(e) == LET pkt == Head(Incoming(e)) IN
  /\ Arrives(e, "EOF")
  /\ Tracking(e, pkt.msgNo)
  /\ Consume(e)
  /\ Untrack(e, pkt.msgNo)
  /\ UNCHANGED <<incomingmsgno, reader, current, hand, delivered, sendVars, linkVars,
                 readWriterLock>>

RouteEOF(e) == LET pkt == Head(Incoming(e)) IN
  /\ Arrives(e, "EOF")
  /\ Tracking(e, pkt.msgNo)
  /\ Consume(e)
  /\ HandOver(e, pkt.msgNo)
  /\ UNCHANGED <<incomingmsgno, current, delivered, sendVars, linkVars, readWriterLock>>

(* The error text is also appended to the body: chunk 0 stands for it.      *)
RouteTXERR(e) == LET pkt == Head(Incoming(e)) IN
  /\ Arrives(e, "TXERR")
  /\ Tracking(e, pkt.msgNo)
  /\ Consume(e)
  /\ Track(e, pkt.msgNo,
           [Write(pktToMsg[e][pkt.msgNo], <<pkt.msg, 0>>, pkt.bytes) EXCEPT !.err = TRUE])
  /\ reader' = [reader EXCEPT ![e] = "ack"]
  /\ current' = [current EXCEPT ![e] = pkt.msgNo]
  /\ UNCHANGED <<incomingmsgno, hand, delivered, sendVars, linkVars, readWriterLock>>

RouteACK(e) ==
  /\ Arrives(e, "ACK")
  /\ Consume(e)
  /\ UNCHANGED <<readVars, sendVars, linkVars, readWriterLock>>

(* routePacket returns an error: packetReader leaves its loop and closes    *)
(* msgs.                                                                    *)
Misplaced(e) == LET pkt == Head(Incoming(e)) IN
  \/ Arrives(e, "HEADER") /\ (~InSequence(e, pkt) \/ Tracking(e, pkt.msgNo))
  \/ \E type \in {"DATA", "EOF", "TXERR"} : Arrives(e, type) /\ ~Tracking(e, pkt.msgNo)

StopReading(e) == reader' = [reader EXCEPT ![e] = "stopped"]

RouteError(e) ==
  /\ Misplaced(e)
  /\ Consume(e)
  /\ StopReading(e)
  /\ UNCHANGED <<incomingmsgno, pktToMsg, current, hand, delivered, sendVars, linkVars,
                 readWriterLock>>

(* ReadPacket fails: end of stream, a reset, or the end's own Close.  What  *)
(* was still on its way is lost.                                            *)
ReadError(e) ==
  /\ reader[e] = "read"
  /\ Broken(e)
  /\ StopReading(e)
  /\ UNCHANGED <<incomingmsgno, pktToMsg, current, hand, delivered, sendVars, linkVars,
                 readWriterLock, wire>>

(* ackBytes: takes readWriterLock, writes the ACK and flushes; errors are   *)
(* ignored.  Then routePacket is done with DATA, and hands TXERR over.      *)
AckBytes(e) == LET msg == pktToMsg[e][current[e]] IN
  /\ reader[e] = "ack"
  /\ readWriterLock[e] = Free
  /\ \/ CanWrite(e) /\ wire' = [wire EXCEPT ![e] = Append(@, AckPacket(current[e], msg))]
     \/ werr[e] # "none" /\ UNCHANGED wire
  /\ IF msg.err
     THEN HandOver(e, current[e])
     ELSE /\ reader' = [reader EXCEPT ![e] = "read"]
          /\ UNCHANGED <<pktToMsg, hand>>
  /\ current' = [current EXCEPT ![e] = 0]
  /\ UNCHANGED <<incomingmsgno, delivered, sendVars, linkVars, readWriterLock>>

(* The owner of the connection receives from msgs.                          *)
Receive(e) ==
  /\ reader[e] = "deliver"
  /\ delivered' = [delivered EXCEPT ![e] = Append(@, hand[e][1])]
  /\ hand' = [hand EXCEPT ![e] = <<>>]
  /\ reader' = [reader EXCEPT ![e] = "read"]
  /\ UNCHANGED <<incomingmsgno, pktToMsg, current, sendVars, linkVars, readWriterLock, wire>>

(* Connection.Close, once: a second call finds isClosed.                    *)
Close(e) ==
  /\ ~isClosed[e]
  /\ isClosed' = [isClosed EXCEPT ![e] = TRUE]
  /\ UNCHANGED <<werr, up, sendVars, readVars, readWriterLock, wire>>

-----------------------------------------------------------------------------
(* NewConnection at both ends.                                              *)
Init ==
  /\ outgoingmsgno = [e \in Ends |-> 0]
  /\ incomingmsgno = [e \in Ends |-> 0]
  /\ pktToMsg = [e \in Ends |-> EmptyMap]
  /\ readWriterLock = [e \in Ends |-> Free]
  /\ sendPc = [m \in Sends |-> "idle"]
  /\ msgno = [m \in Sends |-> 0]
  /\ next = [m \in Sends |-> 0]
  /\ retries = [m \in Sends |-> 0]
  /\ sawClosed = [m \in Sends |-> FALSE]
  /\ reader = [e \in Ends |-> "read"]
  /\ current = [e \in Ends |-> 0]
  /\ hand = [e \in Ends |-> <<>>]
  /\ isClosed = [e \in Ends |-> FALSE]
  /\ wire = [e \in Ends |-> <<>>]
  /\ werr = [e \in Ends |-> "none"]
  /\ up = TRUE
  /\ sent = [e \in Ends |-> <<>>]
  /\ delivered = [e \in Ends |-> <<>>]

SendStep(m) ==
  \/ Send(m) \/ SendUnnumbered(m) \/ WritePacket(m) \/ WriteSkipped(m)
  \/ WriteRetry(m) \/ WriteGiveUp(m) \/ SendReturn(m)

ReaderStep(e) ==
  \/ RouteHeader(e) \/ RouteData(e) \/ RouteEOF(e) \/ RouteTXERR(e) \/ RouteACK(e)
  \/ RouteError(e) \/ ReadError(e) \/ AckBytes(e)

Next ==
  \/ \E m \in Sends : SendStep(m) \/ AbortSend(m)
  \/ \E e \in Ends : ReaderStep(e) \/ Receive(e) \/ Close(e) \/ WriteBreaks(e)
  \/ LinkFails

Spec == Init /\ [][Next]_vars

(* Goroutines are scheduled, a write to a broken stream fails in the end,   *)
(* the owner keeps receiving, and once msgs is closed it calls Close        *)
(* (splitReqsAndReps does both).  The reader and its owner take turns, so   *)
(* one formula says that they go on.  Nobody has to call Close or Send      *)
(* before.                                                                  *)
ReadSide(e) == ReaderStep(e) \/ Receive(e) \/ (Close(e) /\ reader[e] = "stopped")

Fairness ==
  /\ \A m \in Sends : WF_vars(SendStep(m) /\ sendPc[m] # "idle")
  /\ \A e \in Ends : WF_vars(ReadSide(e)) /\ WF_vars(WriteBreaks(e))

FairSpec == Spec /\ Fairness

-----------------------------------------------------------------------------
(* Properties *)

SendPcs == {"idle", "sending", "ok", "err"}
ReaderPcs == {"read", "ack", "deliver", "stopped"}

SendTypes ==
  /\ outgoingmsgno \in [Ends -> Nat]
  /\ readWriterLock \in [Ends -> Sends \cup {Free}]
  /\ sendPc \in [Sends -> SendPcs]
  /\ msgno \in [Sends -> Nat]
  /\ next \in [Sends -> Nat]
  /\ retries \in [Sends -> 0..(RetryLimit + 1)]
  /\ sawClosed \in [Sends -> BOOLEAN]
  /\ sent \in [Ends -> Seq(Sends)]

MapTypes ==
  /\ DOMAIN pktToMsg = Ends
  /\ \A e \in Ends : DOMAIN pktToMsg[e] \subseteq Nat
  /\ \A e \in Ends : \A n \in DOMAIN pktToMsg[e] : pktToMsg[e][n] \in Message

ReadTypes ==
  /\ incomingmsgno \in [Ends -> Nat]
  /\ reader \in [Ends -> ReaderPcs]
  /\ current \in [Ends -> Nat]
  /\ hand \in [Ends -> Seq(Message)]
  /\ delivered \in [Ends -> Seq(Message)]
  /\ MapTypes
  /\ \A e \in Ends : reader[e] = "ack" => current[e] \in DOMAIN pktToMsg[e]
  /\ \A e \in Ends : Len(hand[e]) = IF reader[e] = "deliver" THEN 1 ELSE 0

LinkTypes ==
  /\ isClosed \in [Ends -> BOOLEAN]
  /\ werr \in [Ends -> WriteErrors]
  /\ up \in BOOLEAN
  /\ wire \in [Ends -> Seq(Packet)]
  /\ \A e \in Ends : Len(wire[e]) <= WireCap

(* The shape of the state of both ends and of the stream: every map in       *)
(* pktToMsg is keyed by message numbers and holds messages, the packet being *)
(* acknowledged belongs to a message in it, and the reader holds a message   *)
(* exactly when it is blocked sending on msgs.                               *)
TypeOK == SendTypes /\ ReadTypes /\ LinkTypes

(* Send holds readWriterLock over all packets of a message, so packetReader  *)
(* never assembles two messages at once: pktToMsg holds at most the message  *)
(* numbered incomingmsgno - 1, it is the one its sender gave that number,    *)
(* and its body so far is a prefix of the sender's.                          *)
OneMessageAtATime ==
  \A e \in Ends : \A n \in DOMAIN pktToMsg[e] :
    LET msg == pktToMsg[e][n] IN
      /\ n + 1 = incomingmsgno[e]
      /\ n < Len(sent[Peer[e]])
      /\ msg.hdr = sent[Peer[e]][n + 1]
      /\ ~msg.err => /\ Len(msg.body) <= NChunks[msg.hdr]
                     /\ \A i \in 1..Len(msg.body) : msg.body[i] = <<msg.hdr, i>>

(* count is the bytes of the packets of message m up to position pos: DATA   *)
(* packets, or DATA packets and the text of the TXERR that ended m at pos.   *)
IsTotal(m, pos, count) ==
  \/ pos \in 0..NChunks[m] /\ count = Offset[m][pos]
  \/ /\ pos = next[m] /\ pos - 1 \in 0..NChunks[m] /\ sendPc[m] = "err"
     /\ \E textSize \in TextSizes : count = Offset[m][pos - 1] + textSize

(* ackBytes acknowledges the cumulative count of bytes written to the        *)
(* message: an ACK on its way back to a sender names a message that sender   *)
(* numbered so, and its count is exactly the bytes of the packets up to one  *)
(* that the sender has written, the text of a TXERR included.  The ACKs of   *)
(* one message acknowledge one packet after the other, each once; their      *)
(* counts never shrink, and repeat only for an empty packet.                 *)
AcksAreSound ==
  \A e \in Ends : \A i \in 1..Len(wire[e]) :
    LET ack == wire[e][i] IN
      ack.type = "ACK" =>
        /\ ack.msgNo < outgoingmsgno[Peer[e]]
        /\ sent[Peer[e]][ack.msgNo + 1] = ack.msg
        /\ ack.pos <= next[ack.msg]
        /\ IsTotal(ack.msg, ack.pos, ack.bytes)
        /\ \A j \in 1..(i - 1) :
             wire[e][j].type = "ACK" /\ wire[e][j].msgNo = ack.msgNo
               => wire[e][j].pos < ack.pos /\ wire[e][j].bytes <= ack.bytes

(* routePacket's error returns guard against a peer that breaks the          *)
(* protocol: between two ends running this code they are reached only after  *)
(* a Send that failed to marshal its header and used up a msgno all the      *)
(* same.                                                                     *)
MisplacedOnlyAfterMalformed ==
  \A e \in Ends : Misplaced(e) =>
    \E k \in 1..Len(sent[Peer[e]]) : sent[Peer[e]][k] \in Malformed

(* The connection implements MessageChannel: FIFO, no duplicates, nothing    *)
(* cut short unflagged, and a Send that returns an error (what makes         *)
(* MakeJSONRequest try the next service) has not transmitted its message.    *)
Channel == INSTANCE MessageChannel WITH
  received <- [e \in Ends |-> [k \in 1..Len(delivered[e]) |->
                 [msg |-> delivered[e][k].hdr, whole |-> Intact(delivered[e][k])]]],
  result <- [m \in Sends |-> IF sendPc[m] \in {"ok", "err"} THEN sendPc[m] ELSE "pending"]
ChannelSpec == Channel!Spec

(* Every Send returns and releases readWriterLock: the retry loop ends, and  *)
(* a write blocked on full buffers goes on when the peer reads.              *)
SendReturns == \A m \in Sends : sendPc[m] = "sending" ~> sendPc[m] \in {"ok", "err"}

(* On a stream that stays healthy a message whose number the peer expects is *)
(* delivered in the end: neither side waits forever for the other.           *)
EventuallyDelivered ==
  \A m \in Sends : LET e == Sender[m] IN
    (/\ \E k \in 1..Len(sent[e]) : sent[e][k] = m
     /\ \A k \in 1..Len(sent[e]) : sent[e][k] \notin Malformed)
      ~> (\/ \E k \in 1..Len(delivered[Peer[e]]) : delivered[Peer[e]][k].hdr = m
          \/ Broken(e)
          \/ \E k \in 1..Len(sent[e]) : sent[e][k] \in Malformed)

(* Chunking is there "to avoid head-of-line blocking": never are both ends   *)
(* stuck in a Send on full buffers while both readers wait for the lock that *)
(* their own Send holds.                                                     *)
NoMutualBlocking ==
  ~ \A e \in Ends :
      /\ reader[e] = "ack"
      /\ \E m \in Sends : Sender[m] = e /\ Writing(m)
      /\ ~HasRoom(e)
      /\ ~Broken(e)
=============================================================================
