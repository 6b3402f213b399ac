-------------------------------- MODULE Client --------------------------------
(***************************************************************************)
(* A scamp Client (src/scamp/client.go) over one Connection: the goroutine  *)
(* splitReqsAndReps, which sorts incoming messages into requests and        *)
(* replies; any number of goroutines inside client.Send, those that sent a  *)
(* request going on to wait for the reply or a timeout as MakeJSONRequest   *)
(* does (src/scamp/requester.go); the consumer of Incoming(); and any       *)
(* number of goroutines that call Close.                                    *)
(*                                                                          *)
(* Channels are unbuffered: a send and its receive are one step of both     *)
(* goroutines.  A reply channel is named by the call that made it.  The     *)
(* peer is arbitrary: it answers requests it has received in any order, at  *)
(* any time, more than once or never, and sends requests of its own.        *)
(***************************************************************************)
EXTENDS Naturals, Sequences, FiniteSets

CONSTANTS
  Calls,        \* the calls of client.Send
  Closers,      \* goroutines that call Close
  Handled,      \* somebody consumes Incoming() (Service.Handle does)
  MaxIncoming   \* bound: messages the peer sends

Split == "split"      \* splitReqsAndReps as a caller of Close
NoCall == "nobody"

ASSUME CallsAssumption ==
  /\ NoCall \notin Calls
  /\ Split \notin Closers
  /\ NoCall \notin Closers \cup {Split}
ASSUME LimitsAssumption == Handled \in BOOLEAN /\ MaxIncoming \in Nat

VARIABLES
  conn,           \* client.conn # nil
  isClosed,       \* client.isClosed
  closedM,        \* closedM: the goroutine inside Close, or NoCall
  sendM,          \* sendM: the call inside Send, or NoCall
  nextRequestID,
  openReplies,    \* map from request ID to the call whose channel it is
  call,           \* [Calls -> where the call is, and how it ended]
  requestID,      \* [Calls -> Nat]: msg.RequestID
  got,            \* [Calls -> the call its reply answers, or NoCall]
  channel,        \* [Calls -> "none", "open" or "closed"]: its responseChan
  requests,       \* client.requests: "open" or "closed"
  split,          \* where splitReqsAndReps is
  message,        \* the reply it has in hand
  replyChan,      \* the call whose channel it sends to
  closer,         \* [Closers \cup {Split} -> where its Close is]
  handler,        \* the consumer of Incoming(): "waiting" or "gone"
  connClosed,     \* conn.isClosed
  linkUp,         \* the stream is intact
  msgs,           \* conn.msgs: <<>>, or <<the message packetReader offers>>
  msgsClosed,     \* packetReader has closed conn.msgs
  transmitted,    \* the calls whose request the peer has received
  incoming,       \* how many messages the peer has sent
  dropped,        \* history: calls whose reply found no channel registered
  crashed         \* the process has died of a nil dereference

sendVars  == <<sendM, nextRequestID, call, requestID, got, transmitted>>
replyVars == <<openReplies, channel>>
splitVars == <<split, message, replyChan, requests, dropped>>
closeVars == <<conn, isClosed, closedM, closer>>
connVars  == <<connClosed, linkUp, msgs, msgsClosed, incoming>>
vars == <<sendVars, replyVars, splitVars, closeVars, connVars, handler, crashed>>

-----------------------------------------------------------------------------
(* The connection and the peer *)

Alive == linkUp /\ ~connClosed

(* A message from the peer: its type, its RequestID and, for a reply, the    *)
(* call whose request it answers.                                           *)
Incoming == [type : {"request", "reply", "other"}, id : Nat, answers : Calls \cup {NoCall}]

NoMessage == [type |-> "other", id |-> 0, answers |-> NoCall]

(* External: a message of the peer reaches packetReader, which offers it on *)
(* msgs.                                                                    *)
PeerSends ==
  /\ ~crashed
  /\ Alive /\ ~msgsClosed
  /\ msgs = <<>>
  /\ incoming < MaxIncoming
  /\ \/ \E c \in transmitted :
          msgs' = <<[type |-> "reply", id |-> requestID[c], answers |-> c]>>
     \/ \E type \in {"request", "other"} :
          msgs' = <<[NoMessage EXCEPT !.type = type]>>
  /\ incoming' = incoming + 1
  /\ UNCHANGED <<connClosed, linkUp, msgsClosed, sendVars, replyVars, splitVars,
                 closeVars, handler, crashed>>

LinkBreaks ==
  /\ ~crashed
  /\ Alive
  /\ linkUp' = FALSE
  /\ UNCHANGED <<connClosed, msgs, msgsClosed, incoming, sendVars, replyVars, splitVars,
                 closeVars, handler, crashed>>

(* packetReader meets the read error, unless it is still blocked on msgs.   *)
ReaderStops ==
  /\ ~crashed
  /\ ~Alive /\ ~msgsClosed
  /\ msgs = <<>>
  /\ msgsClosed' = TRUE
  /\ UNCHANGED <<connClosed, linkUp, msgs, incoming, sendVars, replyVars, splitVars,
                 closeVars, handler, crashed>>

-----------------------------------------------------------------------------
(* client.Send, and MakeJSONRequest's wait for the response *)

(* A goroutine calls client.Send and queues for sendM.                      *)
SendCall(c) ==
  /\ ~crashed
  /\ call[c] = "idle"
  /\ call' = [call EXCEPT ![c] = "locking"]
  /\ UNCHANGED <<sendM, nextRequestID, requestID, got, transmitted, replyVars, splitVars, closeVars,
                 connVars, handler, crashed>>

(* Mutant of SendBegin: nextRequestID is not incremented.                   *)
SendBeginUnnumbered(c) ==
  /\ ~crashed
  /\ call[c] = "locking"
  /\ sendM = NoCall
  /\ conn
  /\ sendM' = c
  /\ requestID' = [requestID EXCEPT ![c] = nextRequestID + 1]
  /\ call' = [call EXCEPT ![c] = "sending"]
  /\ UNCHANGED <<nextRequestID, got, transmitted, replyVars, splitVars, closeVars, connVars, handler,
                 crashed>>

(* sendM is taken, the message numbered, and conn.Send entered.             *)
SendBegin(c) ==
  /\ ~crashed
  /\ call[c] = "locking"
  /\ sendM = NoCall
  /\ conn
  /\ sendM' = c
  /\ nextRequestID' = nextRequestID + 1
  /\ requestID' = [requestID EXCEPT ![c] = nextRequestID + 1]
  /\ call' = [call EXCEPT ![c] = "sending"]
  /\ UNCHANGED <<got, transmitted, replyVars, splitVars, closeVars, connVars, handler, crashed>>

(* client.conn is nil: conn.Send returns an error at once, and the number is *)
(* used up.                                                                 *)
SendNil(c) ==
  /\ ~crashed
  /\ call[c] = "locking"
  /\ sendM = NoCall
  /\ ~conn
  /\ nextRequestID' = nextRequestID + 1
  /\ requestID' = [requestID EXCEPT ![c] = nextRequestID + 1]
  /\ call' = [call EXCEPT ![c] = "error"]
  /\ UNCHANGED <<sendM, got, transmitted, replyVars, splitVars, closeVars, connVars, handler, crashed>>

(* conn.Send returns without an error.  It reports none when the stream      *)
(* breaks under it, so the message may be lost.  The peer may have the       *)
(* request before conn.Send returns, and may answer it at once.             *)
SendTransmit(c) ==
  /\ ~crashed
  /\ call[c] = "sending"
  /\ \/ /\ call' = [call EXCEPT ![c] = "transmitted"]          \* MessageTypeRequest
        /\ transmitted' = IF Alive THEN transmitted \cup {c} ELSE transmitted
     \/ /\ call' = [call EXCEPT ![c] = "replying"]             \* MessageTypeReply
        /\ UNCHANGED transmitted
  /\ UNCHANGED <<sendM, nextRequestID, requestID, got, replyVars, splitVars, closeVars, connVars,
                 handler, crashed>>

(* conn.Send returns an error: the write failed.                            *)
SendError(c) ==
  /\ ~crashed
  /\ call[c] = "sending"
  /\ ~Alive
  /\ sendM' = NoCall
  /\ call' = [call EXCEPT ![c] = "error"]
  /\ UNCHANGED <<nextRequestID, requestID, got, transmitted, replyVars, splitVars, closeVars, connVars,
                 handler, crashed>>

(* Mutant of SendRegister: sendM is not unlocked.                           *)
SendRegisterLocked(c) ==
  /\ ~crashed
  /\ call[c] = "transmitted"
  /\ channel' = [channel EXCEPT ![c] = "open"]
  /\ openReplies' = [id \in DOMAIN openReplies \cup {requestID[c]} |->
                       IF id = requestID[c] THEN c ELSE openReplies[id]]
  /\ call' = [call EXCEPT ![c] = "waiting"]
  /\ UNCHANGED <<sendM, nextRequestID, requestID, got, transmitted, splitVars, closeVars,
                 connVars, handler, crashed>>

(* Mutant of SendRegister: the number is read before it was incremented.     *)
SendRegisterEarlierID(c) == LET stale == requestID[c] - 1 IN
  /\ ~crashed
  /\ call[c] = "transmitted"
  /\ channel' = [channel EXCEPT ![c] = "open"]
  /\ openReplies' = [id \in DOMAIN openReplies \cup {stale} |->
                       IF id = stale THEN c ELSE openReplies[id]]
  /\ sendM' = NoCall
  /\ call' = [call EXCEPT ![c] = "waiting"]
  /\ UNCHANGED <<nextRequestID, requestID, got, transmitted, splitVars, closeVars, connVars,
                 handler, crashed>>

(* Only now, after the message is out, the reply channel is registered.     *)
SendRegister(c) ==
  /\ ~crashed
  /\ call[c] = "transmitted"
  /\ channel' = [channel EXCEPT ![c] = "open"]
  /\ openReplies' = [id \in DOMAIN openReplies \cup {requestID[c]} |->
                       IF id = requestID[c] THEN c ELSE openReplies[id]]
  /\ sendM' = NoCall
  /\ call' = [call EXCEPT ![c] = "waiting"]
  /\ UNCHANGED <<nextRequestID, requestID, got, transmitted, splitVars, closeVars, connVars,
                 handler, crashed>>

(* A reply that was sent needs no channel.                                  *)
SendReplied(c) ==
  /\ ~crashed
  /\ call[c] = "replying"
  /\ sendM' = NoCall
  /\ call' = [call EXCEPT ![c] = "replied"]
  /\ UNCHANGED <<nextRequestID, requestID, got, transmitted, replyVars, splitVars, closeVars,
                 connVars, handler, crashed>>

(* splitReqsAndReps sends on the channel and the waiting call receives.     *)
GetReply(c) ==
  /\ ~crashed
  /\ call[c] = "waiting"
  /\ split = "reply" /\ replyChan = c
  /\ call' = [call EXCEPT ![c] = "answered"]
  /\ got' = [got EXCEPT ![c] = message.answers]
  /\ split' = "loop"
  /\ replyChan' = NoCall
  /\ message' = NoMessage
  /\ UNCHANGED <<sendM, nextRequestID, requestID, transmitted, replyVars, requests,
                 dropped, closeVars, connVars, handler, crashed>>

(* The channel was closed: "no response was found".                         *)
GetClosed(c) ==
  /\ ~crashed
  /\ call[c] = "waiting"
  /\ channel[c] = "closed"
  /\ call' = [call EXCEPT ![c] = "noresponse"]
  /\ UNCHANGED <<sendM, nextRequestID, requestID, got, transmitted, replyVars, splitVars,
                 closeVars, connVars, handler, crashed>>

(* "request timed out": the entry of openReplies stays.                     *)
Timeout(c) ==
  /\ ~crashed
  /\ call[c] = "waiting"
  /\ call' = [call EXCEPT ![c] = "timedout"]
  /\ UNCHANGED <<sendM, nextRequestID, requestID, got, transmitted, replyVars, splitVars,
                 closeVars, connVars, handler, crashed>>

-----------------------------------------------------------------------------
(* splitReqsAndReps *)

(* The select evaluates client.conn.msgs, once per iteration.               *)
SplitSelect ==
  /\ ~crashed
  /\ split = "loop"
  /\ conn
  /\ split' = "select"
  /\ UNCHANGED <<message, replyChan, requests, dropped, sendVars, replyVars, closeVars,
                 connVars, handler, crashed>>

(* client.conn was set to nil by Close: the dereference panics.             *)
SplitPanics ==
  /\ ~crashed
  /\ split = "loop"
  /\ ~conn
  /\ crashed' = TRUE
  /\ UNCHANGED <<sendVars, replyVars, splitVars, closeVars, connVars, handler>>

Receive(type) ==
  /\ split = "select"
  /\ msgs # <<>>
  /\ msgs[1].type = type
  /\ msgs' = <<>>
  /\ UNCHANGED <<connClosed, linkUp, msgsClosed, incoming>>

SplitRequest ==
  /\ ~crashed
  /\ Receive("request")
  /\ split' = "request"
  /\ UNCHANGED <<message, replyChan, requests, dropped, sendVars, replyVars, closeVars,
                 handler, crashed>>

(* Look the channel up and delete it, under openRepliesLock, then send.     *)
SplitReply == LET id == msgs[1].id IN
  /\ ~crashed
  /\ Receive("reply")
  /\ id \in DOMAIN openReplies
  /\ message' = msgs[1]
  /\ replyChan' = openReplies[id]
  /\ openReplies' = [i \in DOMAIN openReplies \ {id} |-> openReplies[i]]
  /\ split' = "reply"
  /\ UNCHANGED <<channel, requests, dropped, sendVars, closeVars, handler, crashed>>

(* No channel is registered under that ID: the reply is skipped.            *)
SplitUnexpected ==
  /\ ~crashed
  /\ Receive("reply")
  /\ msgs[1].id \notin DOMAIN openReplies
  /\ dropped' = dropped \cup {msgs[1].answers}
  /\ split' = "loop"
  /\ UNCHANGED <<message, replyChan, requests, sendVars, replyVars, closeVars, handler,
                 crashed>>

SplitSkip ==
  /\ ~crashed
  /\ Receive("other")
  /\ split' = "loop"
  /\ UNCHANGED <<message, replyChan, requests, dropped, sendVars, replyVars, closeVars,
                 handler, crashed>>

(* msgs is closed: leave the loop and close(client.requests).               *)
SplitEnd ==
  /\ ~crashed
  /\ split = "select"
  /\ msgsClosed /\ msgs = <<>>
  /\ requests' = "closed"
  /\ split' = "sweep"
  /\ UNCHANGED <<message, replyChan, dropped, sendVars, replyVars, closeVars, connVars, handler, crashed>>

Registered == {openReplies[id] : id \in DOMAIN openReplies}

(* Mutant of SplitSweep: the splitter leaves Close to others.               *)
SplitSweepOnly ==
  /\ ~crashed
  /\ split = "sweep"
  /\ channel' = [c \in Calls |-> IF c \in Registered THEN "closed" ELSE channel[c]]
  /\ split' = "done"
  /\ UNCHANGED <<message, replyChan, requests, dropped, openReplies, sendVars, closeVars,
                 connVars, handler, crashed>>

(* Close every channel in openReplies; the map keeps its entries.           *)
SplitSweep ==
  /\ ~crashed
  /\ split = "sweep"
  /\ channel' = [c \in Calls |-> IF c \in Registered THEN "closed" ELSE channel[c]]
  /\ split' = IF isClosed THEN "done" ELSE "close"
  /\ UNCHANGED <<message, replyChan, requests, dropped, openReplies, sendVars, closeVars,
                 connVars, handler, crashed>>

-----------------------------------------------------------------------------
(* The consumer of Incoming() *)

TakeRequest ==
  /\ ~crashed
  /\ handler = "waiting"
  /\ split = "request"
  /\ split' = "loop"
  /\ UNCHANGED <<message, replyChan, requests, dropped, sendVars, replyVars, closeVars,
                 connVars, handler, crashed>>

(* It finds the channel closed, or gives up after msgTimeout.               *)
HandlerLeaves ==
  /\ ~crashed
  /\ handler = "waiting"
  /\ handler' = "gone"
  /\ UNCHANGED <<sendVars, replyVars, splitVars, closeVars, connVars, crashed>>

-----------------------------------------------------------------------------
(* client.Close *)

MayClose(k) == k \in Closers \/ split = "close"

(* Mutant of CloseBegin: isClosed is not tested.                            *)
CloseBeginUnchecked(k) ==
  /\ ~crashed
  /\ MayClose(k)
  /\ closer[k] = "idle"
  /\ closedM = NoCall
  /\ closedM' = k
  /\ closer' = [closer EXCEPT ![k] = "closing"]
  /\ UNCHANGED <<conn, isClosed, sendVars, replyVars, splitVars, connVars, handler, crashed>>

CloseBegin(k) ==
  /\ ~crashed
  /\ MayClose(k)
  /\ closer[k] = "idle"
  /\ closedM = NoCall
  /\ ~isClosed
  /\ closedM' = k
  /\ closer' = [closer EXCEPT ![k] = "closing"]
  /\ UNCHANGED <<conn, isClosed, sendVars, replyVars, splitVars, connVars, handler, crashed>>

CloseAgain(k) ==
  /\ ~crashed
  /\ MayClose(k)
  /\ closer[k] = "idle"
  /\ closedM = NoCall
  /\ isClosed
  /\ closer' = [closer EXCEPT ![k] = "done"]
  /\ UNCHANGED <<conn, isClosed, closedM, sendVars, replyVars, splitVars, connVars, handler, crashed>>

(* closeConnection: conn.Close() unless it was closed, client.conn = nil.   *)
CloseConnection(k) ==
  /\ ~crashed
  /\ closer[k] = "closing"
  /\ connClosed' = TRUE
  /\ conn' = FALSE
  /\ closer' = [closer EXCEPT ![k] = "marking"]
  /\ UNCHANGED <<isClosed, closedM, linkUp, msgs, msgsClosed, incoming, sendVars, replyVars,
                 splitVars, handler, crashed>>

(* Mutant of CloseEnd: Close itself closes the open reply channels.         *)
CloseEndAndSweep(k) ==
  /\ ~crashed
  /\ closer[k] = "marking"
  /\ isClosed' = TRUE
  /\ closedM' = NoCall
  /\ closer' = [closer EXCEPT ![k] = "done"]
  /\ channel' = [c \in Calls |-> IF c \in Registered THEN "closed" ELSE channel[c]]
  /\ UNCHANGED <<conn, openReplies, sendVars, splitVars, connVars, handler, crashed>>

CloseEnd(k) ==
  /\ ~crashed
  /\ closer[k] = "marking"
  /\ isClosed' = TRUE
  /\ closedM' = NoCall
  /\ closer' = [closer EXCEPT ![k] = "done"]
  /\ UNCHANGED <<conn, sendVars, replyVars, splitVars, connVars, handler, crashed>>

(* splitReqsAndReps returns after its own Close.                            *)
SplitReturn ==
  /\ ~crashed
  /\ split = "close"
  /\ closer[Split] = "done"
  /\ split' = "done"
  /\ UNCHANGED <<message, replyChan, requests, dropped, sendVars, replyVars, closeVars,
                 connVars, handler, crashed>>

-----------------------------------------------------------------------------
(* NewClient on a fresh connection *)
Init ==
  /\ conn = TRUE /\ isClosed = FALSE /\ closedM = NoCall
  /\ closer = [k \in Closers \cup {Split} |-> "idle"]
  /\ sendM = NoCall /\ nextRequestID = 0
  /\ openReplies = [id \in {} |-> NoCall]
  /\ call = [c \in Calls |-> "idle"]
  /\ requestID = [c \in Calls |-> 0]
  /\ got = [c \in Calls |-> NoCall]
  /\ channel = [c \in Calls |-> "none"]
  /\ requests = "open" /\ split = "loop" /\ replyChan = NoCall
  /\ message = NoMessage
  /\ handler = IF Handled THEN "waiting" ELSE "gone"
  /\ connClosed = FALSE /\ linkUp = TRUE /\ msgs = <<>> /\ msgsClosed = FALSE
  /\ transmitted = {} /\ incoming = 0 /\ dropped = {}
  /\ crashed = FALSE

CallStep(c) ==
  SendBegin(c) \/ SendNil(c) \/ SendError(c) \/ SendRegister(c) \/ SendReplied(c) \/ GetReply(c)
    \/ GetClosed(c)
SplitStep ==
  \/ SplitSelect \/ SplitRequest \/ SplitReply \/ SplitUnexpected \/ SplitSkip
  \/ SplitEnd \/ SplitSweep \/ SplitReturn
CloseStep(k) == CloseBegin(k) \/ CloseAgain(k) \/ CloseConnection(k) \/ CloseEnd(k)
HandlerStep == TakeRequest \/ HandlerLeaves
ConnStep == PeerSends \/ LinkBreaks \/ ReaderStops

(* A panic in any goroutine ends the process: no action is enabled then.    *)
Next ==
  \/ \E c \in Calls : SendCall(c) \/ CallStep(c) \/ SendTransmit(c) \/ Timeout(c)
  \/ \E k \in Closers \cup {Split} : CloseStep(k)
  \/ SplitStep \/ SplitPanics \/ HandlerStep \/ ConnStep

Spec == Init /\ [][Next]_vars

(* Goroutines that can run are run, sendM is handed on, timers fire, and on  *)
(* a broken or closed stream reader and writer notice.  Nobody has to start  *)
(* a Send or a Close, conn.Send may stay inside for good while the stream    *)
(* lives, and the peer and the consumer of Incoming() owe nothing.           *)
Fairness ==
  /\ \A c \in Calls : /\ WF_vars(CallStep(c) \/ (~Alive /\ SendTransmit(c)))
                      /\ WF_vars(Timeout(c))
  /\ \A k \in Closers \cup {Split} :
       WF_vars(CloseStep(k) /\ (k = Split \/ closer[k] # "idle"))
  /\ WF_vars(SplitStep \/ SplitPanics) /\ WF_vars(TakeRequest) /\ WF_vars(ReaderStops)

FairSpec == Spec /\ Fairness

-----------------------------------------------------------------------------
(* Properties *)

CallPcs == {"idle", "locking", "sending", "transmitted", "waiting", "replying", "replied", "answered", "noresponse",
            "timedout", "error"}
SplitPcs == {"loop", "select", "request", "reply", "sweep", "close", "done"}
CloserPcs == {"idle", "closing", "marking", "done"}

SendTypes ==
  /\ sendM \in Calls \cup {NoCall}
  /\ call \in [Calls -> CallPcs]
  /\ \A c \in Calls : sendM = c <=> call[c] \in {"sending", "transmitted", "replying"}
  /\ nextRequestID \in Nat
  /\ requestID \in [Calls -> Nat] /\ got \in [Calls -> Calls \cup {NoCall}]
  /\ transmitted \subseteq Calls

ReplyTypes ==
  /\ DOMAIN openReplies \subseteq Nat /\ Registered \subseteq Calls
  /\ channel \in [Calls -> {"none", "open", "closed"}]

SplitTypes ==
  /\ split \in SplitPcs /\ message \in Incoming
  /\ replyChan \in Calls \cup {NoCall}
  /\ split = "reply" <=> replyChan # NoCall
  /\ requests \in {"open", "closed"} /\ dropped \subseteq Calls

CloseTypes ==
  /\ conn \in BOOLEAN /\ isClosed \in BOOLEAN
  /\ closedM \in Closers \cup {Split, NoCall}
  /\ closer \in [Closers \cup {Split} -> CloserPcs]
  /\ \A k \in Closers \cup {Split} : closedM = k <=> closer[k] \in {"closing", "marking"}

ConnTypes ==
  /\ connClosed \in BOOLEAN /\ linkUp \in BOOLEAN /\ msgsClosed \in BOOLEAN
  /\ msgs \in Seq(Incoming) /\ Len(msgs) <= 1
  /\ incoming \in 0..MaxIncoming

(* The shape of the client's state: openReplies maps request IDs to calls,   *)
(* sendM and closedM are held by who is inside Send and Close, and the       *)
(* splitter has a reply channel in hand exactly while it sends on one.       *)
TypeOK ==
  /\ SendTypes /\ ReplyTypes /\ SplitTypes /\ CloseTypes /\ ConnTypes
  /\ handler \in {"waiting", "gone"} /\ crashed \in BOOLEAN

(* The reply a caller gets is the one to its own request, and so is the one  *)
(* on its way to it: concurrent Sends never share a request ID, and late or  *)
(* repeated replies never reach a later call.                                *)
RepliesMatchRequests ==
  /\ \A c \in Calls : call[c] = "answered" => got[c] = c
  /\ split = "reply" => message.answers = replyChan

(* "we can rest assured that we will not double-close a channel": nothing is *)
(* sent on, and the final sweep closes nothing, that is already closed, in   *)
(* whatever order callers, the splitter and Close run.                       *)
ChannelDiscipline ==
  /\ split = "request" => requests = "open"
  /\ split = "reply" => channel[replyChan] = "open"
  /\ split = "sweep" => \A c \in Registered : channel[c] = "open"

(* closeConnection dereferences client.conn, which Close itself sets to nil: *)
(* of all the goroutines that call Close exactly one gets that far.          *)
ClosedOnce ==
  /\ \A k \in Closers \cup {Split} : closer[k] = "closing" => conn
  /\ isClosed => ~conn /\ connClosed

(* conn.Send blocks for good under some call: only on a stream that lives,   *)
(* and as run connection_stall shows only if the peer stops reading.         *)
SendBlocks == \E c \in Calls : <>[](call[c] = "sending" /\ Alive)

(* A caller of MakeJSONRequest gets an answer, an error or a timeout: also   *)
(* one that queues for sendM behind others, whose reply was lost, whose      *)
(* channel was registered after the sweep, or that waits behind a wedged     *)
(* splitter - unless conn.Send blocks for good.  Then the call inside it     *)
(* keeps sendM, the queue behind it has no timer yet, and none returns.      *)
InProgress == {"locking", "sending", "transmitted", "replying", "waiting"}
CallersReturn ==
  SendBlocks \/ \A c \in Calls : call[c] \in InProgress ~> (call[c] \notin InProgress \/ crashed)

(* The splitter can be stuck for good only handing a request to a consumer   *)
(* that has left, or a reply to a caller that has stopped waiting.           *)
Abandoned ==
  \/ split = "request" /\ handler = "gone"
  \/ split = "reply" /\ call[replyChan] # "waiting"

(* "a rigorous system for cleaning up": once the stream is gone or closed,   *)
(* the splitter ends, with requests closed and the client marked closed,     *)
(* unless it is stuck on a message whose receiver has left.                  *)
CleanedUp == split = "done" /\ isClosed /\ requests = "closed"
SplitEnds == ~Alive ~> (CleanedUp \/ Abandoned \/ crashed)

(* A session blocks "until a Reply is provided": a reply that has arrived is *)
(* thrown away only while client.Send is between transmitting the request    *)
(* and registering its channel, or when nobody waits any more - never under  *)
(* a caller that waits.                                                      *)
WaitingCallersAreFound ==
  [][\A c \in dropped' \ dropped : call[c] # "waiting"]_vars

(* Cleaning up "when a client closes its connection" does not take the       *)
(* process down.                                                             *)
CloseNeverPanics == ~crashed
=============================================================================
