----------------------------- MODULE ClientProofs -----------------------------
(***************************************************************************)
(* Proofs about module Client, for any calls of Send, any closers and any   *)
(* number of messages from the peer: its type invariant, and its safety     *)
(* properties by one inductive invariant.                                   *)
(***************************************************************************)
EXTENDS Client, TLAPS

-----------------------------------------------------------------------------
(* The inductive invariant *)

(* Request IDs are handed out once: 0 until the call is numbered, and never  *)
(* the same for two calls.                                                   *)
IdInv ==
  /\ \A c \in Calls : call[c] \in {"idle", "locking"} <=> requestID[c] = 0
  /\ \A c \in Calls : requestID[c] <= nextRequestID
  /\ \A c, d \in Calls : requestID[c] = requestID[d] /\ requestID[c] # 0 => c = d

(* A reply of the peer carries the ID of the request it answers, from the    *)
(* wire to the splitter's hand.                                              *)
Answers(m) == m.answers \in Calls /\ m.id = requestID[m.answers] /\ m.id # 0

ReplyInv ==
  /\ \A c \in transmitted : requestID[c] # 0
  /\ msgs # <<>> /\ msgs[1].type = "reply" => Answers(msgs[1])
  /\ split = "reply" => message.answers = replyChan
  /\ \A c \in Calls : call[c] = "answered" => got[c] = c

(* Every entry of openReplies is the channel of the call with that ID, and   *)
(* a call that waits has its channel there or in the splitter's hand.        *)
ChannelInv ==
  /\ \A id \in DOMAIN openReplies :
       requestID[openReplies[id]] = id /\ id # 0 /\ channel[openReplies[id]] # "none"
  /\ split = "reply" => channel[replyChan] # "none"
  /\ \A c \in Calls : call[c] = "waiting" =>
       (requestID[c] \in DOMAIN openReplies /\ openReplies[requestID[c]] = c) \/ replyChan = c
  /\ \A c \in Calls : channel[c] = "closed" => split \in {"close", "done"}
  /\ requests = "closed" => split \in {"sweep", "close", "done"}

(* Who is inside Close decides what is left of the connection.               *)
CloseInv ==
  /\ \A k \in Closers \cup {Split} :
       /\ closer[k] = "closing" => conn = TRUE /\ isClosed = FALSE
       /\ closer[k] = "marking" => conn = FALSE /\ connClosed = TRUE
  /\ closedM = NoCall /\ isClosed = FALSE => conn = TRUE
  /\ isClosed = TRUE => conn = FALSE /\ connClosed = TRUE

IndInv == TypeOK /\ IdInv /\ ReplyInv /\ ChannelInv /\ CloseInv

-----------------------------------------------------------------------------
(* Frames and the initial state *)

(* What each part of the invariant depends on.                               *)
LEMMA Frames ==
  /\ SendTypes /\ UNCHANGED sendVars => SendTypes'
  /\ ReplyTypes /\ UNCHANGED replyVars => ReplyTypes'
  /\ SplitTypes /\ UNCHANGED splitVars => SplitTypes'
  /\ CloseTypes /\ UNCHANGED closeVars => CloseTypes'
  /\ ConnTypes /\ UNCHANGED connVars => ConnTypes'
  /\ IdInv /\ UNCHANGED <<call, requestID, nextRequestID>> => IdInv'
  /\ ReplyInv /\ UNCHANGED <<sendVars, msgs, split, message, replyChan>> => ReplyInv'
  /\ ChannelInv /\ UNCHANGED <<sendVars, replyVars, splitVars>> => ChannelInv'
  /\ CloseInv /\ UNCHANGED <<closeVars, connClosed>> => CloseInv'
<1> USE DEF sendVars, replyVars, splitVars, closeVars, connVars
<1>1. SendTypes /\ UNCHANGED sendVars => SendTypes'
  BY DEF SendTypes
<1>2. ReplyTypes /\ UNCHANGED replyVars => ReplyTypes'
  BY DEF ReplyTypes, Registered
<1>3. SplitTypes /\ UNCHANGED splitVars => SplitTypes'
  BY DEF SplitTypes
<1>4. CloseTypes /\ UNCHANGED closeVars => CloseTypes'
  BY DEF CloseTypes
<1>5. ConnTypes /\ UNCHANGED connVars => ConnTypes'
  BY DEF ConnTypes
<1>6. IdInv /\ UNCHANGED <<call, requestID, nextRequestID>> => IdInv'
  BY DEF IdInv
<1>7. ReplyInv /\ UNCHANGED <<sendVars, msgs, split, message, replyChan>> => ReplyInv'
  BY DEF ReplyInv, Answers
<1>8. ChannelInv /\ UNCHANGED <<sendVars, replyVars, splitVars>> => ChannelInv'
  BY DEF ChannelInv
<1>9. CloseInv /\ UNCHANGED <<closeVars, connClosed>> => CloseInv'
  BY DEF CloseInv
<1> QED
  BY <1>1, <1>2, <1>3, <1>4, <1>5, <1>6, <1>7, <1>8, <1>9

(* NewClient establishes it.                                                 *)
LEMMA InitInv == Init => IndInv
<1> SUFFICES ASSUME Init PROVE IndInv
  OBVIOUS
<1>1. SendTypes /\ ReplyTypes
  BY CallsAssumption DEF Init, SendTypes, ReplyTypes, Registered, CallPcs
<1>2. SplitTypes
  BY DEF Init, SplitTypes, SplitPcs, NoMessage, Incoming
<1>3. CloseTypes
  BY CallsAssumption DEF Init, CloseTypes, CloserPcs
<1>4. ConnTypes
  <2>1. msgs \in Seq(Incoming) /\ Len(msgs) <= 1 /\ incoming \in 0..MaxIncoming
    BY LimitsAssumption DEF Init
  <2> QED
    BY <2>1 DEF Init, ConnTypes
<1>5. IdInv /\ ReplyInv /\ ChannelInv /\ CloseInv
  BY DEF Init, IdInv, ReplyInv, ChannelInv, CloseInv
<1> QED
  BY <1>1, <1>2, <1>3, <1>4, <1>5 DEF Init, IndInv, TypeOK

(* A call that queues for sendM has no number yet.                           *)
LEMMA SendCallInv ==
  ASSUME IndInv, NEW c \in Calls, SendCall(c)
  PROVE  IndInv'
<1>1. ReplyTypes' /\ SplitTypes' /\ CloseTypes' /\ ConnTypes' /\ CloseInv'
  BY Frames DEF IndInv, TypeOK, SendCall, connVars
<1>2. SendTypes'
  BY DEF IndInv, TypeOK, SendCall, SendTypes, CallPcs
<1>3. IdInv'
  BY DEF IndInv, TypeOK, SendCall, SendTypes, IdInv
<1>4. ReplyInv'
  BY DEF IndInv, SendCall, ReplyInv, Answers, splitVars, connVars
<1>5. ChannelInv'
  BY DEF IndInv, SendCall, ChannelInv, splitVars, replyVars
<1> QED
  BY <1>1, <1>2, <1>3, <1>4, <1>5 DEF IndInv, TypeOK, SendCall

(* The new ID is above every other; nothing is registered under it.           *)
LEMMA SendBeginInv ==
  ASSUME IndInv, NEW c \in Calls, SendBegin(c)
  PROVE  IndInv'
<1>1. ReplyTypes' /\ SplitTypes' /\ CloseTypes' /\ ConnTypes' /\ CloseInv'
  BY Frames DEF IndInv, TypeOK, SendBegin, connVars
<1>2. SendTypes'
  BY CallsAssumption DEF IndInv, TypeOK, SendBegin, SendTypes, CallPcs
<1>3. IdInv'
  BY DEF IndInv, TypeOK, SendBegin, SendTypes, IdInv
<1>4. ReplyInv'
  BY DEF IndInv, TypeOK, SendBegin, SendTypes, IdInv, ReplyInv, Answers, splitVars,
     connVars
<1>5. ChannelInv'
  BY DEF IndInv, TypeOK, SendBegin, SendTypes, IdInv, ChannelInv, splitVars, replyVars
<1> QED
  BY <1>1, <1>2, <1>3, <1>4, <1>5 DEF IndInv, TypeOK, SendBegin

(* Without a connection the ID is used up; nothing waits for it.             *)
LEMMA SendNilInv ==
  ASSUME IndInv, NEW c \in Calls, SendNil(c)
  PROVE  IndInv'
<1>1. ReplyTypes' /\ SplitTypes' /\ CloseTypes' /\ ConnTypes' /\ CloseInv'
  BY Frames DEF IndInv, TypeOK, SendNil, connVars
<1>2. SendTypes'
  BY DEF IndInv, TypeOK, SendNil, SendTypes, CallPcs
<1>3. IdInv'
  BY DEF IndInv, TypeOK, SendNil, SendTypes, IdInv
<1>4. ReplyInv'
  BY DEF IndInv, SendNil, IdInv, ReplyInv, Answers, splitVars, connVars
<1>5. ChannelInv'
  BY DEF IndInv, SendNil, IdInv, ChannelInv, splitVars, replyVars
<1> QED
  BY <1>1, <1>2, <1>3, <1>4, <1>5 DEF IndInv, TypeOK, SendNil

(* What the peer gets has a number.                                          *)
LEMMA SendTransmitInv ==
  ASSUME IndInv, NEW c \in Calls, SendTransmit(c)
  PROVE  IndInv'
<1>1. ReplyTypes' /\ SplitTypes' /\ CloseTypes' /\ ConnTypes' /\ CloseInv'
  BY Frames DEF IndInv, TypeOK, SendTransmit, connVars
<1>2. SendTypes'
  BY CallsAssumption DEF IndInv, TypeOK, SendTransmit, SendTypes, CallPcs
<1>3. IdInv'
  BY DEF IndInv, TypeOK, SendTransmit, SendTypes, IdInv
<1>4. ReplyInv'
  BY DEF IndInv, TypeOK, SendTransmit, SendTypes, IdInv, ReplyInv, Answers, splitVars,
     connVars
<1>5. ChannelInv'
  BY DEF IndInv, TypeOK, SendTransmit, SendTypes, ChannelInv, splitVars, replyVars
<1> QED
  BY <1>1, <1>2, <1>3, <1>4, <1>5 DEF IndInv, TypeOK, SendTransmit

(* A failed Send lets go of sendM; nothing waits for its ID.                 *)
LEMMA SendErrorInv ==
  ASSUME IndInv, NEW c \in Calls, SendError(c)
  PROVE  IndInv'
<1>1. ReplyTypes' /\ SplitTypes' /\ CloseTypes' /\ ConnTypes' /\ CloseInv'
  BY Frames DEF IndInv, TypeOK, SendError, connVars
<1>2. SendTypes'
  BY CallsAssumption DEF IndInv, TypeOK, SendError, SendTypes, CallPcs
<1>3. IdInv'
  BY DEF IndInv, SendError, IdInv
<1>4. ReplyInv'
  BY DEF IndInv, SendError, ReplyInv, Answers, splitVars, connVars
<1>5. ChannelInv'
  BY DEF IndInv, SendError, ChannelInv, splitVars, replyVars
<1> QED
  BY <1>1, <1>2, <1>3, <1>4, <1>5 DEF IndInv, TypeOK, SendError

(* The channel joins openReplies under the call's own ID, which no other has.*)
LEMMA SendRegisterInv ==
  ASSUME IndInv, NEW c \in Calls, SendRegister(c)
  PROVE  IndInv'
<1>1. SplitTypes' /\ CloseTypes' /\ ConnTypes' /\ CloseInv'
  BY Frames DEF IndInv, TypeOK, SendRegister, connVars
<1>2. SendTypes'
  BY CallsAssumption DEF IndInv, TypeOK, SendRegister, SendTypes, CallPcs
<1>3. ReplyTypes'
  <2>1. /\ DOMAIN openReplies' = DOMAIN openReplies \cup {requestID[c]}
        /\ \A id \in DOMAIN openReplies' :
             openReplies'[id] = IF id = requestID[c] THEN c ELSE openReplies[id]
    BY DEF SendRegister
  <2>2. \A id \in DOMAIN openReplies' : openReplies'[id] \in Calls
    BY <2>1 DEF IndInv, TypeOK, ReplyTypes, Registered
  <2> QED
    BY DEF IndInv, TypeOK, SendRegister, SendTypes, ReplyTypes, Registered
<1>4. IdInv'
  BY DEF IndInv, SendRegister, IdInv
<1>5. ReplyInv'
  BY DEF IndInv, SendRegister, ReplyInv, Answers, splitVars, connVars
<1>6. ChannelInv'
  BY DEF IndInv, TypeOK, SendRegister, ReplyTypes, IdInv, ChannelInv, splitVars
<1> QED
  BY <1>1, <1>2, <1>3, <1>4, <1>5, <1>6 DEF IndInv, TypeOK, SendRegister

(* A call that replied leaves no trace in openReplies.                       *)
LEMMA SendRepliedInv ==
  ASSUME IndInv, NEW c \in Calls, SendReplied(c)
  PROVE  IndInv'
<1>1. ReplyTypes' /\ SplitTypes' /\ CloseTypes' /\ ConnTypes' /\ CloseInv'
  BY Frames DEF IndInv, TypeOK, SendReplied, connVars
<1>2. SendTypes'
  BY CallsAssumption DEF IndInv, TypeOK, SendReplied, SendTypes, CallPcs
<1>3. IdInv'
  BY DEF IndInv, SendReplied, IdInv
<1>4. ReplyInv'
  BY DEF IndInv, SendReplied, ReplyInv, Answers, splitVars, connVars
<1>5. ChannelInv'
  BY DEF IndInv, SendReplied, ChannelInv, splitVars, replyVars
<1> QED
  BY <1>1, <1>2, <1>3, <1>4, <1>5 DEF IndInv, TypeOK, SendReplied

(* The splitter hands over what it has in hand, the answer to this call.     *)
LEMMA GetReplyInv ==
  ASSUME IndInv, NEW c \in Calls, GetReply(c)
  PROVE  IndInv'
<1>1. ReplyTypes' /\ CloseTypes' /\ ConnTypes' /\ CloseInv'
  BY Frames DEF IndInv, TypeOK, GetReply, connVars
<1>2. SendTypes'
  BY DEF IndInv, TypeOK, GetReply, SendTypes, SplitTypes, CallPcs, Incoming
<1>3. SplitTypes'
  BY DEF IndInv, TypeOK, GetReply, SplitTypes, SplitPcs, NoMessage, Incoming
<1>4. IdInv'
  BY DEF IndInv, GetReply, IdInv
<1>5. ReplyInv'
  BY DEF IndInv, TypeOK, GetReply, SendTypes, ReplyInv, Answers, connVars
<1>6. ChannelInv'
  BY DEF IndInv, TypeOK, GetReply, SendTypes, ChannelInv, replyVars
<1> QED
  BY <1>1, <1>2, <1>3, <1>4, <1>5, <1>6 DEF IndInv, TypeOK, GetReply

(* A call that stops waiting only leaves its entry behind.                   *)
LEMMA GetClosedInv ==
  ASSUME IndInv, NEW c \in Calls, GetClosed(c)
  PROVE  IndInv'
<1>1. ReplyTypes' /\ SplitTypes' /\ CloseTypes' /\ ConnTypes' /\ CloseInv'
  BY Frames DEF IndInv, TypeOK, GetClosed, connVars
<1>2. SendTypes'
  BY DEF IndInv, TypeOK, GetClosed, SendTypes, CallPcs
<1>3. IdInv'
  BY DEF IndInv, GetClosed, IdInv
<1>4. ReplyInv'
  BY DEF IndInv, GetClosed, ReplyInv, Answers, splitVars, connVars
<1>5. ChannelInv'
  BY DEF IndInv, GetClosed, ChannelInv, splitVars, replyVars
<1> QED
  BY <1>1, <1>2, <1>3, <1>4, <1>5 DEF IndInv, TypeOK, GetClosed

(* The same after a timeout.                                                 *)
LEMMA TimeoutInv ==
  ASSUME IndInv, NEW c \in Calls, Timeout(c)
  PROVE  IndInv'
<1>1. ReplyTypes' /\ SplitTypes' /\ CloseTypes' /\ ConnTypes' /\ CloseInv'
  BY Frames DEF IndInv, TypeOK, Timeout, connVars
<1>2. SendTypes'
  BY DEF IndInv, TypeOK, Timeout, SendTypes, CallPcs
<1>3. IdInv'
  BY DEF IndInv, Timeout, IdInv
<1>4. ReplyInv'
  BY DEF IndInv, Timeout, ReplyInv, Answers, splitVars, connVars
<1>5. ChannelInv'
  BY DEF IndInv, Timeout, ChannelInv, splitVars, replyVars
<1> QED
  BY <1>1, <1>2, <1>3, <1>4, <1>5 DEF IndInv, TypeOK, Timeout

(* closedM is free and the client not closed, so the connection is there.    *)
LEMMA CloseBeginInv ==
  ASSUME IndInv, NEW k \in Closers \cup {Split}, CloseBegin(k)
  PROVE  IndInv'
<1>1. SendTypes' /\ ReplyTypes' /\ SplitTypes' /\ ConnTypes' /\ IdInv' /\ ReplyInv' /\ ChannelInv'
  BY Frames DEF IndInv, TypeOK, CloseBegin, sendVars, splitVars, connVars
<1>2. CloseTypes'
  BY CallsAssumption DEF IndInv, TypeOK, CloseBegin, CloseTypes, CloserPcs
<1>3. CloseInv'
  BY DEF IndInv, CloseBegin, CloseInv
<1> QED
  BY <1>1, <1>2, <1>3 DEF IndInv, TypeOK, CloseBegin

(* A second Close changes nothing but where its caller is.                   *)
LEMMA CloseAgainInv ==
  ASSUME IndInv, NEW k \in Closers \cup {Split}, CloseAgain(k)
  PROVE  IndInv'
<1>1. SendTypes' /\ ReplyTypes' /\ SplitTypes' /\ ConnTypes' /\ IdInv' /\ ReplyInv' /\ ChannelInv'
  BY Frames DEF IndInv, TypeOK, CloseAgain, sendVars, splitVars, connVars
<1>2. CloseTypes'
  BY DEF IndInv, TypeOK, CloseAgain, CloseTypes, CloserPcs
<1>3. CloseInv'
  BY DEF IndInv, CloseAgain, CloseInv, connVars
<1> QED
  BY <1>1, <1>2, <1>3 DEF IndInv, TypeOK, CloseAgain

(* The one goroutine inside Close drops the connection ...                   *)
LEMMA CloseConnectionInv ==
  ASSUME IndInv, NEW k \in Closers \cup {Split}, CloseConnection(k)
  PROVE  IndInv'
<1>1. SendTypes' /\ ReplyTypes' /\ SplitTypes' /\ IdInv' /\ ReplyInv' /\ ChannelInv'
  BY Frames DEF IndInv, TypeOK, CloseConnection, sendVars, splitVars
<1>2. CloseTypes'
  BY CallsAssumption DEF IndInv, TypeOK, CloseConnection, CloseTypes, CloserPcs
<1>3. ConnTypes'
  BY DEF IndInv, TypeOK, CloseConnection, ConnTypes
<1>4. CloseInv'
  BY CallsAssumption DEF IndInv, TypeOK, CloseConnection, CloseTypes, CloseInv
<1> QED
  BY <1>1, <1>2, <1>3, <1>4 DEF IndInv, TypeOK, CloseConnection

(* ... and marks the client closed.                                          *)
LEMMA CloseEndInv ==
  ASSUME IndInv, NEW k \in Closers \cup {Split}, CloseEnd(k)
  PROVE  IndInv'
<1>1. SendTypes' /\ ReplyTypes' /\ SplitTypes' /\ ConnTypes' /\ IdInv' /\ ReplyInv' /\ ChannelInv'
  BY Frames DEF IndInv, TypeOK, CloseEnd, sendVars, splitVars, connVars
<1>2. CloseTypes'
  BY CallsAssumption DEF IndInv, TypeOK, CloseEnd, CloseTypes, CloserPcs
<1>3. CloseInv'
  BY DEF IndInv, CloseEnd, CloseInv, connVars
<1> QED
  BY <1>1, <1>2, <1>3 DEF IndInv, TypeOK, CloseEnd

(* The splitter turns to its select.                                         *)
LEMMA SplitSelectInv ==
  ASSUME IndInv, SplitSelect
  PROVE  IndInv'
<1>1. SendTypes' /\ ReplyTypes' /\ CloseTypes' /\ ConnTypes' /\ IdInv' /\ CloseInv'
  BY Frames DEF IndInv, TypeOK, SplitSelect, sendVars, connVars
<1>2. SplitTypes'
  BY DEF IndInv, TypeOK, SplitSelect, SplitTypes, SplitPcs
<1>3. ReplyInv'
  BY DEF IndInv, SplitSelect, ReplyInv, Answers, sendVars, connVars
<1>4. ChannelInv'
  BY DEF IndInv, SplitSelect, ChannelInv, sendVars, replyVars
<1> QED
  BY <1>1, <1>2, <1>3, <1>4 DEF IndInv, TypeOK, SplitSelect

(* A request is taken, to be handed on.                                      *)
LEMMA SplitRequestInv ==
  ASSUME IndInv, SplitRequest
  PROVE  IndInv'
<1>1. SendTypes' /\ ReplyTypes' /\ CloseTypes' /\ IdInv' /\ CloseInv'
  BY Frames DEF IndInv, TypeOK, SplitRequest, Receive, sendVars
<1>2. SplitTypes'
  BY DEF IndInv, TypeOK, SplitRequest, SplitTypes, SplitPcs, Receive
<1>3. ConnTypes'
  BY DEF IndInv, TypeOK, SplitRequest, ConnTypes, Receive
<1>4. ReplyInv'
  BY DEF IndInv, SplitRequest, ReplyInv, Receive, sendVars
<1>5. ChannelInv'
  BY DEF IndInv, SplitRequest, ChannelInv, Receive, sendVars, replyVars
<1> QED
  BY <1>1, <1>2, <1>3, <1>4, <1>5 DEF IndInv, TypeOK, SplitRequest

(* The entry found under the reply's ID is the call it answers.              *)
LEMMA SplitReplyInv ==
  ASSUME IndInv, SplitReply
  PROVE  IndInv'
<1>1. SendTypes' /\ CloseTypes' /\ IdInv' /\ CloseInv'
  BY Frames DEF IndInv, TypeOK, SplitReply, Receive, sendVars
<1>2. ReplyTypes'
  <2>1. /\ DOMAIN openReplies' = DOMAIN openReplies \ {msgs[1].id}
        /\ \A id \in DOMAIN openReplies' : openReplies'[id] = openReplies[id]
    BY DEF SplitReply
  <2>2. \A id \in DOMAIN openReplies' : openReplies'[id] \in Calls
    BY <2>1 DEF IndInv, TypeOK, ReplyTypes, Registered
  <2> QED
    BY DEF IndInv, TypeOK, SplitReply, ReplyTypes, Registered
<1>3. SplitTypes'
  <2>1. replyChan' \in Calls /\ replyChan' # NoCall
    BY CallsAssumption DEF IndInv, TypeOK, SplitReply, ReplyTypes, Registered
  <2>2. message' \in Incoming
    BY DEF IndInv, TypeOK, SplitReply, Receive, ConnTypes
  <2> QED
    BY <2>1, <2>2 DEF IndInv, TypeOK, SplitReply, SplitTypes, SplitPcs
<1>4. ConnTypes'
  BY DEF IndInv, TypeOK, SplitReply, ConnTypes, Receive
<1>5. ReplyInv'
  BY DEF IndInv, TypeOK, SplitReply, ReplyTypes, IdInv, ReplyInv, ChannelInv, Registered,
     Answers, Receive, sendVars
<1>6. ChannelInv'
  BY CallsAssumption DEF IndInv, TypeOK, SplitReply, SplitTypes, ChannelInv, Receive,
     sendVars
<1> QED
  BY <1>1, <1>2, <1>3, <1>4, <1>5, <1>6 DEF IndInv, TypeOK, SplitReply

(* A reply with no entry is dropped.                                         *)
LEMMA SplitUnexpectedInv ==
  ASSUME IndInv, SplitUnexpected
  PROVE  IndInv'
<1>1. SendTypes' /\ ReplyTypes' /\ CloseTypes' /\ IdInv' /\ CloseInv'
  BY Frames DEF IndInv, TypeOK, SplitUnexpected, Receive, sendVars
<1>2. SplitTypes'
  BY DEF IndInv, TypeOK, SplitUnexpected, SplitTypes, SplitPcs, ReplyInv, Receive, Answers
<1>3. ConnTypes'
  BY DEF IndInv, TypeOK, SplitUnexpected, ConnTypes, Receive
<1>4. ReplyInv'
  BY DEF IndInv, SplitUnexpected, ReplyInv, Receive, sendVars
<1>5. ChannelInv'
  BY DEF IndInv, SplitUnexpected, ChannelInv, Receive, sendVars, replyVars
<1> QED
  BY <1>1, <1>2, <1>3, <1>4, <1>5 DEF IndInv, TypeOK, SplitUnexpected

(* Other messages are skipped.                                               *)
LEMMA SplitSkipInv ==
  ASSUME IndInv, SplitSkip
  PROVE  IndInv'
<1>1. SendTypes' /\ ReplyTypes' /\ CloseTypes' /\ IdInv' /\ CloseInv'
  BY Frames DEF IndInv, TypeOK, SplitSkip, Receive, sendVars
<1>2. SplitTypes'
  BY DEF IndInv, TypeOK, SplitSkip, SplitTypes, SplitPcs, Receive
<1>3. ConnTypes'
  BY DEF IndInv, TypeOK, SplitSkip, ConnTypes, Receive
<1>4. ReplyInv'
  BY DEF IndInv, SplitSkip, ReplyInv, Receive, sendVars
<1>5. ChannelInv'
  BY DEF IndInv, SplitSkip, ChannelInv, Receive, sendVars, replyVars
<1> QED
  BY <1>1, <1>2, <1>3, <1>4, <1>5 DEF IndInv, TypeOK, SplitSkip

(* requests is closed only on the way to the sweep.                          *)
LEMMA SplitEndInv ==
  ASSUME IndInv, SplitEnd
  PROVE  IndInv'
<1>1. SendTypes' /\ ReplyTypes' /\ CloseTypes' /\ ConnTypes' /\ IdInv' /\ CloseInv'
  BY Frames DEF IndInv, TypeOK, SplitEnd, sendVars, connVars
<1>2. SplitTypes'
  BY DEF IndInv, TypeOK, SplitEnd, SplitTypes, SplitPcs
<1>3. ReplyInv'
  BY DEF IndInv, SplitEnd, ReplyInv, sendVars, connVars
<1>4. ChannelInv'
  BY DEF IndInv, SplitEnd, ChannelInv, sendVars, replyVars
<1> QED
  BY <1>1, <1>2, <1>3, <1>4 DEF IndInv, TypeOK, SplitEnd

(* Channels are closed only on the way out of splitReqsAndReps.              *)
LEMMA SplitSweepInv ==
  ASSUME IndInv, SplitSweep
  PROVE  IndInv'
<1>1. SendTypes' /\ CloseTypes' /\ ConnTypes' /\ IdInv' /\ CloseInv'
  BY Frames DEF IndInv, TypeOK, SplitSweep, sendVars, connVars
<1>2. ReplyTypes'
  BY DEF IndInv, TypeOK, SplitSweep, ReplyTypes, Registered
<1>3. SplitTypes'
  BY DEF IndInv, TypeOK, SplitSweep, SplitTypes, SplitPcs
<1>4. ReplyInv'
  BY DEF IndInv, SplitSweep, ReplyInv, Answers, sendVars, connVars
<1>5. ChannelInv'
  BY DEF IndInv, TypeOK, SplitSweep, ReplyTypes, ChannelInv, Registered, sendVars
<1> QED
  BY <1>1, <1>2, <1>3, <1>4, <1>5 DEF IndInv, TypeOK, SplitSweep

(* The splitter ends.                                                        *)
LEMMA SplitReturnInv ==
  ASSUME IndInv, SplitReturn
  PROVE  IndInv'
<1>1. SendTypes' /\ ReplyTypes' /\ CloseTypes' /\ ConnTypes' /\ IdInv' /\ CloseInv'
  BY Frames DEF IndInv, TypeOK, SplitReturn, sendVars, connVars
<1>2. SplitTypes'
  BY DEF IndInv, TypeOK, SplitReturn, SplitTypes, SplitPcs
<1>3. ReplyInv'
  BY DEF IndInv, SplitReturn, ReplyInv, Answers, sendVars, connVars
<1>4. ChannelInv'
  BY DEF IndInv, SplitReturn, ChannelInv, sendVars, replyVars
<1> QED
  BY <1>1, <1>2, <1>3, <1>4 DEF IndInv, TypeOK, SplitReturn

(* A panic changes nothing the invariant is about.                           *)
LEMMA SplitPanicsInv ==
  ASSUME IndInv, SplitPanics
  PROVE  IndInv'
<1>1. SendTypes' /\ ReplyTypes' /\ SplitTypes' /\ CloseTypes' /\ ConnTypes' /\ IdInv' /\ ReplyInv' /\ ChannelInv' /\ CloseInv'
  BY Frames DEF IndInv, TypeOK, SplitPanics, sendVars, splitVars, connVars
<1> QED
  BY <1>1 DEF IndInv, TypeOK, SplitPanics

(* The consumer takes the request in the splitter's hand.                    *)
LEMMA TakeRequestInv ==
  ASSUME IndInv, TakeRequest
  PROVE  IndInv'
<1>1. SendTypes' /\ ReplyTypes' /\ CloseTypes' /\ ConnTypes' /\ IdInv' /\ CloseInv'
  BY Frames DEF IndInv, TypeOK, TakeRequest, sendVars, connVars
<1>2. SplitTypes'
  BY DEF IndInv, TypeOK, TakeRequest, SplitTypes, SplitPcs
<1>3. ReplyInv'
  BY DEF IndInv, TakeRequest, ReplyInv, Answers, sendVars, connVars
<1>4. ChannelInv'
  BY DEF IndInv, TakeRequest, ChannelInv, sendVars, replyVars
<1> QED
  BY <1>1, <1>2, <1>3, <1>4 DEF IndInv, TypeOK, TakeRequest

(* The consumer gives up.                                                    *)
LEMMA HandlerLeavesInv ==
  ASSUME IndInv, HandlerLeaves
  PROVE  IndInv'
<1>1. SendTypes' /\ ReplyTypes' /\ SplitTypes' /\ CloseTypes' /\ ConnTypes' /\ IdInv' /\ ReplyInv' /\ ChannelInv' /\ CloseInv'
  BY Frames DEF IndInv, TypeOK, HandlerLeaves, sendVars, splitVars, connVars
<1> QED
  BY <1>1 DEF IndInv, TypeOK, HandlerLeaves

(* A reply carries the ID of a request that was transmitted.                 *)
LEMMA PeerSendsInv ==
  ASSUME IndInv, PeerSends
  PROVE  IndInv'
<1>1. SendTypes' /\ ReplyTypes' /\ SplitTypes' /\ CloseTypes' /\ IdInv' /\ ChannelInv' /\ CloseInv'
  BY Frames DEF IndInv, TypeOK, PeerSends, sendVars
<1>2. ConnTypes'
  <2>1. msgs' \in Seq(Incoming) /\ Len(msgs') = 1
    <3>1. CASE \E c \in transmitted : msgs' = <<[type |-> "reply", id |-> requestID[c], answers |-> c]>>
      BY <3>1 DEF IndInv, TypeOK, SendTypes, Incoming
    <3>2. CASE \E type \in {"request", "other"} : msgs' = <<[NoMessage EXCEPT !.type = type]>>
      BY <3>2 DEF NoMessage, Incoming
    <3> QED
      BY <3>1, <3>2 DEF PeerSends
  <2>2. incoming' \in 0..MaxIncoming
    BY LimitsAssumption DEF IndInv, TypeOK, PeerSends, ConnTypes
  <2> QED
    BY <2>1, <2>2 DEF IndInv, TypeOK, PeerSends, ConnTypes
<1>3. ReplyInv'
  BY DEF IndInv, TypeOK, PeerSends, SendTypes, ReplyInv, Answers, NoMessage, sendVars,
     splitVars
<1> QED
  BY <1>1, <1>2, <1>3 DEF IndInv, TypeOK, PeerSends

(* The stream breaks.                                                        *)
LEMMA LinkBreaksInv ==
  ASSUME IndInv, LinkBreaks
  PROVE  IndInv'
<1>1. SendTypes' /\ ReplyTypes' /\ SplitTypes' /\ CloseTypes' /\ IdInv' /\ ReplyInv' /\ ChannelInv' /\ CloseInv'
  BY Frames DEF IndInv, TypeOK, LinkBreaks, sendVars, splitVars
<1>2. ConnTypes'
  BY CallsAssumption DEF IndInv, TypeOK, LinkBreaks, ConnTypes, Receive, connVars
<1> QED
  BY <1>1, <1>2 DEF IndInv, TypeOK, LinkBreaks

(* packetReader closes msgs.                                                 *)
LEMMA ReaderStopsInv ==
  ASSUME IndInv, ReaderStops
  PROVE  IndInv'
<1>1. SendTypes' /\ ReplyTypes' /\ SplitTypes' /\ CloseTypes' /\ IdInv' /\ ReplyInv' /\ ChannelInv' /\ CloseInv'
  BY Frames DEF IndInv, TypeOK, ReaderStops, sendVars, splitVars
<1>2. ConnTypes'
  BY DEF IndInv, TypeOK, ReaderStops, ConnTypes
<1> QED
  BY <1>1, <1>2 DEF IndInv, TypeOK, ReaderStops

-----------------------------------------------------------------------------
(* The invariant and the theorems *)

(* Every step preserves it.                                                  *)
LEMMA StepInv == IndInv /\ [Next]_vars => IndInv'
<1> SUFFICES ASSUME IndInv, [Next]_vars PROVE IndInv'
  OBVIOUS
<1>1. ASSUME NEW c \in Calls, SendCall(c) \/ CallStep(c) \/ SendTransmit(c) \/ Timeout(c) PROVE IndInv'
  BY <1>1, SendCallInv, SendBeginInv, SendNilInv, SendTransmitInv, SendErrorInv, SendRegisterInv,
     SendRepliedInv, GetReplyInv, GetClosedInv, TimeoutInv DEF CallStep
<1>2. ASSUME NEW k \in Closers \cup {Split}, CloseStep(k) PROVE IndInv'
  BY <1>2, CloseBeginInv, CloseAgainInv, CloseConnectionInv, CloseEndInv DEF CloseStep
<1>3. CASE SplitStep \/ SplitPanics
  BY <1>3, SplitSelectInv, SplitRequestInv, SplitReplyInv, SplitUnexpectedInv, SplitSkipInv,
     SplitEndInv, SplitSweepInv, SplitReturnInv, SplitPanicsInv DEF SplitStep
<1>4. CASE HandlerStep \/ ConnStep
  BY <1>4, TakeRequestInv, HandlerLeavesInv, PeerSendsInv, LinkBreaksInv, ReaderStopsInv DEF
     HandlerStep, ConnStep
<1>5. CASE UNCHANGED vars
  BY <1>5, Frames DEF IndInv, TypeOK, vars, sendVars, splitVars, connVars
<1> QED
  BY <1>1, <1>2, <1>3, <1>4, <1>5 DEF Next

(* It holds of every reachable state.                                        *)
LEMMA Invariant == Spec => []IndInv
  BY InitInv, StepInv, PTL DEF Spec

(* The type invariant: among it that sendM and closedM are held by exactly   *)
(* who is inside Send and Close, and that the splitter has a reply channel   *)
(* in hand exactly while it sends on one.                                    *)
THEOREM TypeCorrect == Spec => []TypeOK
<1>1. IndInv => TypeOK
  BY DEF IndInv
<1> QED
  BY <1>1, Invariant, PTL

(* client.Send and splitReqsAndReps together never give a caller another     *)
(* call's reply, however many calls run, time out and are answered late or   *)
(* twice.                                                                    *)
THEOREM RepliesAreTheCallers == Spec => []RepliesMatchRequests
<1>1. IndInv => RepliesMatchRequests
  BY DEF IndInv, ReplyInv, RepliesMatchRequests
<1> QED
  BY <1>1, Invariant, PTL

(* splitReqsAndReps never sends on a closed channel and its sweep never      *)
(* closes one twice, for any number of callers and closers.                  *)
THEOREM NoSendOnClosed == Spec => []ChannelDiscipline
<1>1. IndInv => ChannelDiscipline
  <2> SUFFICES ASSUME IndInv PROVE ChannelDiscipline
    OBVIOUS
  <2>1. split = "request" => requests = "open"
    BY DEF IndInv, TypeOK, SplitTypes, ChannelInv
  <2>2. split = "reply" => channel[replyChan] = "open"
    BY DEF IndInv, TypeOK, ReplyTypes, SplitTypes, ChannelInv
  <2>3. split = "sweep" => \A c \in Registered : channel[c] = "open"
    BY DEF IndInv, TypeOK, ReplyTypes, ChannelInv, Registered
  <2> QED
    BY <2>1, <2>2, <2>3 DEF ChannelDiscipline
<1> QED
  BY <1>1, Invariant, PTL

(* Of all the goroutines that call Close exactly one reaches                 *)
(* closeConnection with the connection there, and a closed client has none.  *)
THEOREM OneCloses == Spec => []ClosedOnce
<1>1. IndInv => ClosedOnce
  BY DEF IndInv, CloseInv, ClosedOnce
<1> QED
  BY <1>1, Invariant, PTL

(* The splitter throws a reply away only when its caller is not waiting: the *)
(* window between transmit and registration is the only one.                 *)
THEOREM WaitingAreFound == Spec => WaitingCallersAreFound
<1>1. IndInv /\ [Next]_vars => [\A c \in dropped' \ dropped : call[c] # "waiting"]_vars
  <2> SUFFICES ASSUME IndInv, Next, NEW c \in dropped' \ dropped PROVE call[c] # "waiting"
    OBVIOUS
  <2>1. SplitUnexpected
    BY DEF Next, CallStep, SendCall, SendBegin, SendNil, SendTransmit, SendError, SendRegister,
       SendReplied, GetReply,
       GetClosed, Timeout, CloseStep, CloseBegin, CloseAgain, CloseConnection, CloseEnd,
       SplitStep, SplitSelect, SplitRequest, SplitReply, SplitSkip, SplitEnd, SplitSweep,
       SplitReturn, SplitPanics, HandlerStep, TakeRequest, HandlerLeaves, ConnStep,
       PeerSends, LinkBreaks, ReaderStops, splitVars
  <2>2. c = msgs[1].answers /\ Answers(msgs[1]) /\ msgs[1].id \notin DOMAIN openReplies
    BY <2>1 DEF SplitUnexpected, Receive, IndInv, ReplyInv
  <2>3. replyChan = NoCall
    BY <2>1 DEF SplitUnexpected, Receive, IndInv, TypeOK, SplitTypes
  <2> QED
    BY <2>2, <2>3, CallsAssumption DEF IndInv, ChannelInv, Answers
<1> QED
  BY <1>1, Invariant, PTL DEF Spec, WaitingCallersAreFound
=============================================================================
