------------------------------ MODULE RpcProofs ------------------------------
(***************************************************************************)
(* Proofs about module Rpc, for any callers, tickets, options and keys: its *)
(* type invariant, that answers match requests as long as every callback    *)
(* replies before it returns, and that callbacks run only for tickets that  *)
(* allow it.                                                                *)
(***************************************************************************)
EXTENDS Rpc, TLAPS

-----------------------------------------------------------------------------
(* The inductive invariant *)

(* Request IDs are handed out once.                                          *)
IdInv ==
  /\ \A c \in Callers : caller[c] = "idle" <=> requestID[c] = 0
  /\ \A c \in Callers : requestID[c] <= nextID
  /\ \A c, d \in Callers : requestID[c] = requestID[d] /\ requestID[c] # 0 => c = d

(* A request carries the ID of its caller ...                                *)
RequestInv ==
  \A i \in 1..Len(requests) :
    requests[i].id = requestID[requests[i].from] /\ requests[i].id # 0

(* ... and, as long as every request is answered in turn, the requests on    *)
(* their way are numbered on from the replies sent and the request in hand:  *)
(* none is missing, up to the last one sent while the connection works.      *)
Taken == replyID + Len(pending)

CountInv ==
  orderly =>
    /\ later = {}
    /\ pending # <<>> => requestID[pending[1]] = replyID + 1
    /\ \A i \in 1..Len(requests) : requests[i].id = Taken + i
    /\ up => Taken + Len(requests) = nextID

(* So a reply carries the ID of the request it answers.                      *)
ReplyInv ==
  orderly => \A i \in 1..Len(replies) :
               replies[i].id = requestID[replies[i].answers] /\ replies[i].id # 0

IndInv ==
  /\ TypeOK /\ IdInv /\ RequestInv /\ CountInv /\ ReplyInv
  /\ AnswersMatchInOrder /\ CallbacksAuthorized

-----------------------------------------------------------------------------
(* Frames and the initial state *)

(* What each part of the invariant depends on.                               *)
LEMMA Frames ==
  /\ CallerTypes /\ UNCHANGED callerVars => CallerTypes'
  /\ LinkTypes /\ UNCHANGED <<requests, replies, up>> => LinkTypes'
  /\ ServiceTypes /\ UNCHANGED <<pending, stage, replyID, later, orderly>> => ServiceTypes'
  /\ TicketTypes /\ UNCHANGED ticketVars => TicketTypes'
  /\ IdInv /\ UNCHANGED <<caller, requestID, nextID>> => IdInv'
  /\ RequestInv /\ UNCHANGED <<requests, requestID>> => RequestInv'
  /\ CountInv /\ UNCHANGED <<orderly, later, pending, replyID, requests, requestID, nextID, up>> => CountInv'
  /\ ReplyInv /\ UNCHANGED <<orderly, replies, requestID>> => ReplyInv'
  /\ AnswersMatchInOrder /\ UNCHANGED <<orderly, caller, got>> => AnswersMatchInOrder'
  /\ CallbacksAuthorized /\ UNCHANGED <<asks, ranAt, verifyKey>> => CallbacksAuthorized'
<1>1. CallerTypes /\ UNCHANGED callerVars => CallerTypes'
  BY DEF CallerTypes, callerVars
<1>2. LinkTypes /\ UNCHANGED <<requests, replies, up>> => LinkTypes'
  BY DEF LinkTypes
<1>3. ServiceTypes /\ UNCHANGED <<pending, stage, replyID, later, orderly>> => ServiceTypes'
  BY DEF ServiceTypes
<1>4. TicketTypes /\ UNCHANGED ticketVars => TicketTypes'
  BY DEF TicketTypes, ticketVars
<1>5. IdInv /\ UNCHANGED <<caller, requestID, nextID>> => IdInv'
  BY DEF IdInv
<1>6. RequestInv /\ UNCHANGED <<requests, requestID>> => RequestInv'
  BY DEF RequestInv
<1>7. CountInv /\ UNCHANGED <<orderly, later, pending, replyID, requests, requestID, nextID, up>> => CountInv'
  BY DEF CountInv, Taken
<1>8. ReplyInv /\ UNCHANGED <<orderly, replies, requestID>> => ReplyInv'
  BY DEF ReplyInv
<1>9. AnswersMatchInOrder /\ UNCHANGED <<orderly, caller, got>> => AnswersMatchInOrder'
  BY DEF AnswersMatchInOrder, AnswersMatch
<1>10. CallbacksAuthorized /\ UNCHANGED <<asks, ranAt, verifyKey>> => CallbacksAuthorized'
  BY DEF CallbacksAuthorized
<1> QED
  BY <1>1, <1>2, <1>3, <1>4, <1>5, <1>6, <1>7, <1>8, <1>9, <1>10

(* In the beginning there are no requests and no key.                        *)
LEMMA InitInv == Init => IndInv
<1> SUFFICES ASSUME Init PROVE IndInv
  OBVIOUS
<1>1. CallerTypes
  BY CallersAssumption DEF Init, CallerTypes, CallerPcs
<1>2. LinkTypes
  BY DEF Init, LinkTypes
<1>3. ServiceTypes
  BY DEF Init, ServiceTypes
<1>4. TicketTypes
  BY OptionsAssumption DEF Init, TicketTypes
<1>5. IdInv /\ RequestInv /\ CountInv /\ ReplyInv
  BY DEF Init, IdInv, RequestInv, CountInv, ReplyInv, Taken
<1>6. AnswersMatchInOrder
  BY DEF Init, AnswersMatchInOrder, AnswersMatch
<1>7. CallbacksAuthorized
  BY OptionsAssumption DEF Init, CallbacksAuthorized
<1> QED
  BY <1>1, <1>2, <1>3, <1>4, <1>5, <1>6, <1>7 DEF IndInv, TypeOK

-----------------------------------------------------------------------------
(* One lemma per operation *)

(* What Append does to a channel: one message more, at the end.              *)
LEMMA AppendFacts ==
  ASSUME NEW S, NEW s \in Seq(S), NEW x \in S
  PROVE  /\ Append(s, x) \in Seq(S)
         /\ Len(Append(s, x)) = Len(s) + 1
         /\ \A i \in 1..Len(s) : Append(s, x)[i] = s[i]
         /\ Append(s, x)[Len(s) + 1] = x
  OBVIOUS

(* What a failure does to it: a prefix is left.                              *)
LEMMA PrefixFacts ==
  ASSUME NEW S, NEW s \in Seq(S), NEW k \in 0..Len(s)
  PROVE  /\ SubSeq(s, 1, k) \in Seq(S)
         /\ Len(SubSeq(s, 1, k)) = k
         /\ \A i \in 1..k : SubSeq(s, 1, k)[i] = s[i]
  OBVIOUS

(* What a receive does to it: the first message is taken, the rest move up.  *)
LEMMA TailFacts ==
  ASSUME NEW S, NEW s \in Seq(S), s # <<>>
  PROVE  /\ Tail(s) \in Seq(S)
         /\ Len(s) \in Nat \ {0}
         /\ Len(Tail(s)) = Len(s) - 1
         /\ \A i \in 1..(Len(s) - 1) : Tail(s)[i] = s[i + 1]
         /\ Head(s) = s[1]
         /\ Head(s) \in S
  OBVIOUS

(* The messages on a channel.                                                *)
LEMMA ElementFacts ==
  ASSUME NEW S, NEW s \in Seq(S)
  PROVE  Len(s) \in Nat /\ \A i \in 1..Len(s) : s[i] \in S
  OBVIOUS

(* The messages and the request in hand have their types.                    *)
LEMMA MessageFacts ==
  ASSUME IndInv
  PROVE  /\ Len(requests) \in Nat /\ Len(replies) \in Nat
         /\ \A i \in 1..Len(requests) : requests[i].from \in Callers
         /\ \A i \in 1..Len(replies) : replies[i].answers \in Callers
         /\ pending # <<>> => pending[1] \in Callers
         /\ requests # <<>> => Head(requests) = requests[1] /\ 1 \in 1..Len(requests)
         /\ replies # <<>> => Head(replies) = replies[1] /\ 1 \in 1..Len(replies)
<1>1. Len(requests) \in Nat /\ \A i \in 1..Len(requests) : requests[i] \in [id : Nat, from : Callers]
  <2>1. requests \in Seq([id : Nat, from : Callers])
    BY DEF IndInv, TypeOK, LinkTypes
  <2> QED
    BY <2>1, ElementFacts
<1>2. Len(replies) \in Nat /\ \A i \in 1..Len(replies) : replies[i] \in [id : Nat, answers : Callers]
  <2>1. replies \in Seq([id : Nat, answers : Callers])
    BY DEF IndInv, TypeOK, LinkTypes
  <2> QED
    BY <2>1, ElementFacts
<1>3. pending # <<>> => pending[1] \in Callers
  BY DEF IndInv, TypeOK, ServiceTypes
<1>4. requests # <<>> => Head(requests) = requests[1] /\ 1 \in 1..Len(requests)
  OBVIOUS
<1>5. replies # <<>> => Head(replies) = replies[1] /\ 1 \in 1..Len(replies)
  OBVIOUS
<1>6. \A i \in 1..Len(requests) : requests[i].from \in Callers
  BY <1>1
<1>7. \A i \in 1..Len(replies) : replies[i].answers \in Callers
  BY <1>2
<1> QED
  BY <1>1, <1>2, <1>3

(* A caller that is given an ID had none: the IDs of the others stay.        *)
LEMMA NewId ==
  ASSUME IndInv, NEW c \in Callers, caller[c] = "idle",
         requestID' = [requestID EXCEPT ![c] = nextID + 1]
  PROVE  /\ nextID + 1 \in Nat \ {0}
         /\ requestID'[c] = nextID + 1
         /\ \A d \in Callers : requestID[d] # 0 => requestID'[d] = requestID[d]
  BY DEF IndInv, TypeOK, CallerTypes, IdInv

(* Replying uses the next number; what else is on its way stays.             *)
LEMMA ReplyFacts ==
  ASSUME IndInv, NEW c \in Callers, Reply(c)
  PROVE  /\ replyID' = replyID + 1
         /\ replies' \in Seq([id : Nat, answers : Callers])
         /\ \A i \in 1..Len(replies') :
              \/ i \in 1..Len(replies) /\ replies'[i] = replies[i]
              \/ replies'[i] = [id |-> replyID + 1, answers |-> c]
<1>1. [id |-> replyID + 1, answers |-> c] \in [id : Nat, answers : Callers]
  BY DEF IndInv, TypeOK, ServiceTypes
<1>2. replies \in Seq([id : Nat, answers : Callers])
  BY DEF IndInv, TypeOK, LinkTypes
<1>3. CASE up
  <2>1. replies' = Append(replies, [id |-> replyID + 1, answers |-> c])
    BY <1>3 DEF Reply
  <2>2. /\ replies' \in Seq([id : Nat, answers : Callers])
        /\ Len(replies') = Len(replies) + 1 /\ Len(replies) \in Nat
        /\ \A i \in 1..Len(replies) : replies'[i] = replies[i]
        /\ replies'[Len(replies) + 1] = [id |-> replyID + 1, answers |-> c]
    BY <1>1, <1>2, <2>1
  <2>3. ASSUME NEW i \in 1..Len(replies')
        PROVE  i \in 1..Len(replies) \/ i = Len(replies) + 1
    BY <2>2
  <2>4. replyID' = replyID + 1
    BY DEF Reply
  <2> QED
    BY <2>2, <2>4
<1>4. CASE ~up
  BY <1>2, <1>4 DEF Reply
<1> QED
  BY <1>3, <1>4

(* The new ID is one above every other, and its request is the last.         *)
LEMMA SendRequestInv ==
  ASSUME IndInv, NEW c \in Callers, SendRequest(c)
  PROVE  IndInv'
<1>1. ServiceTypes' /\ TicketTypes' /\ CallbacksAuthorized'
  BY Frames DEF IndInv, TypeOK, SendRequest, ticketVars, serviceVars
<1>2. CallerTypes'
  BY CallersAssumption DEF IndInv, TypeOK, SendRequest, CallerTypes, CallerPcs
<1>3. LinkTypes'
  <2>1. [id |-> nextID + 1, from |-> c] \in [id : Nat, from : Callers]
    BY DEF IndInv, TypeOK, CallerTypes
  <2>2. requests' \in Seq([id : Nat, from : Callers])
    BY <2>1, AppendFacts DEF IndInv, TypeOK, LinkTypes, SendRequest
  <2> QED
    BY <2>2 DEF IndInv, TypeOK, LinkTypes, SendRequest
<1>4. IdInv'
  BY DEF IndInv, TypeOK, SendRequest, CallerTypes, IdInv
<1>5. RequestInv'
  <2>0. \A d \in Callers : requestID[d] # 0 => requestID'[d] = requestID[d]
    BY NewId DEF SendRequest
  <2>1. ASSUME NEW i \in 1..Len(requests), requests'[i] = requests[i]
        PROVE  requests'[i].id = requestID'[requests'[i].from] /\ requests'[i].id # 0
    BY <2>0, <2>1, MessageFacts DEF IndInv, RequestInv
  <2>2. CASE up
    <3>1. requests' = Append(requests, [id |-> nextID + 1, from |-> c])
      BY <2>2 DEF SendRequest
    <3>2. [id |-> nextID + 1, from |-> c] \in [id : Nat, from : Callers]
      BY DEF IndInv, TypeOK, CallerTypes
    <3>3. /\ Len(requests') = Len(requests) + 1
          /\ \A i \in 1..Len(requests) : requests'[i] = requests[i]
          /\ requests'[Len(requests) + 1] = [id |-> nextID + 1, from |-> c]
      BY <3>1
    <3>4. nextID + 1 = requestID'[c] /\ nextID + 1 # 0
      BY NewId DEF SendRequest
    <3> QED
      BY <2>1, <3>3, <3>4 DEF RequestInv
  <2>3. CASE ~up
    BY <2>1, <2>3 DEF SendRequest, RequestInv
  <2> QED
    BY <2>2, <2>3
<1>6. CountInv'
  <2> SUFFICES ASSUME orderly PROVE CountInv'
    BY DEF CountInv, SendRequest, serviceVars
  <2>1. /\ UNCHANGED <<later, pending, replyID, up>> /\ Taken' = Taken
        /\ Taken \in Nat
    BY DEF SendRequest, serviceVars, Taken, IndInv, TypeOK, ServiceTypes
  <2>0. \A d \in Callers : requestID[d] # 0 => requestID'[d] = requestID[d]
    BY NewId DEF SendRequest
  <2>2. later' = {} /\ (pending' # <<>> => requestID'[pending'[1]] = replyID' + 1)
    <3>1. later = {} /\ (pending # <<>> => requestID[pending[1]] = replyID + 1 /\ pending[1] \in Callers)
      BY MessageFacts DEF IndInv, CountInv
    <3>2. replyID + 1 # 0
      BY DEF IndInv, TypeOK, ServiceTypes
    <3> QED
      BY <2>0, <2>1, <3>1, <3>2
  <2>3. /\ \A i \in 1..Len(requests) : requests[i].id = Taken + i
        /\ up => Taken + Len(requests) = nextID
    BY DEF IndInv, CountInv
  <2>4. CASE up
    <3>1. requests' = Append(requests, [id |-> nextID + 1, from |-> c])
      BY <2>4 DEF SendRequest
    <3>2. [id |-> nextID + 1, from |-> c] \in [id : Nat, from : Callers]
      BY DEF IndInv, TypeOK, CallerTypes
    <3>3. /\ Len(requests) \in Nat
          /\ Len(requests') = Len(requests) + 1
          /\ \A i \in 1..Len(requests) : requests'[i] = requests[i]
          /\ requests'[Len(requests) + 1].id = nextID + 1
      BY <3>1
    <3>4. ASSUME NEW i \in 1..Len(requests') PROVE requests'[i].id = Taken' + i
      <4>1. CASE i \in 1..Len(requests)
        BY <2>1, <2>3, <3>3, <4>1
      <4>2. CASE i = Len(requests) + 1
        BY <2>1, <2>3, <2>4, <3>3, <4>2
      <4> QED
        BY <3>3, <4>1, <4>2
    <3>5. Taken' + Len(requests') = nextID'
      BY <2>1, <2>3, <2>4 DEF SendRequest
    <3> QED
      BY <2>2, <3>4, <3>5 DEF CountInv
  <2>5. CASE ~up
    BY <2>1, <2>2, <2>3, <2>5 DEF SendRequest, CountInv
  <2> QED
    BY <2>4, <2>5
<1>7. ReplyInv'
  <2> SUFFICES ASSUME orderly, NEW i \in 1..Len(replies)
               PROVE  replies[i].id = requestID'[replies[i].answers] /\ replies[i].id # 0
    BY DEF ReplyInv, SendRequest, serviceVars
  <2>0. \A d \in Callers : requestID[d] # 0 => requestID'[d] = requestID[d]
    BY NewId DEF SendRequest
  <2> QED
    BY <2>0, MessageFacts DEF IndInv, ReplyInv
<1>8. AnswersMatchInOrder'
  BY DEF IndInv, SendRequest, AnswersMatchInOrder, AnswersMatch, serviceVars
<1> QED
  BY <1>1, <1>2, <1>3, <1>4, <1>5, <1>6, <1>7, <1>8 DEF IndInv, TypeOK

(* An ID that is used up belongs to no request; the connection is gone.      *)
LEMMA SendFailsInv ==
  ASSUME IndInv, NEW c \in Callers, SendFails(c)
  PROVE  IndInv'
<1>1. LinkTypes' /\ ServiceTypes' /\ TicketTypes' /\ CallbacksAuthorized'
  BY Frames DEF IndInv, TypeOK, SendFails, ticketVars, serviceVars
<1>2. CallerTypes'
  BY DEF IndInv, TypeOK, SendFails, CallerTypes, CallerPcs
<1>3. IdInv'
  BY DEF IndInv, TypeOK, SendFails, CallerTypes, IdInv
<1>4. RequestInv'
  <2>0. \A d \in Callers : requestID[d] # 0 => requestID'[d] = requestID[d]
    BY NewId DEF SendFails
  <2> QED
    BY <2>0 DEF IndInv, RequestInv, SendFails
<1>5. CountInv'
  <2> SUFFICES ASSUME orderly PROVE CountInv'
    BY DEF CountInv, SendFails, serviceVars
  <2>1. UNCHANGED <<later, pending, replyID, requests, up>> /\ Taken' = Taken /\ ~up
    BY DEF SendFails, serviceVars, Taken
  <2>2. pending # <<>> => requestID'[pending[1]] = replyID + 1
    <3>1. pending # <<>> => requestID[pending[1]] = replyID + 1 /\ pending[1] \in Callers
      BY MessageFacts DEF IndInv, CountInv
    <3>2. replyID + 1 # 0
      BY DEF IndInv, TypeOK, ServiceTypes
    <3>3. \A d \in Callers : requestID[d] # 0 => requestID'[d] = requestID[d]
      BY NewId DEF SendFails
    <3> QED
      BY <3>1, <3>2, <3>3
  <2> QED
    BY <2>1, <2>2 DEF IndInv, CountInv
<1>6. ReplyInv'
  <2> SUFFICES ASSUME orderly, NEW i \in 1..Len(replies)
               PROVE  replies[i].id = requestID'[replies[i].answers] /\ replies[i].id # 0
    BY DEF ReplyInv, SendFails, serviceVars
  <2>0. \A d \in Callers : requestID[d] # 0 => requestID'[d] = requestID[d]
    BY NewId DEF SendFails
  <2> QED
    BY <2>0, MessageFacts DEF IndInv, ReplyInv
<1>7. AnswersMatchInOrder'
  BY DEF IndInv, SendFails, AnswersMatchInOrder, AnswersMatch, serviceVars
<1> QED
  BY <1>1, <1>2, <1>3, <1>4, <1>5, <1>6, <1>7 DEF IndInv, TypeOK

(* The caller goes on to wait.                                               *)
LEMMA RegisterInv ==
  ASSUME IndInv, NEW c \in Callers, Register(c)
  PROVE  IndInv'
<1>1. LinkTypes' /\ ServiceTypes' /\ TicketTypes' /\ RequestInv' /\ CountInv' /\ ReplyInv' /\ CallbacksAuthorized'
  BY Frames DEF IndInv, TypeOK, Register, ticketVars, serviceVars
<1>2. CallerTypes'
  BY CallersAssumption DEF IndInv, TypeOK, Register, CallerTypes, CallerPcs, callerVars,
     ticketVars, serviceVars
<1>3. IdInv'
  BY DEF IndInv, Register, IdInv
<1>4. AnswersMatchInOrder'
  BY DEF IndInv, Register, AnswersMatchInOrder, AnswersMatch, serviceVars
<1> QED
  BY <1>1, <1>2, <1>3, <1>4 DEF IndInv, TypeOK

(* The caller stops waiting.                                                 *)
LEMMA TimeoutInv ==
  ASSUME IndInv, NEW c \in Callers, Timeout(c)
  PROVE  IndInv'
<1>1. LinkTypes' /\ ServiceTypes' /\ TicketTypes' /\ RequestInv' /\ CountInv' /\ ReplyInv' /\ CallbacksAuthorized'
  BY Frames DEF IndInv, TypeOK, Timeout, ticketVars, serviceVars
<1>2. CallerTypes'
  BY DEF IndInv, TypeOK, Timeout, CallerTypes, CallerPcs
<1>3. IdInv'
  BY DEF IndInv, Timeout, IdInv
<1>4. AnswersMatchInOrder'
  BY DEF IndInv, Timeout, AnswersMatchInOrder, AnswersMatch, serviceVars
<1> QED
  BY <1>1, <1>2, <1>3, <1>4 DEF IndInv, TypeOK

(* The reply with the caller's ID answers the caller's request.              *)
LEMMA DeliverReplyInv ==
  ASSUME IndInv, NEW c \in Callers, DeliverReply(c)
  PROVE  IndInv'
<1>1. ServiceTypes' /\ TicketTypes' /\ RequestInv' /\ CountInv' /\ CallbacksAuthorized'
  BY Frames DEF IndInv, TypeOK, DeliverReply, ticketVars, serviceVars
<1>2. CallerTypes'
  <2>1. Head(replies).answers \in Callers
    BY MessageFacts DEF DeliverReply
  <2> QED
    BY <2>1 DEF IndInv, TypeOK, CallerTypes, CallerPcs, DeliverReply
<1>3. LinkTypes'
  BY DEF IndInv, TypeOK, LinkTypes, DeliverReply
<1>4. IdInv'
  BY DEF IndInv, DeliverReply, IdInv
<1>5. ReplyInv'
  <2>1. /\ Len(replies') = Len(replies) - 1 /\ Len(replies) \in Nat
        /\ \A i \in 1..(Len(replies) - 1) : replies'[i] = replies[i + 1]
    BY DEF DeliverReply
  <2> QED
    BY DEF IndInv, ReplyInv, DeliverReply, serviceVars
<1>6. AnswersMatchInOrder'
  <2> SUFFICES ASSUME orderly PROVE AnswersMatch'
    BY DEF AnswersMatchInOrder, DeliverReply, serviceVars
  <2>1. Head(replies) = replies[1] /\ 1 \in 1..Len(replies) /\ replies[1].answers \in Callers
    BY MessageFacts DEF DeliverReply
  <2>2. replies[1].id = requestID[replies[1].answers] /\ replies[1].id # 0
    BY <2>1 DEF IndInv, ReplyInv
  <2>3. Head(replies).answers = c
    BY <2>1, <2>2 DEF IndInv, IdInv, DeliverReply
  <2> QED
    BY <2>3 DEF IndInv, TypeOK, CallerTypes, AnswersMatchInOrder, AnswersMatch, DeliverReply
<1> QED
  BY <1>1, <1>2, <1>3, <1>4, <1>5, <1>6 DEF IndInv, TypeOK

(* A reply is thrown away.                                                   *)
LEMMA SkipReplyInv ==
  ASSUME IndInv, SkipReply
  PROVE  IndInv'
<1>1. CallerTypes' /\ ServiceTypes' /\ TicketTypes' /\ IdInv' /\ RequestInv' /\ CountInv' /\ AnswersMatchInOrder' /\ CallbacksAuthorized'
  BY Frames DEF IndInv, TypeOK, SkipReply, callerVars, ticketVars, serviceVars
<1>2. LinkTypes'
  BY DEF IndInv, TypeOK, LinkTypes, SkipReply
<1>3. ReplyInv'
  <2>1. /\ Len(replies') = Len(replies) - 1 /\ Len(replies) \in Nat
        /\ \A i \in 1..(Len(replies) - 1) : replies'[i] = replies[i + 1]
    BY DEF SkipReply
  <2> QED
    BY DEF IndInv, ReplyInv, SkipReply, callerVars, serviceVars
<1> QED
  BY <1>1, <1>2, <1>3 DEF IndInv, TypeOK

(* The first request is taken in hand.                                       *)
LEMMA HandleRequestInv ==
  ASSUME IndInv, HandleRequest
  PROVE  IndInv'
<1>1. CallerTypes' /\ TicketTypes' /\ IdInv' /\ ReplyInv' /\ AnswersMatchInOrder' /\ CallbacksAuthorized'
  BY Frames DEF IndInv, TypeOK, HandleRequest, callerVars, ticketVars
<1>2. LinkTypes'
  BY DEF IndInv, TypeOK, LinkTypes, HandleRequest
<1>3. ServiceTypes'
  <2>1. Head(requests).from \in Callers
    BY MessageFacts DEF HandleRequest
  <2>2. pending' \in Seq(Callers) /\ Len(pending') = 1
    BY <2>1 DEF HandleRequest
  <2> QED
    BY <2>2 DEF IndInv, TypeOK, ServiceTypes, HandleRequest
<1>4. RequestInv'
  <2>1. /\ requests \in Seq([id : Nat, from : Callers]) /\ requests # <<>>
        /\ requests' = Tail(requests)
    BY DEF IndInv, TypeOK, LinkTypes, HandleRequest
  <2>2. /\ Len(requests') = Len(requests) - 1 /\ Len(requests) \in Nat \ {0}
        /\ \A i \in 1..(Len(requests) - 1) : requests'[i] = requests[i + 1]
        /\ Head(requests) = requests[1]
    BY <2>1
  <2> QED
    BY DEF IndInv, RequestInv, HandleRequest, callerVars
<1>5. CountInv'
  <2> SUFFICES ASSUME orderly PROVE CountInv'
    BY DEF CountInv, HandleRequest
  <2>1. /\ requests \in Seq([id : Nat, from : Callers]) /\ requests # <<>>
        /\ requests' = Tail(requests)
    BY DEF IndInv, TypeOK, LinkTypes, HandleRequest
  <2>2. /\ Len(requests') = Len(requests) - 1 /\ Len(requests) \in Nat \ {0}
        /\ \A i \in 1..(Len(requests) - 1) : requests'[i] = requests[i + 1]
        /\ Head(requests) = requests[1]
    BY <2>1
  <2>3. /\ UNCHANGED <<later, replyID, up, nextID, requestID>>
        /\ pending = <<>> /\ pending' = <<requests[1].from>> /\ replyID \in Nat
    BY DEF IndInv, TypeOK, ServiceTypes, HandleRequest, callerVars
  <2>4. /\ later = {}
        /\ \A i \in 1..Len(requests) : requests[i].id = replyID + i
        /\ up => replyID + Len(requests) = nextID
    BY <2>3 DEF IndInv, CountInv, Taken
  <2>5. requestID[requests[1].from] = replyID + 1
    BY <2>2, <2>4 DEF IndInv, RequestInv
  <2>6. Taken' = replyID + 1
    BY <2>3 DEF Taken
  <2>7. \A i \in 1..Len(requests') : requests'[i].id = Taken' + i
    BY SMTT(30), <2>2, <2>3, <2>4, <2>6
  <2>8. up' => Taken' + Len(requests') = nextID'
    BY <2>2, <2>3, <2>4, <2>6
  <2> QED
    BY <2>3, <2>4, <2>5, <2>7, <2>8 DEF CountInv
<1> QED
  BY <1>1, <1>2, <1>3, <1>4, <1>5 DEF IndInv, TypeOK

(* NoSuchAction, ReplyOnError and ReplyNow answer the request in hand.       *)
Answer ==
  /\ pending # <<>>
  /\ Reply(pending[1])
  /\ pending' = <<>> /\ stage' = "loop"
  /\ UNCHANGED <<callerVars, later, ticketVars, requests, up, orderly>>

LEMMA Answering ==
  ASSUME IndInv, NoSuchAction \/ ReplyOnError \/ ReplyNow
  PROVE  Answer
<1>1. pending # <<>>
  BY DEF IndInv, TypeOK, ServiceTypes, NoSuchAction, ReplyOnError, ReplyNow, Decides
<1> QED
  BY <1>1 DEF Answer, NoSuchAction, ReplyOnError, ReplyNow

(* The next number of the service's counter is the ID of the request in      *)
(* hand.                                                                     *)
LEMMA AnswerInv ==
  ASSUME IndInv, Answer
  PROVE  IndInv'
<1>1. CallerTypes' /\ TicketTypes' /\ IdInv' /\ RequestInv' /\ AnswersMatchInOrder' /\ CallbacksAuthorized'
  BY Frames DEF IndInv, TypeOK, Answer, callerVars, ticketVars
<1>2. LinkTypes'
  <2>1. pending[1] \in Callers
    BY DEF IndInv, TypeOK, ServiceTypes, Answer
  <2> QED
    BY <2>1, ReplyFacts DEF IndInv, TypeOK, LinkTypes, Answer
<1>3. ServiceTypes'
  <2>1. replyID' = replyID + 1
    BY DEF Answer, Reply
  <2> QED
    BY <2>1 DEF IndInv, TypeOK, ServiceTypes, Answer
<1>4. CountInv'
  <2> SUFFICES ASSUME orderly PROVE CountInv'
    BY DEF CountInv, Answer
  <2>1. /\ UNCHANGED <<later, requests, up, nextID>> /\ pending' = <<>>
        /\ Taken = replyID + 1 /\ Taken' = replyID + 1
    BY DEF IndInv, TypeOK, ServiceTypes, Answer, Reply, Taken, callerVars
  <2> QED
    BY <2>1 DEF IndInv, CountInv
<1>5. ReplyInv'
  <2> SUFFICES ASSUME orderly, NEW i \in 1..Len(replies')
               PROVE  replies'[i].id = requestID[replies'[i].answers] /\ replies'[i].id # 0
    BY DEF ReplyInv, Answer, callerVars
  <2>1. pending[1] \in Callers /\ replyID \in Nat
    BY DEF IndInv, TypeOK, ServiceTypes, Answer
  <2>2. requestID[pending[1]] = replyID + 1
    BY DEF IndInv, CountInv, Answer
  <2>3. \/ i \in 1..Len(replies) /\ replies'[i] = replies[i]
        \/ replies'[i] = [id |-> replyID + 1, answers |-> pending[1]]
    BY <2>1, ReplyFacts DEF Answer
  <2> QED
    BY <2>1, <2>2, <2>3 DEF IndInv, ReplyInv
<1> QED
  BY <1>1, <1>2, <1>3, <1>4, <1>5 DEF IndInv, TypeOK

(* The key is read before any ticket was verified; without one the process   *)
(* ends.                                                                     *)
LEMMA ReadVerifyKeyInv ==
  ASSUME IndInv, ReadVerifyKey
  PROVE  IndInv'
<1>1. CallerTypes' /\ IdInv' /\ AnswersMatchInOrder'
  BY Frames DEF IndInv, TypeOK, ReadVerifyKey, callerVars
<1>2. LinkTypes'
  <2>1. CASE verifyKey' = NoKey
    <3>1. PICK k \in 0..Len(replies) : replies' = SubSeq(replies, 1, k)
      BY <2>1 DEF ReadVerifyKey
    <3>2. replies' \in Seq([id : Nat, answers : Callers])
      BY <3>1, PrefixFacts DEF IndInv, TypeOK, LinkTypes
    <3>3. requests' = <<>> /\ up' = FALSE
      BY <2>1 DEF ReadVerifyKey
    <3>4. requests' \in Seq([id : Nat, from : Callers])
      BY <3>3
    <3> QED
      BY <3>2, <3>3, <3>4 DEF LinkTypes
  <2>2. CASE verifyKey' # NoKey
    BY <2>2 DEF IndInv, TypeOK, LinkTypes, ReadVerifyKey
  <2> QED
    BY <2>1, <2>2
<1>3. ServiceTypes'
  BY DEF IndInv, TypeOK, ReadVerifyKey, ServiceTypes
<1>4. TicketTypes'
  <2>1. KeyAt[Option.keyPath] \in Keys \cup {NoKey}
    BY OptionsAssumption, KeyAtAssumption DEF ReadVerifyKey, Known, Option
  <2> QED
    BY <2>1 DEF IndInv, TypeOK, TicketTypes, ReadVerifyKey
<1>5. RequestInv'
  <2>1. requests' \in {requests, <<>>} /\ requestID' = requestID
    BY DEF ReadVerifyKey, callerVars
  <2> QED
    BY <2>1 DEF IndInv, RequestInv
<1>6. CountInv'
  <2>1. UNCHANGED <<orderly, later, pending, replyID, requestID, nextID>> /\ Taken' = Taken
    BY DEF ReadVerifyKey, callerVars, Taken
  <2>2. \/ UNCHANGED <<requests, up>>
        \/ requests' = <<>> /\ ~up'
    BY DEF ReadVerifyKey
  <2> QED
    BY <2>1, <2>2 DEF IndInv, CountInv
<1>7. ReplyInv'
  <2>1. UNCHANGED <<orderly, requestID>>
    BY DEF ReadVerifyKey, callerVars
  <2>2. CASE verifyKey' = NoKey
    <3>1. PICK k \in 0..Len(replies) : replies' = SubSeq(replies, 1, k)
      BY <2>2 DEF ReadVerifyKey
    <3>2. Len(replies') = k /\ \A i \in 1..k : replies'[i] = replies[i]
      BY <3>1
    <3>3. \A i \in 1..k : i \in 1..Len(replies)
      OBVIOUS
    <3> QED
      BY <2>1, <3>2 DEF IndInv, ReplyInv
  <2>3. CASE verifyKey' # NoKey
    BY <2>1 DEF IndInv, ReplyInv, ReadVerifyKey
  <2> QED
    BY <2>2, <2>3
<1>8. CallbacksAuthorized'
  BY DEF IndInv, CallbacksAuthorized, ReadVerifyKey
<1> QED
  BY <1>1, <1>2, <1>3, <1>4, <1>5, <1>6, <1>7, <1>8 DEF IndInv, TypeOK

(* A sum that is too large wraps to one that is smaller.                     *)
LEMMA PlusAtMost ==
  ASSUME NEW m \in Int64, NEW n \in Int64, NEW t \in Nat, ~(Plus(m, n) < t)
  PROVE  t <= m + n \/ m + n < TimeMin
BY TicketsAssumption DEF Int64, TimeMin, Plus

(* The callback runs for a ticket that allows it.                            *)
LEMMA CallInv ==
  ASSUME IndInv, Call
  PROVE  IndInv'
<1>1. CallerTypes' /\ LinkTypes' /\ IdInv' /\ RequestInv' /\ CountInv' /\ ReplyInv' /\ AnswersMatchInOrder'
  BY Frames DEF IndInv, TypeOK, Call, callerVars
<1>2. ServiceTypes'
  BY DEF IndInv, TypeOK, ServiceTypes, Call, Decides
<1>3. TicketTypes'
  BY DEF IndInv, TypeOK, ServiceTypes, TicketTypes, Call
<1>4. CallbacksAuthorized'
  <2> SUFFICES ASSUME NEW c \in DOMAIN asks, ranAt'[c] # NoTime, Checked(Options[asks[c].action])
               PROVE  LET t == asks[c].ticket
                      IN  /\ t.signer = verifyKey /\ verifyKey # NoKey
                          /\ ranAt'[c] <= t.timestamp + t.ttl \/ t.timestamp + t.ttl < TimeMin
                          /\ t.parts > 5
                          /\ Options[asks[c].action].privs \ t.privileges = {}
                          /\ t.parts = 6 => Options[asks[c].action].privs = {}
    BY DEF CallbacksAuthorized, Call
  <2>1. c \in Callers /\ asks[c].ticket \in Ticket
    BY OptionsAssumption DEF IndInv, TypeOK, TicketTypes
  <2>2. CASE c = pending[1]
    <3>1. /\ VerifyTicket(asks[c].ticket, verifyKey, now)
          /\ CheckPrivs(asks[c].ticket, Options[asks[c].action].privs)
          /\ verifyKey # NoKey
      BY <2>2 DEF Call, Decides, Allows, Ask, Option, VerifyTicket
    <3>2. ranAt'[c] = now /\ now \in Nat
      BY <2>1, <2>2 DEF IndInv, TypeOK, TicketTypes, Call
    <3>3. \/ ranAt'[c] <= asks[c].ticket.timestamp + asks[c].ticket.ttl
          \/ asks[c].ticket.timestamp + asks[c].ticket.ttl < TimeMin
      <4>1. asks[c].ticket.timestamp \in Int64 /\ asks[c].ticket.ttl \in Int64
        BY <2>1 DEF Ticket
      <4>2. ~(Plus(asks[c].ticket.timestamp, asks[c].ticket.ttl) < ranAt'[c])
        BY <3>1, <3>2 DEF VerifyTicket, Expired
      <4> QED
        BY <3>2, <4>1, <4>2, PlusAtMost
    <3>4. asks[c].ticket.signer = verifyKey /\ asks[c].ticket.parts > 5
      BY <2>1, <3>1 DEF VerifyTicket, HasParts, Ticket
    <3>5. /\ Options[asks[c].action].privs \ asks[c].ticket.privileges = {}
          /\ asks[c].ticket.parts = 6 => Options[asks[c].action].privs = {}
      BY <3>1 DEF CheckPrivs, Privileges
    <3> QED
      BY <3>1, <3>3, <3>4, <3>5
  <2>3. CASE c # pending[1]
    <3>1. ranAt'[c] = ranAt[c]
      BY <2>3 DEF Call
    <3> QED
      BY <3>1 DEF IndInv, CallbacksAuthorized
  <2> QED
    BY <2>2, <2>3
<1> QED
  BY <1>1, <1>2, <1>3, <1>4 DEF IndInv, TypeOK

(* Time goes on.                                                             *)
LEMMA TickInv ==
  ASSUME IndInv, Tick
  PROVE  IndInv'
<1>1. CallerTypes' /\ LinkTypes' /\ ServiceTypes' /\ IdInv' /\ RequestInv' /\ CountInv' /\ ReplyInv' /\ AnswersMatchInOrder' /\ CallbacksAuthorized'
  BY Frames DEF IndInv, TypeOK, Tick, callerVars
<1>2. TicketTypes'
  BY OptionsAssumption DEF IndInv, TypeOK, TicketTypes, Tick
<1> QED
  BY <1>1, <1>2 DEF IndInv, TypeOK

(* From here on nothing is promised about the order of replies ...           *)
LEMMA LeaveToGoroutineInv ==
  ASSUME IndInv, LeaveToGoroutine
  PROVE  IndInv'
<1>1. CallerTypes' /\ LinkTypes' /\ TicketTypes' /\ IdInv' /\ RequestInv' /\ CallbacksAuthorized'
  BY Frames DEF IndInv, TypeOK, LeaveToGoroutine, callerVars, ticketVars
<1>2. ServiceTypes'
  <2>1. pending[1] \in Callers /\ pending' \in Seq(Callers) /\ Len(pending') = 0
    BY DEF IndInv, TypeOK, ServiceTypes, LeaveToGoroutine
  <2>2. later' \subseteq Callers
    BY DEF IndInv, TypeOK, ServiceTypes, LeaveToGoroutine
  <2>3. pending' = <<>> /\ stage' = "loop" /\ orderly' = FALSE /\ replyID' = replyID
    BY DEF LeaveToGoroutine
  <2>4. Len(pending') <= 1
    BY <2>1
  <2>5. replyID' \in Nat
    BY <2>3 DEF IndInv, TypeOK, ServiceTypes
  <2> QED
    BY <2>1, <2>2, <2>3, <2>4, <2>5 DEF ServiceTypes
<1>3. CountInv'
  BY DEF CountInv, LeaveToGoroutine
<1>4. ReplyInv'
  BY DEF ReplyInv, LeaveToGoroutine
<1>5. AnswersMatchInOrder'
  BY DEF AnswersMatchInOrder, LeaveToGoroutine
<1> QED
  BY <1>1, <1>2, <1>3, <1>4, <1>5 DEF IndInv, TypeOK

(* ... nor from here.                                                        *)
LEMMA NeverReplyInv ==
  ASSUME IndInv, NeverReply
  PROVE  IndInv'
<1>1. CallerTypes' /\ LinkTypes' /\ TicketTypes' /\ IdInv' /\ RequestInv' /\ CallbacksAuthorized'
  BY Frames DEF IndInv, TypeOK, NeverReply, callerVars, ticketVars
<1>2. ServiceTypes'
  <2>1. pending[1] \in Callers /\ pending' \in Seq(Callers) /\ Len(pending') = 0
    BY DEF IndInv, TypeOK, ServiceTypes, NeverReply
  <2>2. later' \subseteq Callers
    BY DEF IndInv, TypeOK, ServiceTypes, NeverReply
  <2>3. pending' = <<>> /\ stage' = "loop" /\ orderly' = FALSE /\ replyID' = replyID
    BY DEF NeverReply
  <2>4. Len(pending') <= 1
    BY <2>1
  <2>5. replyID' \in Nat
    BY <2>3 DEF IndInv, TypeOK, ServiceTypes
  <2> QED
    BY <2>1, <2>2, <2>3, <2>4, <2>5 DEF ServiceTypes
<1>3. CountInv'
  BY DEF CountInv, NeverReply
<1>4. ReplyInv'
  BY DEF ReplyInv, NeverReply
<1>5. AnswersMatchInOrder'
  BY DEF AnswersMatchInOrder, NeverReply
<1> QED
  BY <1>1, <1>2, <1>3, <1>4, <1>5 DEF IndInv, TypeOK

(* A late reply comes only after that.                                       *)
LEMMA ReplyLaterInv ==
  ASSUME IndInv, NEW c \in Callers, ReplyLater(c)
  PROVE  IndInv'
<1>1. CallerTypes' /\ TicketTypes' /\ IdInv' /\ RequestInv' /\ AnswersMatchInOrder' /\ CallbacksAuthorized'
  BY Frames DEF IndInv, TypeOK, ReplyLater, callerVars, ticketVars
<1>2. LinkTypes'
  BY ReplyFacts DEF IndInv, TypeOK, LinkTypes, ReplyLater
<1>3. ServiceTypes'
  <2>1. replyID' = replyID + 1
    BY DEF ReplyLater, Reply
  <2> QED
    BY <2>1 DEF IndInv, TypeOK, ServiceTypes, ReplyLater
<1>4. CountInv'
  BY DEF IndInv, CountInv, ReplyLater
<1>5. ReplyInv'
  BY DEF IndInv, CountInv, ReplyInv, ReplyLater
<1> QED
  BY <1>1, <1>2, <1>3, <1>4, <1>5 DEF IndInv, TypeOK

(* What is cut off leaves a prefix of what was on its way.                   *)
LEMMA ConnectionFailsInv ==
  ASSUME IndInv, ConnectionFails
  PROVE  IndInv'
<1>1. CallerTypes' /\ ServiceTypes' /\ TicketTypes' /\ IdInv' /\ AnswersMatchInOrder' /\ CallbacksAuthorized'
  BY Frames DEF IndInv, TypeOK, ConnectionFails, callerVars, ticketVars, serviceVars
<1>2. LinkTypes'
  <2>1. PICK k \in 0..Len(requests) : requests' = SubSeq(requests, 1, k)
    BY DEF ConnectionFails
  <2>2. PICK n \in 0..Len(replies) : replies' = SubSeq(replies, 1, n)
    BY DEF ConnectionFails
  <2>3. requests' \in Seq([id : Nat, from : Callers])
    BY <2>1, PrefixFacts DEF IndInv, TypeOK, LinkTypes
  <2>4. replies' \in Seq([id : Nat, answers : Callers])
    BY <2>2, PrefixFacts DEF IndInv, TypeOK, LinkTypes
  <2> QED
    BY <2>3, <2>4 DEF LinkTypes, ConnectionFails
<1>3. RequestInv'
  <2>1. PICK k \in 0..Len(requests) : requests' = SubSeq(requests, 1, k)
    BY DEF ConnectionFails
  <2>2. Len(requests') = k /\ \A i \in 1..k : requests'[i] = requests[i] /\ i \in 1..Len(requests)
    BY <2>1
  <2> QED
    BY DEF IndInv, RequestInv, ConnectionFails, callerVars
<1>4. CountInv'
  <2>1. PICK k \in 0..Len(requests) : requests' = SubSeq(requests, 1, k)
    BY DEF ConnectionFails
  <2>2. Len(requests') = k /\ \A i \in 1..k : requests'[i] = requests[i] /\ i \in 1..Len(requests)
    BY <2>1
  <2>3. UNCHANGED <<orderly, later, pending, replyID, requestID>> /\ Taken' = Taken /\ ~up'
    BY DEF ConnectionFails, callerVars, serviceVars, Taken
  <2> QED
    BY <2>2, <2>3 DEF IndInv, CountInv
<1>5. ReplyInv'
  <2>1. PICK k \in 0..Len(replies) : replies' = SubSeq(replies, 1, k)
    BY DEF ConnectionFails
  <2>2. Len(replies') = k /\ \A i \in 1..k : replies'[i] = replies[i] /\ i \in 1..Len(replies)
    BY <2>1
  <2> QED
    BY DEF IndInv, ReplyInv, ConnectionFails, callerVars, serviceVars
<1> QED
  BY <1>1, <1>2, <1>3, <1>4, <1>5 DEF IndInv, TypeOK

-----------------------------------------------------------------------------
(* The invariant and the theorems *)

(* Every step preserves the invariant.                                       *)
LEMMA StepInv == IndInv /\ [Next]_vars => IndInv'
<1> SUFFICES ASSUME IndInv, [Next]_vars PROVE IndInv'
  OBVIOUS
<1>1. ASSUME NEW c \in Callers, CallerStep(c) \/ ReplyLater(c) PROVE IndInv'
  BY <1>1, SendRequestInv, SendFailsInv, RegisterInv, TimeoutInv, DeliverReplyInv,
     ReplyLaterInv DEF CallerStep
<1>2. CASE ServiceStep
  BY <1>2, HandleRequestInv, Answering, AnswerInv, ReadVerifyKeyInv, CallInv,
     LeaveToGoroutineInv, NeverReplyInv DEF ServiceStep
<1>3. CASE SkipReply \/ ConnectionFails \/ Tick
  BY <1>3, SkipReplyInv, ConnectionFailsInv, TickInv
<1>4. CASE UNCHANGED vars
  BY <1>4, Frames DEF IndInv, TypeOK, vars, callerVars, serviceVars, ticketVars
<1> QED
  BY <1>1, <1>2, <1>3, <1>4 DEF Next

(* It holds of every reachable state.                                        *)
LEMMA Invariant == Spec => []IndInv
  BY InitInv, StepInv, PTL DEF Spec

(* The type invariant of the two clients, the service and the channels.      *)
THEOREM TypeCorrect == Spec => []TypeOK
<1>1. IndInv => TypeOK
  BY DEF IndInv
<1> QED
  BY <1>1, Invariant, PTL

(* For any number of callers: as long as every callback replies before it    *)
(* returns, the service's counter gives each reply the ID of its request,    *)
(* and every caller gets the answer to its own.                              *)
THEOREM OrderlyAnswersMatch == Spec => []AnswersMatchInOrder
<1>1. IndInv => AnswersMatchInOrder
  BY DEF IndInv
<1> QED
  BY <1>1, Invariant, PTL

(* For any tickets with any 64-bit numbers, any options and any keys:        *)
(* ServiceOptionsFunc.Call has let only requests through whose ticket the    *)
(* one trusted key signed, that had not outlived its TTL or whose end lies   *)
(* before every int64, and that grants what the action asks for.             *)
THEOREM OnlyAuthorizedRun == Spec => []CallbacksAuthorized
<1>1. IndInv => CallbacksAuthorized
  BY DEF IndInv
<1> QED
  BY <1>1, Invariant, PTL

=============================================================================
