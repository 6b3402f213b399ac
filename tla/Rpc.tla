--------------------------------- MODULE Rpc ---------------------------------
(***************************************************************************)
(* A request and its reply from end to end: callers of MakeJSONRequest      *)
(* share one Client, whose requests travel to a Service; Handle takes them  *)
(* one at a time and the action's callback answers through the service's    *)
(* own Client for that connection.                                          *)
(*                                                                          *)
(* The callback sets the request's ID on its reply, but client.Send numbers *)
(* whatever it sends from its own counter: what pairs a reply with its      *)
(* request is that both counters count alike.  The two directions of the    *)
(* connection are the FIFO channels that module Connection provides; they   *)
(* may fail, after which nothing arrives any more.                          *)
(*                                                                          *)
(* Between Handle and the callback stands ServiceOptionsFunc.Call           *)
(* (src/scamp/action_options.go): an action may ask for a ticket and for    *)
(* privileges.  The key that tickets are verified with is read once in the  *)
(* life of the process, from the path the first action that needs it names. *)
(***************************************************************************)
EXTENDS Tickets, Sequences

CONSTANTS
  Callers,   \* goroutines in MakeJSONRequest, one request each
  Asks,      \* what some of them ask: a set of functions to [action, ticket]
  Options,   \* [actions registered -> [verify, privs, keyPath]]
  KeyAt,     \* [paths -> the key found there, or NoKey]
  MaxNow     \* bound: the last second of the clock

NoCaller == "nobody"
NoTime == -1
ASSUME CallersAssumption == NoCaller \notin Callers
ASSUME OptionsAssumption ==
  /\ \A asked \in Asks : DOMAIN asked \subseteq Callers /\ \A c \in DOMAIN asked : asked[c].ticket \in Ticket
  /\ \A a \in DOMAIN Options : Options[a].privs \subseteq Privs /\ Options[a].keyPath \in DOMAIN KeyAt
  /\ MaxNow \in 0..TimeMax
ASSUME KeyAtAssumption == \A path \in DOMAIN KeyAt : KeyAt[path] \in Keys \cup {NoKey}

VARIABLES
  caller,       \* [Callers -> where it is]
  sendM,        \* sendM of the requesting Client
  nextID,       \* nextRequestID of the requesting Client
  requestID,    \* [Callers -> Nat]: the ID its request went out with
  openReplies,  \* IDs registered, of the requesting Client
  got,          \* [Callers -> the caller whose request its answer answers]
  requests,     \* requests on their way: [id, from]
  replies,      \* replies on their way: [id, answers]
  pending,      \* request Handle is working on: <<>> or <<from>>
  stage,        \* of that request: "call", or "callback" once it runs; "loop" without one
  verifyKey,    \* the key readVerifyKey has read, or NoKey
  now,          \* the clock
  asks,         \* of every caller that calls: the action it asks for and its ticket
  ranAt,        \* history: [Callers -> when Call let its request through, or NoTime]
  later,        \* callers whose request is left to a goroutine
  replyID,      \* nextRequestID of the service's Client
  up,           \* the connection works
  orderly       \* history: so far every callback replied before it returned

callerVars == <<caller, sendM, nextID, requestID, openReplies, got>>
ticketVars == <<verifyKey, now, asks, ranAt>>
serviceVars == <<pending, stage, later, replyID, orderly, ticketVars>>
vars == <<callerVars, serviceVars, requests, replies, up>>

-----------------------------------------------------------------------------
(* The callers *)

(* client.Send: number the request and transmit it ...                      *)
SendRequest(c) ==
  /\ caller[c] = "idle" /\ c \in DOMAIN asks
  /\ sendM = NoCaller
  /\ sendM' = c
  /\ nextID' = nextID + 1
  /\ requestID' = [requestID EXCEPT ![c] = nextID + 1]
  /\ requests' = IF up THEN Append(requests, [id |-> nextID + 1, from |-> c]) ELSE requests
  /\ caller' = [caller EXCEPT ![c] = "sent"]
  /\ UNCHANGED <<openReplies, got, serviceVars, replies, up>>

(* The connection is gone and client.Send says so: the ID is used up.       *)
SendFails(c) ==
  /\ caller[c] = "idle" /\ c \in DOMAIN asks
  /\ sendM = NoCaller
  /\ ~up
  /\ nextID' = nextID + 1
  /\ requestID' = [requestID EXCEPT ![c] = nextID + 1]
  /\ caller' = [caller EXCEPT ![c] = "failed"]
  /\ UNCHANGED <<sendM, openReplies, got, serviceVars, requests, replies, up>>

(* Mutant of Register: sendM is not unlocked.                               *)
RegisterLocked(c) ==
  /\ caller[c] = "sent"
  /\ openReplies' = openReplies \cup {requestID[c]}
  /\ caller' = [caller EXCEPT ![c] = "waiting"]
  /\ UNCHANGED <<sendM, nextID, requestID, got, serviceVars, requests, replies, up>>

(* ... then register the reply channel.                                     *)
Register(c) ==
  /\ caller[c] = "sent"
  /\ openReplies' = openReplies \cup {requestID[c]}
  /\ sendM' = NoCaller
  /\ caller' = [caller EXCEPT ![c] = "waiting"]
  /\ UNCHANGED <<nextID, requestID, got, serviceVars, requests, replies, up>>

Timeout(c) ==
  /\ caller[c] = "waiting"
  /\ caller' = [caller EXCEPT ![c] = "timedout"]
  /\ UNCHANGED <<sendM, nextID, requestID, openReplies, got, serviceVars, requests, replies,
                 up>>

(* splitReqsAndReps finds the channel registered under the reply's ID and   *)
(* the caller that waits on it gets the message.                            *)
DeliverReply(c) ==
  /\ replies # <<>>
  /\ Head(replies).id = requestID[c]
  /\ requestID[c] \in openReplies
  /\ caller[c] = "waiting"
  /\ got' = [got EXCEPT ![c] = Head(replies).answers]
  /\ caller' = [caller EXCEPT ![c] = "answered"]
  /\ openReplies' = openReplies \ {requestID[c]}
  /\ replies' = Tail(replies)
  /\ UNCHANGED <<sendM, nextID, requestID, serviceVars, requests, up>>

(* No channel is registered under that ID: the reply is skipped.  (With one *)
(* registered whose caller timed out, the splitter blocks for good.)        *)
SkipReply ==
  /\ replies # <<>>
  /\ Head(replies).id \notin openReplies
  /\ replies' = Tail(replies)
  /\ UNCHANGED <<callerVars, serviceVars, requests, up>>

-----------------------------------------------------------------------------
(* The service *)

(* Handle receives a request ...                                            *)
HandleRequest ==
  /\ stage = "loop"
  /\ requests # <<>>
  /\ pending' = <<Head(requests).from>>
  /\ stage' = "call"
  /\ requests' = Tail(requests)
  /\ UNCHANGED <<callerVars, later, replyID, ticketVars, replies, up, orderly>>

(* SetRequestID(request's ID), then client.Send, which puts the next number *)
(* of the service's own counter in its place.                               *)
Reply(c) ==
  /\ replyID' = replyID + 1
  /\ replies' = IF up THEN Append(replies, [id |-> replyID + 1, answers |-> c]) ELSE replies

Ask == asks[pending[1]]
Known == Ask.action \in DOMAIN Options
Option == Options[Ask.action]

(* Call looks at the ticket only if the action asks for it.                 *)
Checked(option) == option.verify \/ option.privs # {}

(* ... for an action nobody registered it sends "no such action".           *)
NoSuchAction ==
  /\ stage = "call" /\ ~Known
  /\ Reply(pending[1])
  /\ pending' = <<>> /\ stage' = "loop"
  /\ UNCHANGED <<callerVars, later, ticketVars, requests, up, orderly>>

(* readVerifyKey.Do: the first ticket with enough parts makes it read the   *)
(* key of its action.  (With no key there it panics, and the process is     *)
(* gone; that is the end of the connection.)                                *)
ReadVerifyKey ==
  /\ stage = "call" /\ Known
  /\ Checked(Option) /\ HasParts(Ask.ticket)
  /\ verifyKey = NoKey
  /\ verifyKey' = KeyAt[Option.keyPath]
  /\ IF verifyKey' = NoKey
     THEN /\ up' = FALSE /\ stage' = "dead"
          /\ requests' = <<>>
          /\ \E k \in 0..Len(replies) : replies' = SubSeq(replies, 1, k)
     ELSE UNCHANGED <<up, stage, requests, replies>>
  /\ UNCHANGED <<callerVars, pending, later, replyID, now, asks, ranAt, orderly>>

(* What Call decides, once the key that may be needed is there.             *)
Decides == stage = "call" /\ Known /\ (Checked(Option) /\ HasParts(Ask.ticket) => verifyKey # NoKey)

Allows ==
  Checked(Option) => VerifyTicket(Ask.ticket, verifyKey, now) /\ CheckPrivs(Ask.ticket, Option.privs)

(* The callback is called ...                                               *)
Call ==
  /\ Decides /\ Allows
  /\ stage' = "callback"
  /\ ranAt' = [ranAt EXCEPT ![pending[1]] = now]
  /\ UNCHANGED <<callerVars, pending, later, replyID, orderly, verifyKey, now, asks, requests,
                 replies, up>>

(* Mutant of ReplyOnError: nothing is sent.                                 *)
ReplyOnErrorSilently ==
  /\ Decides /\ ~Allows
  /\ pending' = <<>> /\ stage' = "loop"
  /\ UNCHANGED <<callerVars, later, replyID, replies, ticketVars, requests, up, orderly>>

(* ... or the error is sent in its place.                                   *)
ReplyOnError ==
  /\ Decides /\ ~Allows
  /\ Reply(pending[1])
  /\ pending' = <<>> /\ stage' = "loop"
  /\ UNCHANGED <<callerVars, later, ticketVars, requests, up, orderly>>

Tick ==
  /\ now < MaxNow
  /\ now' = now + 1
  /\ UNCHANGED <<callerVars, pending, stage, later, replyID, orderly, verifyKey, asks, ranAt,
                 requests, replies, up>>

(* The callback replies and returns.                                        *)
ReplyNow ==
  /\ stage = "callback"
  /\ Reply(pending[1])
  /\ pending' = <<>> /\ stage' = "loop"
  /\ UNCHANGED <<callerVars, later, ticketVars, requests, up, orderly>>

(* The callback starts a goroutine that will reply, and returns.            *)
LeaveToGoroutine ==
  /\ stage = "callback"
  /\ later' = later \cup {pending[1]}
  /\ pending' = <<>> /\ stage' = "loop"
  /\ orderly' = FALSE
  /\ UNCHANGED <<callerVars, replyID, ticketVars, requests, replies, up>>

ReplyLater(c) ==
  /\ c \in later
  /\ stage # "dead"
  /\ Reply(c)
  /\ later' = later \ {c}
  /\ UNCHANGED <<callerVars, pending, stage, ticketVars, requests, up, orderly>>

(* The callback returns without a reply: nothing makes it send one.         *)
NeverReply ==
  /\ stage = "callback"
  /\ pending' = <<>> /\ stage' = "loop"
  /\ orderly' = FALSE
  /\ UNCHANGED <<callerVars, later, replyID, ticketVars, requests, replies, up>>

(* The connection fails: what is on its way is cut off somewhere.           *)
ConnectionFails ==
  /\ up
  /\ up' = FALSE
  /\ \E k \in 0..Len(requests) : requests' = SubSeq(requests, 1, k)
  /\ \E k \in 0..Len(replies) : replies' = SubSeq(replies, 1, k)
  /\ UNCHANGED <<callerVars, serviceVars>>

-----------------------------------------------------------------------------
Init ==
  /\ caller = [c \in Callers |-> "idle"]
  /\ sendM = NoCaller
  /\ nextID = 0
  /\ requestID = [c \in Callers |-> 0]
  /\ openReplies = {}
  /\ got = [c \in Callers |-> NoCaller]
  /\ requests = <<>> /\ replies = <<>>
  /\ pending = <<>> /\ stage = "loop" /\ later = {} /\ replyID = 0
  /\ verifyKey = NoKey /\ now = 0 /\ asks \in Asks
  /\ ranAt = [c \in Callers |-> NoTime]
  /\ up = TRUE /\ orderly = TRUE

CallerStep(c) == SendRequest(c) \/ SendFails(c) \/ Register(c) \/ Timeout(c) \/ DeliverReply(c)
ServiceStep ==
  \/ HandleRequest \/ NoSuchAction \/ ReadVerifyKey \/ Call \/ ReplyOnError
  \/ ReplyNow \/ LeaveToGoroutine \/ NeverReply

Next ==
  \/ \E c \in Callers : CallerStep(c) \/ ReplyLater(c)
  \/ ServiceStep \/ SkipReply \/ ConnectionFails \/ Tick

Spec == Init /\ [][Next]_vars

-----------------------------------------------------------------------------
(* Properties *)

CallerPcs == {"idle", "sent", "waiting", "answered", "timedout", "failed"}

CallerTypes ==
  /\ caller \in [Callers -> CallerPcs]
  /\ sendM \in Callers \cup {NoCaller}
  /\ \A c \in Callers : sendM = c <=> caller[c] = "sent"
  /\ nextID \in Nat
  /\ requestID \in [Callers -> Nat]
  /\ openReplies \subseteq Nat
  /\ got \in [Callers -> Callers \cup {NoCaller}]

LinkTypes ==
  /\ requests \in Seq([id : Nat, from : Callers])
  /\ replies \in Seq([id : Nat, answers : Callers])
  /\ up \in BOOLEAN

ServiceTypes ==
  /\ pending \in Seq(Callers) /\ Len(pending) <= 1
  /\ stage \in {"loop", "call", "callback", "dead"}
  /\ stage = "loop" <=> pending = <<>>
  /\ replyID \in Nat
  /\ later \subseteq Callers /\ orderly \in BOOLEAN

TicketTypes ==
  /\ verifyKey \in Keys \cup {NoKey} /\ now \in 0..MaxNow
  /\ asks \in Asks
  /\ ranAt \in [Callers -> {NoTime} \cup 0..MaxNow]

(* The shape of the state of both clients and of the two channels.           *)
TypeOK == CallerTypes /\ LinkTypes /\ ServiceTypes /\ TicketTypes

(* The header's request_id pairs a reply with its request: the answer a      *)
(* caller gets is the answer to its own request.                             *)
AnswersMatch == \A c \in Callers : caller[c] = "answered" => got[c] = c

(* That holds, under timeouts, lost replies, a failing connection and        *)
(* concurrent callers, as long as every callback replies exactly once before *)
(* it returns: then client.Send's two counters, which number requests and    *)
(* replies by counting them, count alike.                                    *)
AnswersMatchInOrder == orderly => AnswersMatch

(* A callback of an action that asks for tickets has only ever run for a     *)
(* ticket that was issued, unchanged, by the holder of the one key this      *)
(* process trusts, that had not outlived its TTL when the request was let    *)
(* through - unless the end of its TTL lies before the first second an int64 *)
(* can name - and that grants every privilege the action asks for: whichever *)
(* action had the key read, and whatever was refused before.                 *)
CallbacksAuthorized ==
  \A c \in DOMAIN asks : ranAt[c] # NoTime /\ Checked(Options[asks[c].action]) =>
    LET t == asks[c].ticket
    IN  /\ t.signer = verifyKey /\ verifyKey # NoKey
        /\ ranAt[c] <= t.timestamp + t.ttl \/ t.timestamp + t.ttl < TimeMin
        /\ t.parts > 5
        /\ Options[asks[c].action].privs \ t.privileges = {}
        /\ t.parts = 6 => Options[asks[c].action].privs = {}

=============================================================================
