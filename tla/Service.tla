------------------------------- MODULE Service -------------------------------
(***************************************************************************)
(* A scamp Service (src/scamp/service.go): Run accepts connections and      *)
(* starts a Handle goroutine for each; Handle serves the requests of its    *)
(* client until the client goes away, falls silent or cannot be replied to, *)
(* and removes it from serv.clients; Stop closes the listener, upon which   *)
(* Run closes every client.                                                 *)
(*                                                                          *)
(* Of a Client only what Service sees of it is kept: whether it is closed,  *)
(* and where its splitReqsAndReps is, which feeds and closes the unbuffered *)
(* channel Incoming() - and ends the process if it comes back to the top of *)
(* its loop after Close has set client.conn to nil (module Client has the   *)
(* rest).                                                                   *)
(***************************************************************************)
EXTENDS Naturals, Sequences, FiniteSets

CONSTANTS
  Conns,        \* the connections peers may open
  MaxMessages   \* bound: messages a peer sends on one connection

Free == "free"
RunLoop == "run"

ASSUME ConnsAssumption == Free \notin Conns /\ RunLoop \notin Conns
ASSUME MessagesAssumption == MaxMessages \in Nat

VARIABLES
  run,          \* where Run is
  listening,    \* the listener is open
  clients,      \* serv.clients
  clientsM,     \* clientsM: a Handle goroutine, Run, or nobody
  toClose,      \* clients Run has still to close
  handle,       \* [Conns -> where its Handle goroutine is]
  closed,       \* [Conns -> BOOLEAN]: client.Close has run
  peer,         \* [Conns -> "away", "connected" or "left"]
  splitter,     \* [Conns -> where the client's splitReqsAndReps is]
  received,     \* [Conns -> Nat]: messages that have arrived
  crashed       \* the process has died of a nil dereference

runVars == <<run, listening, toClose>>
connVars == <<peer, splitter, received>>
vars == <<runVars, connVars, clients, clientsM, handle, closed, crashed>>

-----------------------------------------------------------------------------
(* Run and Stop *)

(* The running-service file is written or, after an error is printed, not;  *)
(* Run goes on either way, and never comes to remove it (SendStatsClose).   *)
CreateFile ==
  /\ ~crashed
  /\ run = "start"
  /\ run' = "accept"
  /\ UNCHANGED <<listening, toClose, connVars, clients, clientsM, handle, closed, crashed>>

(* Accept, NewConnection and NewClient, which starts the splitter.          *)
Accept(c) ==
  /\ ~crashed
  /\ run = "accept"
  /\ listening
  /\ peer[c] = "away"
  /\ peer' = [peer EXCEPT ![c] = "connected"]
  /\ run' = "append"
  /\ handle' = [handle EXCEPT ![c] = "accepted"]
  /\ splitter' = [splitter EXCEPT ![c] = "loop"]
  /\ UNCHANGED <<listening, toClose, received, clients, clientsM, closed, crashed>>

(* Under clientsM the client joins the list; then go serv.Handle(client).   *)
AppendClient(c) ==
  /\ ~crashed
  /\ run = "append"
  /\ handle[c] = "accepted"
  /\ clientsM = Free
  /\ clients' = Append(clients, c)
  /\ handle' = [handle EXCEPT ![c] = "loop"]
  /\ run' = "accept"
  /\ UNCHANGED <<listening, toClose, connVars, clientsM, closed, crashed>>

Stop ==
  /\ ~crashed
  /\ listening
  /\ listening' = FALSE
  /\ UNCHANGED <<run, toClose, connVars, clients, clientsM, handle, closed, crashed>>

(* Mutant of BeginShutdown: the loop skips the first client.                *)
BeginShutdownLate ==
  /\ ~crashed
  /\ run = "accept"
  /\ clientsM = Free
  /\ clientsM' = RunLoop
  /\ toClose' = IF clients = <<>> THEN <<>> ELSE Tail(clients)
  /\ run' = "closing"
  /\ UNCHANGED <<listening, connVars, clients, handle, closed, crashed>>

(* Leave the loop and take clientsM to close all clients.                   *)
BeginShutdown ==
  /\ ~crashed
  /\ run = "accept"
  /\ clientsM = Free
  /\ clientsM' = RunLoop
  /\ toClose' = clients
  /\ run' = "closing"
  /\ UNCHANGED <<listening, connVars, clients, handle, closed, crashed>>

(* Mutant of AcceptFails: the loop goes on after an error.                   *)
AcceptFailsRetried == ~listening /\ run = "accept" /\ UNCHANGED vars

(* Accept fails because the listener was closed, or for another reason (no  *)
(* file descriptor left): any error ends the loop.                          *)
AcceptFails == ~listening /\ BeginShutdown
AcceptError == listening /\ BeginShutdown

CloseNext ==
  /\ ~crashed
  /\ run = "closing"
  /\ toClose # <<>>
  /\ closed' = [closed EXCEPT ![Head(toClose)] = TRUE]
  /\ toClose' = Tail(toClose)
  /\ UNCHANGED <<run, listening, connVars, clients, clientsM, handle, crashed>>

(* Mutant of SendStatsClose: clientsM is not unlocked.                      *)
SendStatsCloseLocked ==
  /\ ~crashed
  /\ run = "closing"
  /\ toClose = <<>>
  /\ run' = "stats"
  /\ UNCHANGED <<listening, toClose, connVars, clients, clientsM, handle, closed, crashed>>

(* clientsM is released and Run sends on statsCloseChan.  Nothing in the    *)
(* library receives from that channel (printStatsLoop, which would, is      *)
(* started by nobody), so the send never ends, and                          *)
(* removeRunningServiceFile is never reached.                               *)
SendStatsClose ==
  /\ ~crashed
  /\ run = "closing"
  /\ toClose = <<>>
  /\ clientsM' = Free
  /\ run' = "stats"
  /\ UNCHANGED <<listening, toClose, connVars, clients, handle, closed, crashed>>

-----------------------------------------------------------------------------
(* The peers, and splitReqsAndReps of their clients *)

StreamUp(c) == peer[c] = "connected" /\ ~closed[c]

(* The select evaluates client.conn.msgs, once per iteration.               *)
SplitterSelects(c) ==
  /\ ~crashed
  /\ splitter[c] = "loop"
  /\ ~closed[c]
  /\ splitter' = [splitter EXCEPT ![c] = "select"]
  /\ UNCHANGED <<peer, received, runVars, clients, clientsM, handle, closed, crashed>>

(* Close, by whoever, has set client.conn to nil: the dereference panics.   *)
SplitterPanics(c) ==
  /\ ~crashed
  /\ splitter[c] = "loop"
  /\ closed[c]
  /\ crashed' = TRUE
  /\ UNCHANGED <<runVars, connVars, clients, clientsM, handle, closed>>

(* External: a message arrives, or was still in the buffers when the stream *)
(* ended.  A request is offered on Incoming(), any other message skipped.   *)
MessageArrives(c) ==
  /\ ~crashed
  /\ splitter[c] = "select"
  /\ received[c] < MaxMessages
  /\ \E next \in {"offering", "loop"} : splitter' = [splitter EXCEPT ![c] = next]
  /\ received' = [received EXCEPT ![c] = @ + 1]
  /\ UNCHANGED <<peer, runVars, clients, clientsM, handle, closed, crashed>>

PeerLeaves(c) ==
  /\ ~crashed
  /\ peer[c] = "connected"
  /\ peer' = [peer EXCEPT ![c] = "left"]
  /\ UNCHANGED <<splitter, received, runVars, clients, clientsM, handle, closed, crashed>>

(* The stream has ended, and msgs is closed under the select: the splitter  *)
(* closes Incoming() and the client.                                        *)
SplitterEnds(c) ==
  /\ ~crashed
  /\ splitter[c] = "select"
  /\ ~StreamUp(c)
  /\ splitter' = [splitter EXCEPT ![c] = "ended"]
  /\ closed' = [closed EXCEPT ![c] = TRUE]
  /\ UNCHANGED <<peer, received, runVars, clients, clientsM, handle, crashed>>

-----------------------------------------------------------------------------
(* Handle and RemoveClient *)

(* A known action runs its callback; for an unknown one the reply is sent.  *)
(* Either may be held up in conn.Send while the stream lives.               *)
HandleRequest(c) ==
  /\ ~crashed
  /\ handle[c] = "loop"
  /\ splitter[c] = "offering"
  /\ splitter' = [splitter EXCEPT ![c] = "loop"]
  /\ handle' = [handle EXCEPT ![c] = "callback"]
  /\ UNCHANGED <<peer, received, runVars, clients, clientsM, closed, crashed>>

CallbackReturns(c) ==
  /\ ~crashed
  /\ handle[c] = "callback"
  /\ handle' = [handle EXCEPT ![c] = "loop"]
  /\ UNCHANGED <<runVars, connVars, clients, clientsM, closed, crashed>>

(* "no such action" could not be sent: Close, and leave the loop.           *)
ReplyFails(c) ==
  /\ ~crashed
  /\ handle[c] = "callback"
  /\ ~StreamUp(c)
  /\ handle' = [handle EXCEPT ![c] = "close"]
  /\ closed' = [closed EXCEPT ![c] = TRUE]
  /\ UNCHANGED <<runVars, connVars, clients, clientsM, crashed>>

(* Incoming() is closed, or nothing came for msgTimeout.                    *)
HandleLeaves(c) ==
  /\ ~crashed
  /\ handle[c] = "loop"
  /\ splitter[c] = "ended"
  /\ handle' = [handle EXCEPT ![c] = "close"]
  /\ UNCHANGED <<runVars, connVars, clients, clientsM, closed, crashed>>

HandleTimesOut(c) ==
  /\ ~crashed
  /\ handle[c] = "loop"
  /\ handle' = [handle EXCEPT ![c] = "close"]
  /\ UNCHANGED <<runVars, connVars, clients, clientsM, closed, crashed>>

HandleCloses(c) ==
  /\ ~crashed
  /\ handle[c] = "close"
  /\ closed' = [closed EXCEPT ![c] = TRUE]
  /\ handle' = [handle EXCEPT ![c] = "remove"]
  /\ UNCHANGED <<runVars, connVars, clients, clientsM, crashed>>

Tracked(c) == \E i \in 1..Len(clients) : clients[i] = c

(* Mutant of RemoveClient: the entry after the client's is taken out.       *)
RemoveNextClient(c) ==
  /\ ~crashed
  /\ handle[c] = "remove"
  /\ clientsM = Free
  /\ \E i \in 1..Len(clients) :
       /\ clients[i] = c
       /\ clients' = SubSeq(clients, 1, i) \o SubSeq(clients, i + 2, Len(clients))
  /\ closed' = [closed EXCEPT ![c] = TRUE]
  /\ handle' = [handle EXCEPT ![c] = "done"]
  /\ UNCHANGED <<runVars, connVars, clientsM, crashed>>

(* RemoveClient takes clientsM, closes the client again and takes its first *)
(* entry out of the list.  A client that is not in it is an error, and left *)
(* alone.                                                                   *)
RemoveClient(c) ==
  /\ ~crashed
  /\ handle[c] = "remove"
  /\ clientsM = Free
  /\ IF Tracked(c)
     THEN /\ \E i \in 1..Len(clients) :
               /\ clients[i] = c
               /\ \A j \in 1..(i - 1) : clients[j] # c
               /\ clients' = SubSeq(clients, 1, i - 1) \o SubSeq(clients, i + 1, Len(clients))
          /\ closed' = [closed EXCEPT ![c] = TRUE]
     ELSE UNCHANGED <<clients, closed, crashed>>
  /\ handle' = [handle EXCEPT ![c] = "done"]
  /\ UNCHANGED <<runVars, connVars, clientsM, crashed>>

-----------------------------------------------------------------------------
Init ==
  /\ run = "start" /\ listening = TRUE
  /\ clients = <<>> /\ clientsM = Free /\ toClose = <<>>
  /\ handle = [c \in Conns |-> "none"]
  /\ closed = [c \in Conns |-> FALSE]
  /\ peer = [c \in Conns |-> "away"]
  /\ splitter = [c \in Conns |-> "none"]
  /\ received = [c \in Conns |-> 0]
  /\ crashed = FALSE

RunStep ==
  \/ CreateFile \/ (\E c \in Conns : AppendClient(c)) \/ AcceptFails \/ CloseNext
  \/ SendStatsClose
HandleStep(c) ==
  \/ HandleRequest(c) \/ ReplyFails(c) \/ HandleLeaves(c) \/ HandleCloses(c) \/ RemoveClient(c)
SplitterStep(c) == SplitterSelects(c) \/ SplitterPanics(c) \/ SplitterEnds(c)

(* A panic in any goroutine ends the process: no action is enabled then.    *)
Next ==
  \/ RunStep \/ Stop \/ AcceptError
  \/ \E c \in Conns :
       \/ Accept(c) \/ HandleStep(c) \/ CallbackReturns(c) \/ HandleTimesOut(c)
       \/ MessageArrives(c) \/ PeerLeaves(c) \/ SplitterStep(c)

Spec == Init /\ [][Next]_vars

(* Run, the Handle goroutines and the splitters run when they can.  A       *)
(* callback, and the reply it or Handle sends, may take as long as the      *)
(* stream lives, and returns once it does not.  No peer has to come or go,  *)
(* nobody has to call Stop, and no silence lasts as long as msgTimeout.     *)
Fairness ==
  /\ WF_vars(RunStep)
  /\ \A c \in Conns :
       /\ WF_vars(HandleStep(c) \/ (~StreamUp(c) /\ CallbackReturns(c)))
       /\ WF_vars(SplitterStep(c))

FairSpec == Spec /\ Fairness

-----------------------------------------------------------------------------
(* Properties *)

HandlePcs == {"none", "accepted", "loop", "callback", "close", "remove", "done"}

RunTypes ==
  /\ run \in {"start", "accept", "append", "closing", "stats"}
  /\ listening \in BOOLEAN
  /\ clients \in Seq(Conns) /\ toClose \in Seq(Conns)
  /\ clientsM \in {Free, RunLoop}
  /\ clientsM = RunLoop <=> run = "closing"

HandleTypes ==
  /\ handle \in [Conns -> HandlePcs]
  /\ closed \in [Conns -> BOOLEAN]
  /\ peer \in [Conns -> {"away", "connected", "left"}]
  /\ splitter \in [Conns -> {"none", "loop", "select", "offering", "ended"}]
  /\ received \in [Conns -> 0..MaxMessages]
  /\ crashed \in BOOLEAN

(* The shape of the service's state; clientsM is held for as long as Run     *)
(* closes the clients.                                                       *)
TypeOK == RunTypes /\ HandleTypes

(* serv.clients is exactly the list of the connections whose Handle has not  *)
(* finished, each once: RemoveClient always finds its client ("unknown       *)
(* client" is never returned) and len(clients) counts the open connections.  *)
ListIsExact ==
  /\ \A c \in Conns : Tracked(c) <=> handle[c] \in {"loop", "callback", "close", "remove"}
  /\ \A i, j \in 1..Len(clients) : clients[i] = clients[j] => i = j

(* Once Run is past its shutdown loop every connection it ever accepted is   *)
(* closed: none slips in between the last Accept and the loop, or past a     *)
(* concurrent RemoveClient, and none is accepted any more.                   *)
ShutdownClosesAll ==
  run = "stats" => \A c \in Conns : handle[c] # "none" => closed[c]

(* "a rigorous system for cleaning up when" a connection times out, a        *)
(* service shuts down or a client closes its connection: in each case the    *)
(* connection's Handle ends and the service forgets it, also when a request  *)
(* is in the middle - if a splitter's panic does not end the process first.  *)
CleansUp ==
  \A c \in Conns :
    /\ handle[c] # "none"
    /\ handle[c] = "close" \/ peer[c] = "left" \/ ~listening \/ run = "closing"
    ~> handle[c] = "done" \/ crashed

(* Stop is enough for Run to leave Accept, get clientsM from whatever        *)
(* RemoveClient is under way and close the clients, whoever connects, asks   *)
(* or leaves meanwhile, or whatever conn.Send a callback is held up in -     *)
(* unless closing a client kills the process through its splitter.  (It then *)
(* waits in the send on statsCloseChan for ever.)                            *)
ShutdownProceeds == ~listening ~> run = "stats" \/ crashed

=============================================================================
