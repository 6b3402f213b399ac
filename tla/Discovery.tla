------------------------------ MODULE Discovery ------------------------------
(***************************************************************************)
(* How a requester finds a service and gets a connection to it: the         *)
(* CacheRefresher (src/scamp/refresher.go) that keeps the ServiceCache      *)
(* (src/scamp/servicecache.go) in step with a file other programs rewrite,  *)
(* the service proxies in its indexes with one client each                  *)
(* (GetClient, src/scamp/serviceproxy.go), MakeJSONRequest                  *)
(* (src/scamp/requester.go) up to the reply, and Client.Close               *)
(* (src/scamp/client.go), which reaches back into the cache.                *)
(*                                                                          *)
(* A refresh makes new proxies for the announcements it finds.  A proxy is  *)
(* named by a number for its refresh and its position in the file; proxies  *)
(* that no index and no request refers to are gone (garbage), and their     *)
(* numbers are used again.  A client is named by its place in clients.  Of  *)
(* a stream only this is kept: a Send on it succeeds, returns an error or   *)
(* blocks, and it ends once the connection is closed.                       *)
(***************************************************************************)
EXTENDS ServiceCache

CONSTANTS
  Files,       \* contents the cache file may have
  Missing,     \* in place of them: the file cannot be opened
  Requests,    \* the calls of MakeJSONRequest
  Wanted,      \* [Requests -> Names]: the action each one asks for
  Closers,     \* goroutines that call Close on a client
  Split,       \* the one that is the client's own splitReqsAndReps
  MaxClients,  \* bound: connections that can be established
  Owners,      \* goroutines that call Run and Stop of the refresher
  Setups       \* bound: the uses of the library that are explored, see setup

NoProxy == <<0, 0>>
NoClient == 0
NoIdent == "no ident"
NoContext == 0
Contexts == 1..(Cardinality(Owners) + 2)   \* enough to tell those in use apart
Free == "free"

ASSUME FilesAssumption == Files \subseteq Seq(Announcement) /\ Missing \notin Files
ASSUME RequestsAssumption ==
  Wanted \in [Requests -> Names] /\ Free \notin Requests /\ IsFiniteSet(Requests)
ASSUME ClientsAssumption ==
  Split \in Closers /\ Free \notin Closers /\ NoIdent \notin Idents /\ MaxClients \in Nat
ASSUME OwnersAssumption == IsFiniteSet(Owners)
ASSUME SetupsAssumption ==
  Setups \subseteq [reactive : BOOLEAN, files : SUBSET Files, callers : SUBSET Requests,
                   closers : SUBSET Closers, owners : SUBSET Owners, stops : BOOLEAN,
                   switches : BOOLEAN]

VARIABLES
  file,            \* the cache file
  \* ServiceCache
  verifyRecords,
  identIndex,      \* [Idents -> proxy]
  actionIndex,     \* [Actions -> sequence of proxies]
  scanned,         \* history: what the last scan read and whether it verified
  proxies,         \* the proxies in use, with their client and clientM
  \* CacheRefresher
  setup,           \* never changes: options.Reactive, which files appear, which
                   \* requests are made, who closes clients, who calls Run,
                   \* whether Stop is called and verification switched
  initialRefresh,
  due,             \* a tick waits in due.C
  context,         \* NoContext is nil
  cancel,          \* the context it cancels, or NoContext
  done,            \* the contexts that are cancelled
  running,
  owner,           \* [Owners -> where it is in Run or Stop, and Run's local context]
  loop,            \* [Owners -> the goroutine of its Run, and the context it selects on]
  overlapped,      \* history: Run or Stop was called during another such call
  \* MakeJSONRequest and the clients
  req,             \* [Requests -> where the request is, and its locals]
  clients,         \* the clients dialled so far
  crashed          \* the process has died of a nil dereference

cacheVars == <<identIndex, actionIndex, scanned>>
ownerVars == <<setup, context, cancel, owner, overlapped>>
refresherVars == <<ownerVars, done, running, loop>>
dueVars == <<initialRefresh, due>>
vars == <<file, verifyRecords, cacheVars, proxies, refresherVars, dueVars, req, clients, crashed>>

-----------------------------------------------------------------------------
(* The cache file and the cache *)

(* External: the discovery daemon rewrites the file; for a moment it may    *)
(* not be there.                                                            *)
Announce(f) ==
  /\ f \in setup.files \cup {Missing}
  /\ file # f
  /\ file' = f
  /\ UNCHANGED <<verifyRecords, cacheVars, proxies, refresherVars, dueVars, req, clients, crashed>>

(* The switch is the wrong way round in the code: "Disable" turns           *)
(* verification on and "Enable" turns it off.                               *)
SetVerify(on) ==
  /\ setup.switches
  /\ verifyRecords # on
  /\ verifyRecords' = on
  /\ UNCHANGED <<file, cacheVars, proxies, refresherVars, dueVars, req, clients, crashed>>

DisableRecordVerification == SetVerify(TRUE)
EnableRecordVerification == SetVerify(FALSE)

(* The proxies a request still has to ask for a client.                     *)
Held == UNION {Range(req[r].todo) : r \in Requests}

NewProxy(rec) == [rec |-> rec, verified |-> verifyRecords, client |-> NoClient, clientM |-> Free]

(* What DoScan makes of every file, tabulated.                              *)
Scans == [recs \in Files |-> [verify \in BOOLEAN |-> DoScan(recs, verify)]]

(* The same with the proxies numbered n.                                    *)
IdentIndex(recs, verify, n) ==
  [i \in Idents |-> LET p == Scans[recs][verify].identIndex[i]
                    IN  IF p = 0 THEN NoProxy ELSE <<n, p>>]
ActionIndex(recs, verify, n) ==
  [a \in Actions |-> [k \in DOMAIN Scans[recs][verify].actionIndex[a] |->
                        <<n, Scans[recs][verify].actionIndex[a][k]>>]]

(* Every proxy an index holds.                                              *)
Indexed(idents, actions) ==
  (Range(idents) \ {NoProxy}) \cup UNION {Range(actions[a]) : a \in Actions}

(* Refresh, under cacheM.  Without a file the cache stays as it is; with    *)
(* one both indexes are built anew, of new proxies without a client.        *)
Refresh ==
  \/ /\ file = Missing
     /\ UNCHANGED <<cacheVars, proxies>>
  \/ /\ file # Missing
     /\ LET n == CHOOSE k \in 1..(Cardinality(Requests) + 1) : \A p \in Held : p[1] # k
        IN  /\ identIndex' = IdentIndex(file, verifyRecords, n)
            /\ actionIndex' = ActionIndex(file, verifyRecords, n)
     /\ proxies' = [p \in Held \cup Indexed(identIndex', actionIndex') |->
                      IF p \in Held THEN proxies[p] ELSE NewProxy(file[p[2]])]
     /\ scanned' = [recs |-> file, verify |-> verifyRecords]

-----------------------------------------------------------------------------
(* CacheRefresher.  Run and Stop take no lock; between their accesses to    *)
(* context, cancel and running anything may happen.                         *)

(* External: the ticker.  due.C holds one tick, further ones are dropped.   *)
Tick ==
  /\ ~due
  /\ due' = TRUE
  /\ UNCHANGED <<file, verifyRecords, cacheVars, proxies, refresherVars, initialRefresh, req, clients, crashed>>

elsewhere == <<file, verifyRecords, cacheVars, proxies, dueVars, req, clients>>

OwnerAt(o, pc) == owner[o].pc = pc
OwnerGoto(o, pc) == owner' = [owner EXCEPT ![o].pc = pc]

(* A call begins.                                                           *)
Begin(o) ==
  /\ o \in setup.owners
  /\ OwnerAt(o, "idle")
  /\ overlapped' = (overlapped \/ \E q \in Owners \ {o} : ~OwnerAt(q, "idle"))

(* Mutant of RunClaim: running is looked at, and counted by the goroutine.  *)
RunClaimLoads(o) ==
  /\ ~setup.reactive
  /\ Begin(o)
  /\ running = 0
  /\ OwnerGoto(o, "context")
  /\ UNCHANGED <<elsewhere, setup, context, cancel, done, running, loop, crashed>>

(* Run returns at once when the refresher is reactive or already running;   *)
(* else it sets running ...                                                 *)
RunClaim(o) ==
  /\ ~setup.reactive
  /\ Begin(o)
  /\ running = 0
  /\ running' = 1
  /\ OwnerGoto(o, "context")
  /\ UNCHANGED <<elsewhere, setup, context, cancel, done, loop, crashed>>

(* ... makes a context, which is live, and assigns it ...                   *)
RunContext(o) ==
  /\ OwnerAt(o, "context")
  /\ LET used == {context, cancel} \cup {owner[q].ctx : q \in Owners} \cup {loop[q].ctx : q \in Owners}
         new == CHOOSE c \in Contexts : c \notin used
     IN  /\ context' = new
         /\ done' = done \ {new}
         /\ owner' = [owner EXCEPT ![o] = [pc |-> "cancel", ctx |-> new]]
  /\ UNCHANGED <<elsewhere, setup, cancel, running, loop, overlapped, crashed>>

(* ... assigns cancel, and starts the goroutine.                            *)
RunStart(o) ==
  /\ OwnerAt(o, "cancel")
  /\ cancel' = owner[o].ctx
  /\ loop' = [loop EXCEPT ![o].pc = "refresh"]
  /\ owner' = [owner EXCEPT ![o] = [pc |-> "idle", ctx |-> NoContext]]
  /\ UNCHANGED <<elsewhere, setup, context, done, running, overlapped, crashed>>

(* External: the context given to Run is cancelled by whoever made it.      *)
ParentCancels ==
  /\ setup.stops
  /\ context # NoContext
  /\ context \notin done
  /\ done' = done \cup {context}
  /\ UNCHANGED <<elsewhere, ownerVars, running, loop, crashed>>

LoopAt(o, pc) == loop[o].pc = pc
LoopGoto(o, pc) == loop' = [loop EXCEPT ![o].pc = pc]

(* The goroutine refreshes, whether or not that fails ...                   *)
LoopRefresh(o) ==
  /\ LoopAt(o, "refresh")
  /\ Refresh
  /\ initialRefresh' = TRUE
  /\ LoopGoto(o, "turn")
  /\ UNCHANGED <<file, verifyRecords, ownerVars, done, running, due, req, clients, crashed>>

(* ... reads refresher.context for its select; nil panics ...               *)
LoopSelect(o) ==
  /\ LoopAt(o, "turn")
  /\ context # NoContext
  /\ loop' = [loop EXCEPT ![o] = [pc |-> "select", ctx |-> context]]
  /\ UNCHANGED <<elsewhere, ownerVars, done, running, crashed>>

LoopPanics(o) ==
  /\ LoopAt(o, "turn")
  /\ context = NoContext
  /\ crashed' = TRUE
  /\ UNCHANGED <<elsewhere, refresherVars>>

(* Mutant of LoopTick: the tick is taken, but nothing is refreshed.         *)
LoopTickOnce(o) ==
  /\ LoopAt(o, "select")
  /\ due
  /\ due' = FALSE
  /\ LoopGoto(o, "turn")
  /\ UNCHANGED <<file, verifyRecords, cacheVars, proxies, ownerVars, done, running, initialRefresh, req, clients, crashed>>

(* ... and waits for a tick, or for the end of that context.                *)
LoopTick(o) ==
  /\ LoopAt(o, "select")
  /\ due
  /\ due' = FALSE
  /\ LoopGoto(o, "refresh")
  /\ UNCHANGED <<file, verifyRecords, cacheVars, proxies, ownerVars, done, running, initialRefresh, req, clients, crashed>>

LoopDone(o) ==
  /\ LoopAt(o, "select")
  /\ loop[o].ctx \in done
  /\ loop' = [loop EXCEPT ![o] = [pc |-> "off", ctx |-> NoContext]]
  /\ running' = running - 1
  /\ UNCHANGED <<elsewhere, ownerVars, done, crashed>>

(* Stop looks whether there is a cancel ...                                 *)
StopBegin(o) ==
  /\ setup.stops
  /\ Begin(o)
  /\ OwnerGoto(o, IF cancel # NoContext THEN "call" ELSE "wait")
  /\ UNCHANGED <<elsewhere, setup, context, cancel, done, running, loop, crashed>>

(* Mutant of StopCancel: cancel is not called.                              *)
StopCancelForgotten(o) ==
  /\ OwnerAt(o, "call")
  /\ OwnerGoto(o, "wait")
  /\ UNCHANGED <<elsewhere, setup, context, cancel, done, running, loop, overlapped, crashed>>

(* ... calls it, or panics if it has become nil ...                         *)
StopCancel(o) ==
  /\ OwnerAt(o, "call")
  /\ cancel # NoContext
  /\ done' = done \cup {cancel}
  /\ OwnerGoto(o, "wait")
  /\ UNCHANGED <<elsewhere, setup, context, cancel, running, loop, overlapped, crashed>>

StopPanics(o) ==
  /\ OwnerAt(o, "call")
  /\ cancel = NoContext
  /\ crashed' = TRUE
  /\ UNCHANGED <<elsewhere, refresherVars>>

(* Mutant of StopWait: Stop does not wait for the goroutine.                *)
StopWaitNot(o) ==
  /\ OwnerAt(o, "wait")
  /\ context' = NoContext
  /\ OwnerGoto(o, "reset")
  /\ UNCHANGED <<elsewhere, setup, cancel, done, running, loop, overlapped, crashed>>

(* ... sleeps until the goroutine has ended, and forgets the context ...    *)
StopWait(o) ==
  /\ OwnerAt(o, "wait")
  /\ running = 0
  /\ context' = NoContext
  /\ OwnerGoto(o, "reset")
  /\ UNCHANGED <<elsewhere, setup, cancel, done, running, loop, overlapped, crashed>>

(* ... and its cancel.                                                      *)
StopEnd(o) ==
  /\ OwnerAt(o, "reset")
  /\ cancel' = NoContext
  /\ OwnerGoto(o, "idle")
  /\ UNCHANGED <<elsewhere, setup, context, done, running, loop, overlapped, crashed>>

(* ReactiveRefresh, which SearchByAction and Retrieve call first.  Due and  *)
(* the refresh it leads to are one step: a goroutine in between would see   *)
(* the cache as it was before both.                                         *)
ReactiveRefresh ==
  LET Due == setup.reactive /\ (~initialRefresh \/ due)
  IN  \/ /\ Due
         /\ Refresh
         /\ initialRefresh' = TRUE
         /\ due' = (due /\ ~initialRefresh)
      \/ /\ ~Due
         /\ UNCHANGED <<cacheVars, proxies, dueVars>>

-----------------------------------------------------------------------------
(* MakeJSONRequest.  Its locals: todo, the proxies still to be asked for a  *)
(* client, the first of them inside GetClient; pool, the clients collected. *)

Proxy(r) == Head(req[r].todo)
ClientOf(r) == proxies[Proxy(r)].client

Idle == [pc |-> "idle", todo |-> <<>>, pool |-> <<>>]
Done == [pc |-> "done", todo |-> <<>>, pool |-> <<>>]

Goto(r, pc) == req' = [req EXCEPT ![r].pc = pc]

(* SearchByAction of the refresher: refresh if due (markRefresh) ...        *)
Search(r) ==
  /\ r \in setup.callers
  /\ req[r].pc = "idle"
  /\ ReactiveRefresh
  /\ Goto(r, "search")
  /\ UNCHANGED <<file, verifyRecords, refresherVars, clients, crashed>>

(* ... and look the action up; the error for an empty list ends the call.   *)
SearchByAction(r) ==
  /\ req[r].pc = "search"
  /\ LET found == actionIndex[ToLower[Wanted[r]]]
     IN  req' = [req EXCEPT ![r] = IF found = <<>> THEN Done
                                   ELSE [pc |-> "get", todo |-> found, pool |-> <<>>]]
  /\ UNCHANGED <<file, verifyRecords, cacheVars, proxies, refresherVars, dueVars, clients, crashed>>

(* Mutant of GetClient: clientM is not taken.                               *)
GetClientUnlocked(r) ==
  /\ req[r].pc = "get"
  /\ req[r].todo # <<>>
  /\ Goto(r, IF ClientOf(r) = NoClient THEN "dial" ELSE "isClosed")
  /\ UNCHANGED <<file, verifyRecords, cacheVars, proxies, refresherVars, dueVars, clients, crashed>>

(* GetClient takes clientM and reads sp.client.                             *)
GetClient(r) ==
  /\ req[r].pc = "get"
  /\ req[r].todo # <<>>
  /\ proxies[Proxy(r)].clientM = Free
  /\ proxies' = [proxies EXCEPT ![Proxy(r)].clientM = r]
  /\ Goto(r, IF ClientOf(r) = NoClient THEN "dial" ELSE "isClosed")
  /\ UNCHANGED <<file, verifyRecords, cacheVars, refresherVars, dueVars, clients, crashed>>

(* It was not nil; it is read again for its isClosed.  Close sets sp.client *)
(* without clientM, so by now it may be nil.                                *)
CheckClosed(r) ==
  /\ req[r].pc = "isClosed"
  /\ ClientOf(r) # NoClient
  /\ Goto(r, IF clients[ClientOf(r)].isClosed THEN "dial" ELSE "bind")
  /\ UNCHANGED <<file, verifyRecords, cacheVars, proxies, refresherVars, dueVars, clients, crashed>>

CheckClosedPanics(r) ==
  /\ req[r].pc = "isClosed"
  /\ ClientOf(r) = NoClient
  /\ crashed' = TRUE
  /\ UNCHANGED <<file, verifyRecords, cacheVars, proxies, refresherVars, dueVars, req, clients>>

NewClient(sp) ==
  [rec |-> sp.rec, verified |-> sp.verified, spIdent |-> NoIdent, conn |-> TRUE,
   isClosed |-> FALSE, openReplies |-> 0, sendM |-> Free, closedM |-> Free,
   closer |-> [k \in Closers |-> "no"]]

(* Dial connects to the address of the proxy's announcement.                *)
DialOk(r) ==
  /\ req[r].pc = "dial"
  /\ Len(clients) < MaxClients
  /\ clients' = Append(clients, NewClient(proxies[Proxy(r)]))
  /\ proxies' = [proxies EXCEPT ![Proxy(r)].client = Len(clients) + 1]
  /\ Goto(r, "bind")
  /\ UNCHANGED <<file, verifyRecords, cacheVars, refresherVars, dueVars, crashed>>

(* Mutant of GetClientFails: clientM stays locked.                          *)
GetClientFailsLocked(r, client) ==
  /\ proxies' = [proxies EXCEPT ![Proxy(r)].client = client]
  /\ req' = [req EXCEPT ![r].pc = "get", ![r].todo = Tail(@)]
  /\ UNCHANGED <<file, verifyRecords, cacheVars, refresherVars, dueVars, clients, crashed>>

(* GetClient returns an error, and the request goes on to the next proxy.   *)
GetClientFails(r, client) ==
  /\ proxies' = [proxies EXCEPT ![Proxy(r)].client = client, ![Proxy(r)].clientM = Free]
  /\ req' = [req EXCEPT ![r].pc = "get", ![r].todo = Tail(@)]
  /\ UNCHANGED <<file, verifyRecords, cacheVars, refresherVars, dueVars, clients, crashed>>

(* The connspec of the announcement is no URL; sp.client stays as it was.   *)
ParseFails(r) == req[r].pc = "dial" /\ GetClientFails(r, ClientOf(r))

(* A Dial that fails leaves nil in sp.client.                               *)
DialFails(r) == req[r].pc = "dial" /\ GetClientFails(r, NoClient)

(* sp.client is read once more: Close may have emptied it ...               *)
BindNil(r) == req[r].pc = "bind" /\ ClientOf(r) = NoClient /\ GetClientFails(r, NoClient)

(* ... or the client learns its spIdent, clientM is released and the client *)
(* joins the pool.                                                          *)
Bind(r) ==
  /\ req[r].pc = "bind"
  /\ ClientOf(r) # NoClient
  /\ clients' = [clients EXCEPT ![ClientOf(r)].spIdent = proxies[Proxy(r)].rec.ident]
  /\ proxies' = [proxies EXCEPT ![Proxy(r)].clientM = Free]
  /\ req' = [req EXCEPT ![r] = [pc   |-> "get",
                                todo |-> Tail(@.todo),
                                pool |-> Append(@.pool, ClientOf(r))]]
  /\ UNCHANGED <<file, verifyRecords, cacheVars, refresherVars, dueVars, crashed>>

(* All proxies were asked: shuffle, then sort by the number of open replies.*)
Sort(r) ==
  /\ req[r].pc = "get"
  /\ req[r].todo = <<>>
  /\ \E order \in SetToSeqs(DOMAIN req[r].pool) :
       LET pool == [i \in DOMAIN order |-> req[r].pool[order[i]]]
       IN  /\ \A i, j \in DOMAIN pool : i < j =>
                clients[pool[i]].openReplies <= clients[pool[j]].openReplies
           /\ req' = [req EXCEPT ![r].pc = "send", ![r].pool = pool]
  /\ UNCHANGED <<file, verifyRecords, cacheVars, proxies, refresherVars, dueVars, clients, crashed>>

(* client.Send on the first client of the pool waits for its sendM ...      *)
SendLock(r) ==
  /\ req[r].pc = "send"
  /\ req[r].pool # <<>>
  /\ clients[Head(req[r].pool)].sendM = Free
  /\ clients[Head(req[r].pool)].conn
  /\ clients' = [clients EXCEPT ![Head(req[r].pool)].sendM = r]
  /\ Goto(r, "sending")
  /\ UNCHANGED <<file, verifyRecords, cacheVars, proxies, refresherVars, dueVars, crashed>>

(* ... and returns an error when the client was closed since GetClient: its *)
(* conn is nil, and Connection.Send says so.  The next client is tried.     *)
SendNil(r) ==
  /\ req[r].pc = "send"
  /\ req[r].pool # <<>>
  /\ clients[Head(req[r].pool)].sendM = Free
  /\ ~clients[Head(req[r].pool)].conn
  /\ req' = [req EXCEPT ![r].pool = Tail(@)]
  /\ UNCHANGED <<file, verifyRecords, cacheVars, proxies, refresherVars, dueVars, clients, crashed>>

(* The message is out and a reply channel is registered ...                 *)
Send(r) ==
  /\ req[r].pc = "sending"
  /\ clients' = [clients EXCEPT ![Head(req[r].pool)].openReplies = @ + 1,
                                ![Head(req[r].pool)].sendM = Free]
  /\ Goto(r, "wait")
  /\ UNCHANGED <<file, verifyRecords, cacheVars, proxies, refresherVars, dueVars, crashed>>

(* ... or writing it fails, and the next client is tried.                   *)
SendFails(r) ==
  /\ req[r].pc = "sending"
  /\ clients' = [clients EXCEPT ![Head(req[r].pool)].sendM = Free]
  /\ req' = [req EXCEPT ![r].pc = "send", ![r].pool = Tail(@)]
  /\ UNCHANGED <<file, verifyRecords, cacheVars, proxies, refresherVars, dueVars, crashed>>

(* No client is left, or there was none: an error.                          *)
NotSent(r) ==
  /\ req[r].pc = "send"
  /\ req[r].pool = <<>>
  /\ req' = [req EXCEPT ![r] = Done]
  /\ UNCHANGED <<file, verifyRecords, cacheVars, proxies, refresherVars, dueVars, clients, crashed>>

(* The reply comes, and its entry leaves openReplies.                       *)
Replied(r) ==
  /\ req[r].pc = "wait"
  /\ clients' = [clients EXCEPT ![Head(req[r].pool)].openReplies = @ - 1]
  /\ req' = [req EXCEPT ![r] = Done]
  /\ UNCHANGED <<file, verifyRecords, cacheVars, proxies, refresherVars, dueVars, crashed>>

(* The timeout, or the channel was closed: the entry stays.                 *)
GiveUp(r) ==
  /\ req[r].pc = "wait"
  /\ req' = [req EXCEPT ![r] = Done]
  /\ UNCHANGED <<file, verifyRecords, cacheVars, proxies, refresherVars, dueVars, clients, crashed>>

-----------------------------------------------------------------------------
(* Client.Close, by the splitter when the stream ends, and by others.  The  *)
(* splitter calls it only if the client is not closed yet.                  *)

Closing(c, k, pc) == clients' = [clients EXCEPT ![c].closer[k] = pc]

(* Retrieve of the refresher: refresh if due.  A client that no GetClient   *)
(* has returned has no spIdent and skips this.                              *)
CloseRefresh(c, k) ==
  /\ k \in setup.closers
  /\ clients[c].closer[k] = "no"
  /\ k = Split => ~clients[c].isClosed
  /\ \/ /\ clients[c].spIdent # NoIdent
        /\ ReactiveRefresh
        /\ Closing(c, k, "retrieve")
     \/ /\ clients[c].spIdent = NoIdent
        /\ Closing(c, k, "lock")
        /\ UNCHANGED <<cacheVars, proxies, dueVars>>
  /\ UNCHANGED <<file, verifyRecords, refresherVars, req, crashed>>

(* The proxy now indexed under spIdent loses its client, whichever that is. *)
CloseUnlink(c, k) ==
  /\ clients[c].closer[k] = "retrieve"
  /\ LET sp == identIndex[clients[c].spIdent]
     IN  proxies' = IF sp = NoProxy THEN proxies
                    ELSE [proxies EXCEPT ![sp].client = NoClient]
  /\ Closing(c, k, "lock")
  /\ UNCHANGED <<file, verifyRecords, cacheVars, refresherVars, dueVars, req, crashed>>

(* Under closedM: nothing if it is closed already, else closeConnection ... *)
CloseConnection(c, k) ==
  /\ clients[c].closer[k] = "lock"
  /\ clients[c].closedM = Free
  /\ clients' = IF clients[c].isClosed
                THEN [clients EXCEPT ![c].closer[k] = "end"]
                ELSE [clients EXCEPT ![c].closer[k] = "mark", ![c].closedM = k, ![c].conn = FALSE]
  /\ UNCHANGED <<file, verifyRecords, cacheVars, proxies, refresherVars, dueVars, req, crashed>>

(* ... and isClosed.                                                        *)
CloseEnd(c, k) ==
  /\ clients[c].closer[k] = "mark"
  /\ clients' = [clients EXCEPT ![c].closer[k] = "end", ![c].closedM = Free, ![c].isClosed = TRUE]
  /\ UNCHANGED <<file, verifyRecords, cacheVars, proxies, refresherVars, dueVars, req, crashed>>

-----------------------------------------------------------------------------
(* NewServiceCache reads the file first; Initialize fails, and there is no  *)
(* cache, if it is missing or its scan returns an error.                    *)
Initializes(f) == Scans[f][TRUE].at # "failed"

Init ==
  /\ setup \in Setups
  /\ file \in {f \in setup.files : Initializes(f)}
  /\ verifyRecords = TRUE
  /\ scanned = [recs |-> file, verify |-> TRUE]
  /\ identIndex = IdentIndex(file, TRUE, 1)
  /\ actionIndex = ActionIndex(file, TRUE, 1)
  /\ proxies = [p \in Indexed(identIndex, actionIndex) |-> NewProxy(file[p[2]])]
  /\ initialRefresh = FALSE
  /\ due = FALSE
  /\ context = NoContext /\ cancel = NoContext /\ done = {} /\ running = 0
  /\ owner = [o \in Owners |-> [pc |-> "idle", ctx |-> NoContext]]
  /\ loop = [o \in Owners |-> [pc |-> "off", ctx |-> NoContext]]
  /\ overlapped = FALSE
  /\ req = [r \in Requests |-> Idle]
  /\ clients = <<>>
  /\ crashed = FALSE

GetStep(r) == GetClient(r) \/ CheckClosed(r) \/ CheckClosedPanics(r) \/ BindNil(r) \/ Bind(r)

(* What a request does by itself, and what the network decides.             *)
RequestStep(r) ==
  \/ SearchByAction(r) \/ GetStep(r) \/ Sort(r)
  \/ SendLock(r) \/ SendNil(r) \/ NotSent(r) \/ Replied(r) \/ GiveUp(r)

DialStep(r) == ParseFails(r) \/ DialOk(r) \/ DialFails(r)

SendStep(r) == Send(r) \/ SendFails(r)

CloseStep(c, k) == CloseRefresh(c, k) \/ CloseUnlink(c, k) \/ CloseConnection(c, k) \/ CloseEnd(c, k)

LoopStep(o) == LoopRefresh(o) \/ LoopSelect(o) \/ LoopPanics(o) \/ LoopTick(o) \/ LoopDone(o)

OwnerStep(o) ==
  \/ RunContext(o) \/ RunStart(o)
  \/ StopCancel(o) \/ StopPanics(o) \/ StopWait(o) \/ StopEnd(o)

Next ==
  /\ ~crashed
  /\ \/ \E f \in Files \cup {Missing} : Announce(f)
     \/ DisableRecordVerification \/ EnableRecordVerification
     \/ Tick \/ ParentCancels
     \/ \E o \in Owners : RunClaim(o) \/ StopBegin(o) \/ OwnerStep(o) \/ LoopStep(o)
     \/ \E r \in Requests : Search(r) \/ RequestStep(r) \/ DialStep(r) \/ SendStep(r)
     \/ \E c \in DOMAIN clients, k \in Closers : CloseStep(c, k)

Spec == Init /\ [][Next]_vars

(* A Send in progress on a client whose connection is still open.           *)
OnOpenConn(r) == req[r].pc = "sending" /\ clients[Head(req[r].pool)].conn

(* Goroutines that can run are run, the clock ticks, and a timeout fires.   *)
(* Nothing makes a Dial end, which has no timeout, nor a Send on an open    *)
(* connection, whose peer may not read; a Send ends when the connection is  *)
(* closed.  When a tick and the end of the context are both ready again and *)
(* again, select takes each of them at times.  Nobody has to call           *)
(* MakeJSONRequest, Run, Stop or Close.                                     *)
FairSpec ==
  /\ Spec
  /\ \A r \in Requests :
       WF_vars(~crashed /\ (RequestStep(r) \/ (~OnOpenConn(r) /\ SendStep(r))))
  /\ WF_vars(~crashed /\ Tick)
  /\ \A o \in Owners : /\ WF_vars(~crashed /\ OwnerStep(o))
                        /\ WF_vars(~crashed /\ LoopStep(o))
                        /\ SF_vars(~crashed /\ LoopDone(o))

-----------------------------------------------------------------------------
(* Properties *)

RequestPcs == {"idle", "search", "get", "isClosed", "dial", "bind", "send", "sending", "wait",
               "done"}
CloserPcs == {"no", "retrieve", "lock", "mark", "end"}
OwnerPcs == {"idle", "context", "cancel", "call", "wait", "reset"}
LoopPcs == {"off", "refresh", "turn", "select"}

ClientType ==
  [rec : Announcement, verified : BOOLEAN, spIdent : Idents \cup {NoIdent}, conn : BOOLEAN,
   isClosed : BOOLEAN, openReplies : 0..Cardinality(Requests),
   sendM : Requests \cup {Free}, closedM : Closers \cup {Free}, closer : [Closers -> CloserPcs]]

FileTypes ==
  /\ file \in Files \cup {Missing}
  /\ verifyRecords \in BOOLEAN /\ setup \in Setups /\ initialRefresh \in BOOLEAN
  /\ due \in BOOLEAN /\ crashed \in BOOLEAN
  /\ scanned \in [recs : Files, verify : BOOLEAN]

ProxyTypes ==
  /\ Held \cup Indexed(identIndex, actionIndex) \subseteq DOMAIN proxies
  /\ \A p \in DOMAIN proxies :
       /\ proxies[p].rec \in Announcement
       /\ proxies[p].client \in DOMAIN clients \cup {NoClient}
       /\ proxies[p].clientM \in {Free} \cup
            {r \in Requests : req[r].pc \in {"isClosed", "dial", "bind"} /\ Proxy(r) = p}

RefresherTypes ==
  /\ {context, cancel} \subseteq Contexts \cup {NoContext} /\ done \subseteq Contexts
  /\ owner \in [Owners -> [pc : OwnerPcs, ctx : Contexts \cup {NoContext}]]
  /\ loop \in [Owners -> [pc : LoopPcs, ctx : Contexts \cup {NoContext}]]
  /\ overlapped \in BOOLEAN

ClientTypes ==
  /\ \A r \in Requests : req[r].pc \in RequestPcs /\ Range(req[r].pool) \subseteq DOMAIN clients
  /\ Len(clients) <= MaxClients /\ Range(clients) \subseteq ClientType
  /\ \A c \in DOMAIN clients : clients[c].sendM \in {Free} \cup
       {r \in Requests : req[r].pc = "sending" /\ Head(req[r].pool) = c}

(* Types, and that nothing dangles: every proxy an index or a request       *)
(* refers to exists, clientM of a proxy is held by a request inside its     *)
(* GetClient and sendM of a client by one inside its Send, and every client *)
(* referred to was dialled.                                                 *)
TypeOK == FileTypes /\ ProxyTypes /\ RefresherTypes /\ ClientTypes

(* What the reference definition finds in every file, tabulated.             *)
Expected ==
  [recs \in Files |-> [verify \in BOOLEAN |->
     [ident  |-> [i \in Idents |-> ByIdent(recs, verify, i)],
      action |-> [a \in Actions |-> [p \in DOMAIN recs |-> ByAction(recs, verify, a, p)]]]]]

(* The indexes hold what the reference definition finds in the file last    *)
(* scanned, in the order of the file, also when announcements run into each *)
(* other, are unsigned, cut short or end the scan early (DoScan,            *)
(* storeNoLock, removeNoLock), and both hold the same proxies of it.        *)
IndexesMatchFile ==
  LET expected == Expected[scanned.recs][scanned.verify]
      Times(a, p) == Cardinality({k \in DOMAIN actionIndex[a] : actionIndex[a][k][2] = p})
  IN  /\ \A i \in Idents : identIndex[i][2] = expected.ident[i]
      /\ \A a \in Actions : \A p \in DOMAIN scanned.recs : Times(a, p) = expected.action[a][p]
      /\ \A a \in Actions : \A j, k \in DOMAIN actionIndex[a] :
           j < k => actionIndex[a][j][2] <= actionIndex[a][k][2]
      /\ \A p \in Indexed(identIndex, actionIndex) : proxies[p].rec = scanned.recs[p[2]]
      /\ \A p, q \in Indexed(identIndex, actionIndex) : p[1] = q[1]

(* MakeJSONRequest hands its message only to services that announced the    *)
(* action it asks for, in an announcement that validated unless             *)
(* verification was off when it was read - whatever was refreshed, closed   *)
(* or dialled again between the search and the Send.                        *)
RequestsReachProviders ==
  \A r \in Requests : \A c \in Range(req[r].pool) :
    /\ \E n \in clients[c].rec.provides : ToLower[n] = ToLower[Wanted[r]]
    /\ clients[c].verified => clients[c].rec.kind = "good"

(* GetClient gives a proxy a new client only when it has none or a closed   *)
(* one: requests that find the same proxy at the same time share one        *)
(* connection instead of each leaving another open behind it.               *)
OpenClientsAreKept ==
  [][\A p \in DOMAIN proxies \cap DOMAIN proxies' :
       LET old == proxies[p].client  new == proxies'[p].client
       IN  (old # NoClient /\ new \notin {old, NoClient}) => clients[old].isClosed]_vars

(* However calls of Run and Stop overlap, running counts the goroutines and *)
(* the Runs about to start one, and there is never more than one: two loops *)
(* would share the ticks of due.C and the context.                          *)
OneLoop ==
  /\ running = Cardinality({o \in Owners : ~LoopAt(o, "off")})
               + Cardinality({o \in Owners : owner[o].pc \in {"context", "cancel"}})
  /\ running <= 1

(* The goroutine of Run dereferences refresher.context in every turn, and   *)
(* Stop calls refresher.cancel after a check: neither finds nil, in one     *)
(* goroutine or in several, as long as calls of Run and Stop do not overlap.*)
NoNilDereference ==
  \A o \in Owners : ~overlapped =>
    /\ ~LoopAt(o, "off") => context # NoContext
    /\ OwnerAt(o, "call") => cancel # NoContext

(* A call hangs in a Dial, or in a Send on a connection that stays open:    *)
(* both happen before MakeJSONRequest starts its timer.                     *)
Hangs(r) == <>[](req[r].pc = "dial") \/ <>[]OnOpenConn(r)

(* Calls of MakeJSONRequest return, whatever fails on the way and whoever   *)
(* closes clients meanwhile, unless one of them hangs in a Dial             *)
(* (serviceproxy.go:64) or in a Send (client.go:75), with clientM or sendM  *)
(* held against the others, or the process dies: GetClient and Send release *)
(* their locks on every path.                                               *)
RequestsFinish ==
  \/ \E r \in Requests : Hangs(r)
  \/ \A r \in Requests : req[r].pc # "idle" ~> (req[r].pc = "done" \/ crashed)

(* Stop returns, and with it the goroutine of Run, whenever Run and Stop    *)
(* were not called at the same time.                                        *)
StopReturns ==
  \A o \in Owners : owner[o].pc \in {"call", "wait", "reset"} ~> (OwnerAt(o, "idle") \/ overlapped \/ crashed)

(* While the refresher runs, the cache never lags behind the file for good: *)
(* again and again it shows what the file holds, and it does so from some   *)
(* time on when the file has come to rest, whatever it looked like before.  *)
CacheCatchesUp ==
  []<>(\/ \A o \in Owners : LoopAt(o, "off") \/ loop[o].ctx \in done
       \/ crashed
       \/ file = Missing
       \/ scanned = [recs |-> file, verify |-> verifyRecords])
=============================================================================
