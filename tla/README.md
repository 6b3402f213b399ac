# TLA+ verification of scamp-go

scamp-go is the Go implementation of GüdTech's SCAMP, an RPC bus: services and
requesters keep persistent TLS connections and exchange chunked messages over
them; services announce themselves by multicast and requesters find them in a
cache file. This directory holds TLA+ models of its run-time core, the TLC runs
that check them and TLAPS proofs about them. `PROJECT.json` maps every
definition to the lines of `src/` it models.

## Inventory

| Component | State | Operations | Hard because |
|---|---|---|---|
| Connection (`connection.go`) | `outgoingmsgno`, `incomingmsgno`, `pktToMsg`, `readWriterLock`, `isClosed`, the channel `msgs` | `Send`, `packetReader`/`routePacket`, `ackBytes`, `Close` | the reader writes ACKs under the writers' lock; write errors are retried, swallowed or returned; two counters on two hosts must agree |
| Message, Packet (`message.go`, `packet.go`, `packetheader.go`) | chunks, header fields | `Write`, `toPackets`, `Packet.Write`, `ReadPacket` | a header that cannot be marshalled fails after its msgno is taken |
| Client (`client.go`) | `conn`, `openReplies`, `nextRequestID`, `isClosed`, the channel `requests`, one channel per request | `Send`, `splitReqsAndReps`, `Close` | unbuffered channels, several closers, replies that come early, late, twice or never; `sendM` is held while the connection may block |
| Requester (`requester.go`) | none of its own | `MakeJSONRequest` | a timeout races the reply |
| Service (`service.go`) | `clients`, `actions`, the listener, the running-service file | `Run`, `Handle`, `RemoveClient`, `Stop`, `Register` | accept, removal and shutdown share `clients`; shutdown closes clients under their splitters |
| ServiceCache, CacheRefresher (`servicecache.go`, `refresher.go`) | `identIndex`, `actionIndex`, `verifyRecords`; `running`, `context`, `due`, `initialRefresh` | `DoScan`, `Refresh`, `Store`, `Retrieve`, `SearchByAction`; `Run`, `Stop`, `ReactiveRefresh` | the cache is cleared and rebuilt, proxies and all; a bad record ends the scan; `Stop` and the goroutine share `context` |
| Service proxies (`serviceproxy.go`) | one client per proxy, `clientM` | `GetClient`, parsing | `Client.Close` and refreshes do not take `clientM`; a `Dial` has no timeout |
| Announcer (`discoveryannounce.go`) | `services`, the channel `stopSig` | `Track`, `AnnounceLoop`, `doAnnounce`, `Stop` | `Stop` waits for the loop; one failure ends a round; `Register` writes the map that the loop reads; datagrams get lost |
| Action options, tickets (`action_options.go`, `ticket.go`) | `verifyKey`, read once | `Call`, `ReplyOnError`, `VerifyTicket`, `CheckPrivs` | the first action's key serves all; the clock; signed numbers that overflow; a refusal must be answered too |
| Configuration (`config.go`) | `values` | `Load`, `Set`, the getters | values are slices of a buffer that goes on being written |
| Authorized services, certificates, multicast, logging, statistics, debugging | - | - | - |

`Client` owns a `Connection` and receives its `msgs`; `MakeJSONRequest` calls
`Client.Send` and receives from the reply channel; `Service.Run` makes a
`Client` of each accepted connection and `Handle` receives from its
`Incoming()` and replies through its `Send`. `MakeJSONRequest` finds proxies in
the cache, gets a client from each and sends to the least busy one;
`Client.Close` looks its own proxy up in the cache to unlink itself. A service's
`MarshalText` is multicast by the announcer, written to the cache file by a daemon
outside this repository, and read by `DoScan` in the requester's process. The
components share no state but these channels, `client.conn`, `serv.clients`, the
two `isClosed` flags, the two indexes, `sp.client` and
`serv.actions`.

What makes each correct: a connection delivers whole messages in order, each at
most once, and an error means "not delivered"; a client gives every reply to
the call it answers, never touches a closed channel, and leaves no caller
hanging but for a stream whose peer does not read; a service forgets no client, closes all of them on
shutdown and ends every `Handle`; the cache holds what the file says and does
not lag behind it for good, and a request reaches only services that announced
its action; a service that is announced is found, with the actions it
registered; a callback runs only for a ticket that allows it; a setting is what
the file says; end to end, a caller gets the answer to its
own request. The `hazards` of `PROJECT.json` list, line by line, what threatens
this.

## Modules

| Module | Models |
|---|---|
| `MessageChannel` | abstract specification: what a connection promises its two owners |
| `Connection` | two ends, the stream, `Send`, the reader; implements `MessageChannel` |
| `Client` | one client: callers, splitter, consumer of requests, closers; its peer and stream are arbitrary |
| `Service` | `Run`, `Stop`, one `Handle` and one splitter per connection |
| `Tickets` | `VerifyTicket`, `Expired` and `CheckPrivs` as operators on a ticket |
| `Rpc` | composition: requesting client, connection, `Handle`, `Call` with the decision of `Tickets`, callback, replying client, reduced to the request IDs |
| `ServiceCache` | `MarshalText` and `DoScan`, line by line, as operators on a file of announcements, and a loop-free reference definition of its result |
| `Announcer` | `Register`, the announcer, the network and the daemon, up to what `DoScan` makes of the file |
| `Config` | `Load` over a `bufio.Scanner`, `Set`, the getters |
| `Discovery` | the cache, the refresher, the proxies, `MakeJSONRequest`, and `Client.Close` as far as it touches them |
| `ConnectionProofs` | TLAPS: type correctness of `Connection`, `OneMessageAtATime` by an inductive invariant, and on top of it the refinement of `MessageChannel`, `MisplacedOnlyAfterMalformed` and `AcksAreSound` |
| `ClientProofs`, `ServiceProofs`, `RpcProofs`, `AnnouncerProofs` | TLAPS: the safety properties of these modules, each by one inductive invariant |
| `ServiceCacheProofs` | TLAPS: `DoScan` indexes nothing wrongly and misses nothing, for every file |
| `DiscoveryProofs` | TLAPS: the refresher's invariant, the exact indexes, and the invariant of requests, proxies and clients |
| `ConfigProofs` | TLAPS: values stay inside what was read, and those of small files are kept |
| `MC*` | the constants of the TLC runs |

Definitions commented as a mutation ("Mutant of ...") stand before the definition
they alter. They take part in no specification; replacing the action by its
mutant makes TLC report the property that `PROJECT.json` pairs it with.

### Connection

Variables keep the names of the struct's fields. A message is named by the
`Send` call that transmits it and a packet by its type, msgno, message and
position in `toPackets`, which is all that ordering and reassembly can tell
apart. `wire[e]` is everything end `e` has written and the peer has not read:
bufio, kernel and network in one FIFO of `WireCap` packets. `werr[e]` is what a
write meets: it goes through, it is lost without `Send` noticing (the buffers
took it, or the error is one of the two that `Send` swallows), or it fails and
is retried. bufio makes a write error sticky, so nothing reaches the peer after
the first loss. `Send` is one action per step that others can see: take the
lock and a number (`isClosed` was read earlier, so it may be stale), one action
per packet, retry, give up, return. `RouteData` and `RouteTXERR` are split where
`ackBytes` waits for the lock, and delivery where the reader blocks on `msgs`.
Bodies have sizes: `Offset` says how many bytes of a message stand before each
of its packets, an empty DATA packet (the last one that `WriteJSON` makes of a
body that is a multiple of the chunk size) included, and a TXERR brings a text of
any of the `TextSizes`. An ACK carries `BytesWritten`, as in the code; the packet
it answers is kept beside it for the properties and decides nothing.
`AbortSend` is external: this code never sends TXERR, but it handles it.

### Client

Unbuffered channels: a send and its receive are one step. A call queues for
`sendM` (`SendCall`), enters `conn.Send` with it (`SendBegin`) and returns from it
(`SendTransmit`, `SendError`) or never does; `Connection` says when. On a client
whose `conn` is nil `conn.Send` returns an error at once (`SendNil`).
`SendRegister` is a step of its own, because the peer can act in between. The select
of the splitter evaluates `client.conn.msgs` in one step and receives in
another; `SplitPanics` is the dereference of a nil `client.conn`, and after it
no action is enabled, since the process is gone. The peer may answer a request
at any time after it was transmitted, more than once, or never.

### Service

Of a client only what the service meets is kept: closed or not, and its
splitter, which evaluates `client.conn.msgs` in one step, waits in its select for
a message or the end of the stream, offers a request on `Incoming()`, and panics
if the client was closed since. The panic ends the process (`crashed`): no action
is enabled then. `clientsM` is held across the shutdown loop, which closes
one client per step. `RemoveClient` is one step: it holds the lock throughout
and calls only `Close`, which returns.

### Rpc

Counters and FIFO channels only. What `MessageChannel` promises is what the two
directions do here: FIFO until the connection fails, then a prefix. Between
`Handle` and the callback stands `Call`: it looks at a ticket only if the action
asks for one, has the key read by the first ticket with enough parts
(`ReadVerifyKey`, which kills the process if there is no key), and answers with
`ReplyOnError` what it does not let through. A ticket is known by its number of
parts, the key it verifies with, whether its numbers parse, and what they say;
both of the time's numbers are signed, and their sum wraps at either end as an
`int64` does.

### ServiceCache and Discovery

An announcement keeps its ident, the names it provides, its address, and what
decides its fate in the scan. `Text` writes it out as lines, the way
`MarshalText` does or with one of eight things wrong, and `DoScan` is a fold of
`ScanLine` over these lines: where the loops of the code stand is a field of the
scan. `IndexesMatchFile` compares it with a definition that has no lines and no
loop. Names differ in case, which the index ignores and `SearchByAction` too.
A refresh makes new proxies; the model names them by a number and their place in
the file and forgets those that no index and no request refers to, as Go's
garbage collector does. `GetClient` is one action per read of `sp.client`,
because `Close` writes it without `clientM`; the places where a nil pointer
is dereferenced set `crashed`, after which nothing happens. A request waits for
`sendM` of the client it took from its pool, is then inside `conn.Send`, and comes
out of it in a step of its own, or never. Which streams break
is left open: any client may be closed at any time, any `Dial` and any `Send`
may fail, and a `Send` on a client that was closed since does. `due` and the refresh it triggers are one step of `ReactiveRefresh`.
Every owner may call `Run` and `Stop` at any time; each read and write of
`running`, `context` and `cancel` is a step, and `overlapped` remembers that calls
overlapped.

`DisableRecordVerification` turns verification on and
`EnableRecordVerification` turns it off (`servicecache.go` 38-44); the model does
what the code does.

### Announcer

`Register` is two steps at any time (`isRunning`, which it asks, is set nowhere),
since the announcer ranges over the same map without a
lock: in between, `MarshalText` finds the map with or without the new name, or
the runtime kills the process. `doAnnounce` is one action for the choice of the
next service, one for `MarshalText` (good, failed or a panic) and one for
`WriteTo`, which fails at any time and always for an announcement that is too
large. What is in the air may be lost and heard at any time and any number of
times; the daemon keeps the last thing it heard of each ident.

### Config

A value is a place in an array, as a Go slice is. The scanner is modelled with
its buffer: it shifts the unread text to the front, reads on behind it, doubles
the buffer for a long line, up to its limit, and gives up at that. `Says` is
what a file means, by its lines and without a scanner.

## Runs

| Run | Checks | Shows |
|---|---|---|
| `connection` | `TypeOK`, `OneMessageAtATime`, `AcksAreSound`, `MisplacedOnlyAfterMalformed`, refinement `ChannelSpec` | the nursery holds one message, a prefix of what was sent; ACKs count the bytes that were written, packet after packet, empty ones included; the reader's error returns need a malformed message; the connection implements `MessageChannel` |
| `connection_live` | `SendReturns`, `EventuallyDelivered` | with two Sends that compete for the lock and a reader that blocks on `msgs`, no Send hangs and what is sent on a healthy stream arrives, with traffic in one direction |
| `connection_stall` | `NoMutualBlocking` (violated) | both ends sending large messages block for ever |
| `client` | `TypeOK`, `RepliesMatchRequests`, `ChannelDiscipline`, `ClosedOnce`, `WaitingCallersAreFound`, `CallersReturn`, `SplitEnds` | replies reach their callers and are dropped only before these are registered, no double close, callers return unless `conn.Send` blocks for good, the splitter cleans up |
| `client_close_panic` | `CloseNeverPanics` (violated) | closing a client between two messages kills the process |
| `service` | `TypeOK`, `ListIsExact`, `ShutdownClosesAll`, `CleansUp`, `ShutdownProceeds` | the list is exact; shutdown proceeds and is complete, and handlers end, unless a splitter's panic ends the process |
| `rpc` | `TypeOK`, `AnswersMatchInOrder`, `CallbacksAuthorized` | with callbacks that reply before they return, answers match requests, refusals included; callbacks run only for tickets that allow it |
| `rpc_misrouted` | `AnswersMatch` (violated) | with others, they do not |
| `discovery` | `TypeOK`, `IndexesMatchFile`, `RequestsReachProviders`, `OneLoop`, `NoNilDereference`, `OpenClientsAreKept`, `RequestsFinish`, `StopReturns`, `CacheCatchesUp` | the scan meets its reference definition; requests reach providers, and end unless a `Dial` or a `Send` hangs; `GetClient` drops no live client; there is one refresher loop at most, and without overlapping calls `Stop` is safe and returns; the cache catches up |
| `announcer` | `TypeOK`, `AnnouncedIsFound`, `StoppedIsSilent`, `StopEndsLoop`, `EventuallyFound` | what `MarshalText` writes `DoScan` reads; nothing is sent after `Stop`, which ends the loop; services are found, and from some time on stay so, in spite of losses, old datagrams and failed rounds |
| `config` | `ConfigTypeOK`, `SmallFilesAreKept` | values stay inside what was read; files that fit the scanner's first buffer are read right |
| `config_alias` | `LoadKeepsValues` (violated) | larger files are not: values are overwritten |

The violated properties are findings: each quotes the line of documentation,
comment or test that the code does not live up to.

**Bounds.** `connection` has three Sends of one end (one with a DATA packet, one
malformed, one plain) because every argument about numbering involves a message
and its two neighbours; buffers of two packets, so that they fill; `RetryLimit`
0, so that both the retry and the giving up happen (its value, 50 in the code,
only repeats the retry). The other direction carries ACKs: those of a
DATA packet and of the TXERR behind it, whose text is empty, stand behind each
other in the buffers with one and the same count. The other end also calls Send
once, with a message that has no request ID. `connection_live` has two well-formed messages and buffers of one packet:
the second Send waits for the lock, or fills the buffers while the reader holds
the first message. `client` has two
calls, enough to confuse their replies, and two incoming messages, enough for a
late or a repeated one; `service` two connections with two messages each; `rpc`
three callers, so that answers can shift by one and by two, or two callers and
every kind of ticket, with a clock that leaves a ticket's last second and
numbers of three bits, the sign included. `discovery` explores
six uses of the library (`Setups`), chosen in the initial state, since their
product is out of reach: a refresher that runs over every kind of file (two
providers that spell an action differently, an ident claimed by an invalid
record, unsigned, cut and run-on records, a malformed and a blank one, one
without its empty line) with verification switched on and off; two goroutines
that run and stop one refresher; two requests that race for one proxy; one
request that chooses between two services while the file changes; one whose
action moves to a service whose announcement does not verify, with verification
switched on and off; one that is
overtaken by the refresher and by two closers. Two clients are enough for one to
replace the other.
`announcer` has two services and one `Stop`; one action fits a datagram and
two do not, so that a service becomes too large while it is announced. `config`
has a buffer of eight symbols that grows once, to the limit of twelve and not to
twice its size: with lines of two to eight
symbols the text shifts, fills the buffer, outgrows it, and one line of seventeen
is too long. Two calls
are enough for one to overwrite what the other left. Deadlock checking is off:
all these systems legitimately come to rest when calls, peers or bounds are used
up.

**Fairness.** Goroutines that can run are run: weak fairness of the steps inside
`Send`, the reader, the splitter, `Close`, `Handle`, `Run`; timers fire
(`time.After` in `MakeJSONRequest`); a read or write on a broken stream fails in
the end. Nothing makes a `Dial` end, which has no timeout, or a `Send` on a stream
that lives, whose peer may not read: `CallersReturn` and `RequestsFinish` excuse
the behaviours in which one of these hangs for ever, and no others. The refresher's ticker ticks, and when a
tick and the cancellation are both ready again and again its `select`, which
chooses at random, takes the cancellation at some time (strong fairness). The owner of a connection
receives and, once `msgs` is closed, closes (the splitter does both). Nobody has to call Send, Close or Stop, no peer owes
an answer, no stream has to break or heal, and `Handle`'s two-minute timer is not
relied on. The announcer's loop runs when it can, a call of `Register` ends, and
signing, sending and delivery, tried again every five seconds, succeed at some
time (strong fairness, the usual assumption about a lossy network). A datagram
that is not sent again does not stay on its way for ever: without this an old
list of actions could be heard again and again, and no service would be known
for good.

## Proofs

The theorems hold for every value of the constants that satisfies the named
assumptions of the modules; TLC evaluates all of these in the passing runs. They
say: ends come in pairs (`EndsAssumption`); Sends have any numbers of chunks of any sizes
(`OffsetAssumption`, `TextSizesAssumption`) and
bounds are positive (`SendsAssumption`, `BoundsAssumption`); placeholders such as
"no caller" are not members of the sets they stand beside; a key file holds a
key or none (`KeyAtAssumption`); the names of actions, the requests and the
goroutines that call `Run` and `Stop` are finite sets (`NamesAssumption`,
`RequestsAssumption`, `OwnersAssumption`), as they are in a process; a signature
is longer than one row (`SignatureAssumption`); files and values given to `Set`
are text, keys are told apart from what values are made of, and the scanner's
first buffer is not empty and no larger than its limit, as in bufio
(`TextsAssumption`, `CallsAssumption`, `BufferAssumption`).

Every invariant below was checked with TLC on the instance of the module's run
before it was proved. Each proof has one lemma per action or group of actions
and `Frames` lemmas that say which variables a conjunct depends on.

**Connection.**

* `TypeCorrect`: `TypeOK` is inductive as it stands.
* `AssemblesOneMessage`: `OneMessageAtATime`, what
  the reader assembles is one message, a prefix of what its Send wrote. It is not
  inductive: it says nothing of the packets on their way. `IndInv` adds
  - `SendInv`: msgnos number the Sends of an end one by one (`Numbered`), the Send
    in progress holds the lock and has the last number (`LockHeld`);
  - `WireInv`: every packet on the wire is one its Send has written, and they are
    in the order of msgno and position;
  - `GapInv`: there are no gaps: what comes before a packet is on the wire before
    it or was the last thing the reader took, until the first lost write or
    until the reader has stopped;
  - `ReadInv`: what the reader has of a message.
* `ImplementsChannel`: the refinement, `ChannelSpec`. Every step of `Connection` is
  a step of `MessageChannel` or leaves its variables alone. `OutputInv` relates
  the two: message number k came out as the k-th, waits in the reader's hand, or
  is the one being assembled, and nothing else was counted; what came out whole
  was completely written by a Send that does not fail, and what came out flagged
  was abandoned by a foreign peer.
* `ErrorsNeedMalformed`: `MisplacedOnlyAfterMalformed`. `SequenceInv`: as long as
  no Send of an end was given a malformed header, every HEADER on its way carries
  the number the reader expects or follows the HEADER of the number before.
* `AcknowledgesWhatWasSent`: `AcksAreSound`. The bytes of a message grow from
  packet to packet or stay, and the reader has written what stands before the
  packet it expects; so an ACK counts the bytes of packets that were written, the
  ACKs of one message are for one packet after the other, and the one the reader
  has still to send is for a later packet than all on their way.

**Client.** `RepliesAreTheCallers`, `NoSendOnClosed`, `OneCloses`,
`TypeCorrect` and the action property `WaitingAreFound`. `IdInv`: no two calls
have the same request ID. `ReplyInv`: a reply carries the ID of the request it
answers, from the wire to the splitter's hand. `ChannelInv`: an entry of
`openReplies` is the channel of the call with that ID; channels are closed only
at the end. `CloseInv`: who is inside `Close` decides what is left of the connection.

**Service.** `ClientsAreExact`, `ShutdownIsComplete`, `TypeCorrect`.
`ArrivalInv`: at most one client is between Accept and the list. `QueueInv`:
while Run closes the clients, each one of the list is closed or still before it.

**Rpc.** `OrderlyAnswersMatch`, `OnlyAuthorizedRun`, `TypeCorrect`; the second is
about tickets with any numbers of 64 bits, and allows, besides those whose time is
not over, just the ones whose time ended before every `int64`. `CountInv` is
why counting works: as long as every request was answered in turn, the requests
on their way are numbered on from the replies sent, without a gap.

**Announcer.** `TypeCorrect`, the action property
`StopIsSilent`, and `AnnouncedWasRegistered`: neither the network nor the file
ever holds an action that was not registered, and the file holds no service
twice. With the latter and `ScanIsExact`, `AnnouncementsAreFound` proves
`AnnouncedIsFound`: in a file of whole announcements of different services the
reference definition finds every one, so `DoScan` does.

**ServiceCache.** `ScanIsSound`: for a file of any length, whatever `DoScan` puts
into an index belongs there, and with verification on it is an announcement as
`MarshalText` writes it. By induction over the lines: `ScanOK` says, at every line,
what the loops hold of the announcement they are in (the class record, the
certificate and the rows of the signature read so far are of one announcement, or
of one that ran into the next). The library's induction theorems take an operator,
which the provers cannot instantiate; `SetInduction` states induction for a set of
natural numbers instead, from the well-foundedness of `<`. `Text` and
`DoScan` are recursive functions for this reason.

`ScanIsExact` is the other half: the indexes are those of `ByIdent` and
`ByAction`, the definition without lines and loops. By induction over the
announcements of the file: what the scan of one announcement does to the
indexes and to the state of the loops, for each of the ways it can be written
and whatever ran into it from the one before.

**Discovery.** `IndexesAreExact` is `IndexesMatchFile`: a refresh replaces the
indexes by those of `DoScan`, no other step writes them, and `ScanIsExact` does
the rest. `RefresherInv` for `AtMostOneLoop` and `TakingTurnsIsSafe`:
`running` is 1 when one `Run` claims it or one goroutine runs, never both
(`OneInv`); as long as nobody overlaps, the context is there from its
assignment to the end of the goroutine (`TurnInv`). `RequestInv` for
`OnlyProvidersAreAsked`, `TypeCorrect` and the action property
`OpenClientsStay`: what a request found, what it has in its pool and what a proxy
links to all stem from an announcement with the action (`PoolInv`, `IndexInv`,
`LinkInv`), validated unless verification was off (`TrustInv`, from
`ScanIsSound`); `clientM` is held by who is inside `GetClient` (`LockInv`), who
dials only when there was no open client (`DialInv`), `sendM` by who is inside
`conn.Send` (`SendMInv`); queue depths count requests (`CountInv`).

**Config.** `ConfigTypeCorrect` and `SmallFilesKeepValues`, which is
`SmallFilesAreKept`. `Shape` is the inductive form of the type invariant: a value
is inside the part of an array that was written, and no step of the scanner
makes that part smaller. For the values `LoadInv` follows a `Load` through its
file: `Busy(text, old, pos)` says that `pos` symbols of `text` were handed out as
lines, that what is pending in the buffer and what was not read yet are the rest,
in order (`Aligned`), and that the keys set are those of `old` and of the lines
handed out (`SetSoFar`). A small file is read in one piece before its first line is
handed out, and the next read finds the end of the file with nothing left to
shift, so the text stays where it was read (`Unmoved`); hence a value is the text
of the last line that sets its key (`FromLine`), or what it was before the `Load`
and in an older array (`FromBefore`). `config_alias` shows that neither holds for
larger files.

Every safety invariant and action property that a passing run checks is proved.
Only model-checked: all liveness properties (`SendReturns`,
`EventuallyDelivered`, `CallersReturn`, `SplitEnds`, `CleansUp`,
`ShutdownProceeds`, `RequestsFinish`, `StopReturns`, `CacheCatchesUp`,
`StopEndsLoop`, `EventuallyFound`), since fairness is out of the prover's reach;
and the violated properties, which TLC refutes by a counterexample.

## Known limits of the code that the properties allow for

* A Send whose header cannot be marshalled uses up a msgno, and the next good
  message makes the peer's reader give up (`MisplacedOnlyAfterMalformed` says that
  nothing else does).
* A reply that arrives before `client.Send` has registered its channel is thrown
  away (`WaitingCallersAreFound` says that no other is).
* `client.Send` holds `sendM` while `conn.Send` waits for a peer that may not read,
  and `GetClient` holds `clientM` while a `Dial` without a timeout lasts, both
  before any timer runs: the callers behind them wait as long
  (`CallersReturn` and `RequestsFinish` say that nothing else keeps them).
* A process whose splitter meets a closed client dies, in particular one whose
  `Run` closes its clients at shutdown under their splitters; `SplitEnds`,
  `CleansUp` and `ShutdownProceeds` hold up to such a panic. So does
  `RequestsFinish` up to that of `GetClient`, whose second read of `sp.client` may
  find the nil that `Close` has put there.
* `Close` of an old client takes the client of the proxy that has its ident now,
  although that may be another, live one (`OpenClientsAreKept` says that
  `GetClient` itself takes none).
* Timestamp and TTL of a ticket are added without a check: a ticket whose numbers
  are so negative that their sum wraps around into the future is accepted
  (`CallbacksAuthorized` allows these and no other that ended).
* `Register` is not refused on a service that runs, since `isRunning` is never set,
  and kills the process when the announcer ranges over the map at that time.
* `Stop` of the announcer waits for ever when no loop runs, or another `Stop` has
  ended it (`StopEndsLoop` is about a loop that runs).
* After `Stop`, `Run` stays in the send on `statsCloseChan`, whose receiver is
  started by nobody, and the running-service file is not removed
  (`ShutdownProceeds` takes `Run` there).
* Calls of the refresher's `Run` and `Stop` that overlap may find a nil context or
  cancel, or leave `Stop` waiting for ever.
* All actions of a process share the verify key of the action that was asked
  first.
* A service too large for a datagram keeps the ones tracked after it from being
  announced.
* `SearchByAction` ignores case, `Handle` does not: a request spelt differently is
  routed to a service that answers "no such action".

## Not modelled

* `verifyRecords` is read by `DoScan` once for every record; the model reads it
  once for every refresh. A file that is rewritten in the middle of a scan, or a
  switch of the verification there, gives a mixture the model does not have.
* Certificates are a fixed pair of lines: a chain with a blank line inside it
  would end the certificate early in `DoScan`.
* The service's running-service file: written once, and its removal not reached.
* `ServiceCache.Store`, which nothing calls, and the read-only `Size`, `All` and
  `ActionList`.
* Announcements of fewer than eight fields, on which `newServiceProxy` panics, and
  lines of the cache file beyond 64 KiB.
* Text framing of packets, JSON of headers and announcements: stateless
  conversions.
* Authorized services: `LoadAuthorizedServices` fills a table that no other code
  asks. Cryptography and certificates.
* The choice of interface and address for multicast; the announcement's timestamp,
  which nothing reads.
* Logging, statistics, the debug tee, the command line and the test doubles.
* Integer overflow of the 64-bit counters: out of reach of any run of the
  program.

## Plan

1. Connection, MessageChannel, Client, Service, Rpc, Tickets, ServiceCache,
   Discovery, Announcer, Config and their runs: done.
2. Proofs about all of them, `Connection` as an implementation of `MessageChannel`
   included: done.

Left for later: longer lines of the cache file and of the network, that is bufio's
limit in `DoScan`, which `Config` has and `ServiceCache` has not.
