---------------------------- MODULE ServiceProofs ----------------------------
(***************************************************************************)
(* Proofs about module Service, for any set of connections and any number   *)
(* of messages: its type invariant, that serv.clients is exact, and that    *)
(* a shutdown closes every client.                                          *)
(***************************************************************************)
EXTENDS Service, SequenceTheorems, TLAPS

-----------------------------------------------------------------------------
(* The inductive invariant *)

(* Between Accept and the append at most one client is on its way into the   *)
(* list, and only while Run is there; a peer that never came has no Handle.  *)
ArrivalInv ==
  /\ \A c \in Conns : handle[c] = "accepted" => run = "append"
  /\ \A c, d \in Conns : handle[c] = "accepted" /\ handle[d] = "accepted" => c = d
  /\ \A c \in Conns : peer[c] = "away" => handle[c] = "none"

(* Handle closes its client before it removes it; the shutdown has closed    *)
(* every client of the list that it has not still before it, and all of them *)
(* in the end.                                                               *)
Queued(c) == \E i \in 1..Len(toClose) : toClose[i] = c

ClosedInv == \A c \in Conns : handle[c] \in {"remove", "done"} => closed[c]

QueueInv == run = "closing" => \A c \in Conns : Tracked(c) => closed[c] \/ Queued(c)

IndInv == TypeOK /\ ArrivalInv /\ ListIsExact /\ ClosedInv /\ QueueInv /\ ShutdownClosesAll

-----------------------------------------------------------------------------
(* The list of clients *)

(* append(clients[:i], clients[i+1:]...): the entries behind i move up.      *)
Without(s, i) == SubSeq(s, 1, i - 1) \o SubSeq(s, i + 1, Len(s))

LEMMA WithoutFacts ==
  ASSUME NEW S, NEW s \in Seq(S), NEW i \in 1..Len(s)
  PROVE  /\ Without(s, i) \in Seq(S)
         /\ Len(Without(s, i)) = Len(s) - 1
         /\ \A j \in 1..(Len(s) - 1) : Without(s, i)[j] = IF j < i THEN s[j] ELSE s[j + 1]
<1>1. PICK a : a = SubSeq(s, 1, i - 1)
  OBVIOUS
<1>2. PICK b : b = SubSeq(s, i + 1, Len(s))
  OBVIOUS
<1>3. a \in Seq(S) /\ Len(a) = i - 1 /\ \A j \in 1..(i - 1) : a[j] = s[j]
  BY <1>1
<1>4. b \in Seq(S) /\ Len(b) = Len(s) - i /\ \A j \in 1..(Len(s) - i) : b[j] = s[i + j]
  BY <1>2
<1>5. /\ a \o b \in Seq(S) /\ Len(a \o b) = Len(a) + Len(b)
      /\ \A j \in 1..(Len(a) + Len(b)) : (a \o b)[j] = IF j <= Len(a) THEN a[j] ELSE b[j - Len(a)]
  BY <1>3, <1>4, ConcatProperties
<1>6. /\ Len(a \o b) = Len(s) - 1
      /\ \A j \in 1..(Len(s) - 1) : (a \o b)[j] = IF j < i THEN s[j] ELSE s[j + 1]
  BY <1>3, <1>4, <1>5
<1> QED
  BY <1>1, <1>2, <1>5, <1>6 DEF Without

-----------------------------------------------------------------------------
(* One lemma per operation *)

(* What each part of the invariant depends on.                               *)
LEMMA Frames ==
  /\ RunTypes /\ UNCHANGED <<runVars, clients, clientsM>> => RunTypes'
  /\ HandleTypes /\ UNCHANGED <<connVars, handle, closed, crashed>> => HandleTypes'
  /\ ArrivalInv /\ UNCHANGED <<run, handle, peer>> => ArrivalInv'
  /\ ListIsExact /\ UNCHANGED <<clients, handle>> => ListIsExact'
  /\ ClosedInv /\ UNCHANGED <<handle, closed>> => ClosedInv'
  /\ QueueInv /\ UNCHANGED <<run, clients, closed, toClose>> => QueueInv'
  /\ ShutdownClosesAll /\ UNCHANGED <<run, handle, closed>> => ShutdownClosesAll'
<1>1. RunTypes /\ UNCHANGED <<runVars, clients, clientsM>> => RunTypes'
  BY DEF RunTypes, runVars
<1>2. HandleTypes /\ UNCHANGED <<connVars, handle, closed, crashed>> => HandleTypes'
  BY DEF HandleTypes, connVars
<1>3. ArrivalInv /\ UNCHANGED <<run, handle, peer>> => ArrivalInv'
  BY DEF ArrivalInv
<1>4. ListIsExact /\ UNCHANGED <<clients, handle>> => ListIsExact'
  BY DEF ListIsExact, Tracked
<1>5. ClosedInv /\ UNCHANGED <<handle, closed>> => ClosedInv'
  BY DEF ClosedInv
<1>6. QueueInv /\ UNCHANGED <<run, clients, closed, toClose>> => QueueInv'
  BY DEF QueueInv, Tracked, Queued
<1>7. ShutdownClosesAll /\ UNCHANGED <<run, handle, closed>> => ShutdownClosesAll'
  BY DEF ShutdownClosesAll
<1> QED
  BY <1>1, <1>2, <1>3, <1>4, <1>5, <1>6, <1>7

(* NewService establishes the invariant.                                     *)
LEMMA InitInv == Init => IndInv
<1> SUFFICES ASSUME Init PROVE IndInv
  OBVIOUS
<1>1. RunTypes
  <2>1. clients \in Seq(Conns) /\ toClose \in Seq(Conns)
    BY DEF Init
  <2> QED
    BY <2>1 DEF Init, RunTypes, Free, RunLoop
<1>2. HandleTypes
  <2>1. received \in [Conns -> 0..MaxMessages]
    BY MessagesAssumption DEF Init
  <2>2. crashed \in BOOLEAN
    BY DEF Init
  <2> QED
    BY <2>1, <2>2 DEF Init, HandleTypes, HandlePcs
<1>3. ArrivalInv /\ ListIsExact /\ ClosedInv /\ QueueInv /\ ShutdownClosesAll
  BY DEF Init, ArrivalInv, ListIsExact, ClosedInv, QueueInv, ShutdownClosesAll, Tracked
<1> QED
  BY <1>1, <1>2, <1>3 DEF IndInv, TypeOK

(* Run starts to accept.                                                     *)
LEMMA CreateFileInv ==
  ASSUME IndInv, CreateFile
  PROVE  IndInv'
<1>1. HandleTypes' /\ ListIsExact' /\ ClosedInv'
  BY Frames DEF IndInv, TypeOK, CreateFile
<1>2. RunTypes'
  BY DEF IndInv, TypeOK, CreateFile, RunTypes
<1>3. ArrivalInv'
  BY DEF IndInv, CreateFile, ArrivalInv, connVars
<1>4. QueueInv'
  BY DEF CreateFile, QueueInv
<1>5. ShutdownClosesAll'
  BY DEF CreateFile, ShutdownClosesAll
<1> QED
  BY <1>1, <1>2, <1>3, <1>4, <1>5 DEF IndInv, TypeOK

(* A new peer has no Handle and is in no list yet.                           *)
LEMMA AcceptInv ==
  ASSUME IndInv, NEW c \in Conns, Accept(c)
  PROVE  IndInv'
<1>1. RunTypes'
  BY DEF IndInv, TypeOK, Accept, RunTypes
<1>2. QueueInv'
  BY DEF Accept, QueueInv
<1>3. HandleTypes'
  BY DEF IndInv, TypeOK, Accept, HandleTypes, HandlePcs
<1>4. ArrivalInv'
  BY DEF IndInv, TypeOK, Accept, HandleTypes, ArrivalInv
<1>5. ListIsExact'
  BY DEF IndInv, Accept, ListIsExact, ArrivalInv, Tracked
<1>6. ClosedInv'
  BY DEF IndInv, Accept, ClosedInv
<1>7. ShutdownClosesAll'
  BY DEF Accept, ShutdownClosesAll
<1> QED
  BY <1>1, <1>2, <1>3, <1>4, <1>5, <1>6, <1>7 DEF IndInv, TypeOK

(* The one accepted client joins the list.                                   *)
LEMMA AppendClientInv ==
  ASSUME IndInv, NEW c \in Conns, AppendClient(c)
  PROVE  IndInv'
<1>1. RunTypes'
  BY DEF IndInv, TypeOK, AppendClient, RunTypes
<1>2. HandleTypes'
  BY DEF IndInv, TypeOK, AppendClient, HandleTypes, HandlePcs, connVars
<1>3. ArrivalInv'
  BY DEF IndInv, TypeOK, AppendClient, HandleTypes, ArrivalInv, connVars
<1>4. ListIsExact'
  <2>1. /\ Len(clients') = Len(clients) + 1
        /\ \A i \in 1..Len(clients) : clients'[i] = clients[i]
        /\ clients'[Len(clients) + 1] = c
    BY DEF AppendClient
  <2>2. ~Tracked(c)
    BY DEF IndInv, ListIsExact, AppendClient
  <2>3. \A i \in 1..Len(clients) : clients[i] # c
    BY <2>2 DEF Tracked
  <2>4. \A i, j \in 1..Len(clients') : clients'[i] = clients'[j] => i = j
    BY <2>1, <2>3 DEF IndInv, ListIsExact
  <2>5. \A d \in Conns : (Tracked(d))' <=> Tracked(d) \/ d = c
    BY <2>1 DEF Tracked
  <2> QED
    BY <2>4, <2>5 DEF IndInv, TypeOK, HandleTypes, ListIsExact, AppendClient
<1>5. ClosedInv'
  BY DEF IndInv, AppendClient, ClosedInv
<1>6. ShutdownClosesAll'
  BY DEF AppendClient, ShutdownClosesAll
<1>7. QueueInv'
  BY DEF AppendClient, QueueInv
<1> QED
  BY <1>1, <1>2, <1>3, <1>4, <1>5, <1>6, <1>7 DEF IndInv, TypeOK

(* Stop touches the listener only.                                           *)
LEMMA StopInv ==
  ASSUME IndInv, Stop
  PROVE  IndInv'
<1>1. HandleTypes' /\ ArrivalInv' /\ ListIsExact' /\ ClosedInv' /\ QueueInv' /\ ShutdownClosesAll'
  BY Frames DEF IndInv, TypeOK, Stop, connVars
<1>2. RunTypes'
  BY MessagesAssumption DEF IndInv, TypeOK, Stop, RunTypes, Free, RunLoop, runVars, connVars
<1> QED
  BY <1>1, <1>2 DEF IndInv, TypeOK

(* The shutdown has every client of the list before it.                      *)
LEMMA BeginShutdownInv ==
  ASSUME IndInv, BeginShutdown
  PROVE  IndInv'
<1>1. HandleTypes' /\ ListIsExact' /\ ClosedInv'
  BY Frames DEF IndInv, TypeOK, BeginShutdown
<1>2. RunTypes'
  BY DEF IndInv, TypeOK, BeginShutdown, RunTypes
<1>3. ArrivalInv'
  BY DEF IndInv, BeginShutdown, ArrivalInv, connVars
<1>4. QueueInv'
  BY DEF BeginShutdown, QueueInv, Tracked, Queued
<1>5. ShutdownClosesAll'
  BY DEF BeginShutdown, ShutdownClosesAll
<1> QED
  BY <1>1, <1>2, <1>3, <1>4, <1>5 DEF IndInv, TypeOK

(* It closes the next one.                                                   *)
LEMMA CloseNextInv ==
  ASSUME IndInv, CloseNext
  PROVE  IndInv'
<1>1. ArrivalInv' /\ ListIsExact'
  BY Frames DEF IndInv, CloseNext, connVars
<1>2. RunTypes'
  BY DEF IndInv, TypeOK, CloseNext, RunTypes
<1>3. HandleTypes'
  BY MessagesAssumption DEF IndInv, TypeOK, CloseNext, HandleTypes, HandlePcs, runVars,
     connVars
<1>4. ClosedInv'
  BY DEF IndInv, CloseNext, ClosedInv
<1>5. QueueInv'
  <2> SUFFICES ASSUME NEW c \in Conns, (Tracked(c))', ~closed'[c] PROVE (Queued(c))'
    BY DEF QueueInv
  <2>1. Tracked(c) /\ c # Head(toClose) /\ ~closed[c]
    BY DEF IndInv, TypeOK, HandleTypes, CloseNext, Tracked
  <2>2. PICK i \in 1..Len(toClose) : toClose[i] = c
    BY <2>1 DEF IndInv, CloseNext, QueueInv, Queued
  <2>3. /\ toClose \in Seq(Conns) /\ toClose # <<>> /\ toClose' = Tail(toClose)
    BY DEF IndInv, TypeOK, RunTypes, CloseNext
  <2>4. i - 1 \in 1..Len(toClose') /\ toClose'[i - 1] = c
    BY <2>1, <2>2, <2>3
  <2> QED
    BY <2>4 DEF Queued
<1>6. ShutdownClosesAll'
  BY DEF CloseNext, ShutdownClosesAll
<1> QED
  BY <1>1, <1>2, <1>3, <1>4, <1>5, <1>6 DEF IndInv, TypeOK

(* With none left, all clients are closed: the list holds the others, and no *)
(* client is between Accept and the list.                                    *)
LEMMA SendStatsCloseInv ==
  ASSUME IndInv, SendStatsClose
  PROVE  IndInv'
<1>1. HandleTypes' /\ ListIsExact' /\ ClosedInv'
  BY Frames DEF IndInv, TypeOK, SendStatsClose
<1>2. RunTypes'
  BY DEF IndInv, TypeOK, SendStatsClose, RunTypes, Free, RunLoop
<1>3. ArrivalInv'
  BY DEF IndInv, SendStatsClose, ArrivalInv, connVars
<1>4. QueueInv'
  BY DEF SendStatsClose, QueueInv
<1>5. ShutdownClosesAll'
  <2> SUFFICES ASSUME NEW c \in Conns, handle[c] # "none" PROVE closed[c]
    BY DEF ShutdownClosesAll, SendStatsClose
  <2>1. ~Queued(c)
    BY DEF SendStatsClose, Queued
  <2>2. handle[c] # "accepted"
    BY DEF IndInv, ArrivalInv, SendStatsClose
  <2>3. CASE Tracked(c)
    BY <2>1, <2>3 DEF IndInv, QueueInv, SendStatsClose
  <2>4. CASE ~Tracked(c)
    BY <2>2, <2>4 DEF IndInv, TypeOK, HandleTypes, HandlePcs, ListIsExact, ClosedInv
  <2> QED
    BY <2>3, <2>4
<1> QED
  BY <1>1, <1>2, <1>3, <1>4, <1>5 DEF IndInv, TypeOK

(* A message arrives.                                                        *)
LEMMA MessageArrivesInv ==
  ASSUME IndInv, NEW c \in Conns, MessageArrives(c)
  PROVE  IndInv'
<1>1. RunTypes' /\ ArrivalInv' /\ ListIsExact' /\ ClosedInv' /\ QueueInv' /\ ShutdownClosesAll'
  BY Frames DEF IndInv, TypeOK, MessageArrives, runVars
<1>2. HandleTypes'
  BY MessagesAssumption DEF IndInv, TypeOK, MessageArrives, HandleTypes
<1> QED
  BY <1>1, <1>2 DEF IndInv, TypeOK

(* A peer that leaves has been there.                                        *)
LEMMA PeerLeavesInv ==
  ASSUME IndInv, NEW c \in Conns, PeerLeaves(c)
  PROVE  IndInv'
<1>1. RunTypes' /\ ListIsExact' /\ ClosedInv' /\ QueueInv' /\ ShutdownClosesAll'
  BY Frames DEF IndInv, TypeOK, PeerLeaves, runVars
<1>2. HandleTypes'
  BY DEF IndInv, TypeOK, PeerLeaves, HandleTypes
<1>3. ArrivalInv'
  BY DEF IndInv, PeerLeaves, ArrivalInv, runVars
<1> QED
  BY <1>1, <1>2, <1>3 DEF IndInv, TypeOK

(* The splitter turns to its select ...                                      *)
LEMMA SplitterSelectsInv ==
  ASSUME IndInv, NEW c \in Conns, SplitterSelects(c)
  PROVE  IndInv'
<1>1. RunTypes' /\ ArrivalInv' /\ ListIsExact' /\ ClosedInv' /\ QueueInv' /\ ShutdownClosesAll'
  BY Frames DEF IndInv, TypeOK, SplitterSelects, runVars
<1>2. HandleTypes'
  BY DEF IndInv, TypeOK, SplitterSelects, HandleTypes
<1> QED
  BY <1>1, <1>2 DEF IndInv, TypeOK

(* ... or panics, and nothing moves any more ...                             *)
LEMMA SplitterPanicsInv ==
  ASSUME IndInv, NEW c \in Conns, SplitterPanics(c)
  PROVE  IndInv'
<1>1. RunTypes' /\ ArrivalInv' /\ ListIsExact' /\ ClosedInv' /\ QueueInv' /\ ShutdownClosesAll'
  BY Frames DEF IndInv, TypeOK, SplitterPanics, runVars, connVars
<1>2. HandleTypes'
  BY DEF IndInv, TypeOK, SplitterPanics, HandleTypes, connVars
<1> QED
  BY <1>1, <1>2 DEF IndInv, TypeOK

(* ... or ends and closes the client.                                        *)
LEMMA SplitterEndsInv ==
  ASSUME IndInv, NEW c \in Conns, SplitterEnds(c)
  PROVE  IndInv'
<1>1. RunTypes' /\ ArrivalInv' /\ ListIsExact'
  BY Frames DEF IndInv, TypeOK, SplitterEnds, runVars
<1>2. HandleTypes'
  BY DEF IndInv, TypeOK, SplitterEnds, HandleTypes
<1>3. ClosedInv'
  BY DEF IndInv, SplitterEnds, ClosedInv
<1>4. QueueInv'
  <2>1. \A d \in Conns : /\ (Tracked(d))' <=> Tracked(d)
                         /\ (Queued(d))' <=> Queued(d)
                         /\ closed[d] => closed'[d]
    BY DEF SplitterEnds, runVars, Tracked, Queued
  <2> QED
    BY <2>1 DEF IndInv, QueueInv, SplitterEnds, runVars
<1>5. ShutdownClosesAll'
  BY DEF IndInv, SplitterEnds, ShutdownClosesAll, runVars
<1> QED
  BY <1>1, <1>2, <1>3, <1>4, <1>5 DEF IndInv, TypeOK

(* Handle stays between append and remove in its loop ...                    *)
LEMMA HandleRequestInv ==
  ASSUME IndInv, NEW c \in Conns, HandleRequest(c)
  PROVE  IndInv'
<1>1. RunTypes' /\ QueueInv'
  BY Frames DEF IndInv, TypeOK, HandleRequest, runVars
<1>2. HandleTypes'
  BY DEF IndInv, TypeOK, HandleRequest, HandleTypes, HandlePcs
<1>3. ArrivalInv'
  BY DEF IndInv, HandleRequest, ArrivalInv, runVars
<1>4. ListIsExact'
  BY DEF IndInv, HandleRequest, ListIsExact, Tracked
<1>5. ClosedInv'
  BY DEF IndInv, HandleRequest, ClosedInv
<1>6. ShutdownClosesAll'
  BY DEF IndInv, HandleRequest, ShutdownClosesAll, runVars
<1> QED
  BY <1>1, <1>2, <1>3, <1>4, <1>5, <1>6 DEF IndInv, TypeOK

(* ... as the callback returns ...                                           *)
LEMMA CallbackReturnsInv ==
  ASSUME IndInv, NEW c \in Conns, CallbackReturns(c)
  PROVE  IndInv'
<1>1. RunTypes' /\ QueueInv'
  BY Frames DEF IndInv, TypeOK, CallbackReturns, runVars
<1>2. HandleTypes'
  BY DEF IndInv, TypeOK, CallbackReturns, HandleTypes, HandlePcs, connVars
<1>3. ArrivalInv'
  BY DEF IndInv, CallbackReturns, ArrivalInv, runVars, connVars
<1>4. ListIsExact'
  BY DEF IndInv, CallbackReturns, ListIsExact, Tracked
<1>5. ClosedInv'
  BY DEF IndInv, CallbackReturns, ClosedInv
<1>6. ShutdownClosesAll'
  BY DEF IndInv, CallbackReturns, ShutdownClosesAll, runVars
<1> QED
  BY <1>1, <1>2, <1>3, <1>4, <1>5, <1>6 DEF IndInv, TypeOK

(* ... or the error cannot be sent ...                                       *)
LEMMA ReplyFailsInv ==
  ASSUME IndInv, NEW c \in Conns, ReplyFails(c)
  PROVE  IndInv'
<1>1. RunTypes'
  BY Frames DEF IndInv, TypeOK, ReplyFails
<1>2. HandleTypes'
  BY DEF IndInv, TypeOK, ReplyFails, HandleTypes, HandlePcs, connVars
<1>3. ArrivalInv'
  BY DEF IndInv, ReplyFails, ArrivalInv, runVars, connVars
<1>4. ListIsExact'
  BY DEF IndInv, ReplyFails, ListIsExact, Tracked
<1>5. ClosedInv'
  BY DEF IndInv, ReplyFails, ClosedInv
<1>6. ShutdownClosesAll'
  BY DEF IndInv, ReplyFails, ShutdownClosesAll, runVars
<1>7. QueueInv'
  <2>1. \A d \in Conns : /\ (Tracked(d))' <=> Tracked(d)
                         /\ (Queued(d))' <=> Queued(d)
                         /\ closed[d] => closed'[d]
    BY DEF ReplyFails, runVars, Tracked, Queued
  <2> QED
    BY <2>1 DEF IndInv, QueueInv, ReplyFails, runVars
<1> QED
  BY <1>1, <1>2, <1>3, <1>4, <1>5, <1>6, <1>7 DEF IndInv, TypeOK

(* ... or the peer is gone ...                                               *)
LEMMA HandleLeavesInv ==
  ASSUME IndInv, NEW c \in Conns, HandleLeaves(c)
  PROVE  IndInv'
<1>1. RunTypes' /\ QueueInv'
  BY Frames DEF IndInv, TypeOK, HandleLeaves, runVars
<1>2. HandleTypes'
  BY DEF IndInv, TypeOK, HandleLeaves, HandleTypes, HandlePcs, connVars
<1>3. ArrivalInv'
  BY DEF IndInv, HandleLeaves, ArrivalInv, runVars, connVars
<1>4. ListIsExact'
  BY DEF IndInv, HandleLeaves, ListIsExact, Tracked
<1>5. ClosedInv'
  BY DEF IndInv, HandleLeaves, ClosedInv
<1>6. ShutdownClosesAll'
  BY DEF IndInv, HandleLeaves, ShutdownClosesAll, runVars
<1> QED
  BY <1>1, <1>2, <1>3, <1>4, <1>5, <1>6 DEF IndInv, TypeOK

(* ... or silent ...                                                         *)
LEMMA HandleTimesOutInv ==
  ASSUME IndInv, NEW c \in Conns, HandleTimesOut(c)
  PROVE  IndInv'
<1>1. RunTypes' /\ QueueInv'
  BY Frames DEF IndInv, TypeOK, HandleTimesOut, runVars
<1>2. HandleTypes'
  BY DEF IndInv, TypeOK, HandleTimesOut, HandleTypes, HandlePcs, connVars
<1>3. ArrivalInv'
  BY DEF IndInv, HandleTimesOut, ArrivalInv, runVars, connVars
<1>4. ListIsExact'
  BY DEF IndInv, HandleTimesOut, ListIsExact, Tracked
<1>5. ClosedInv'
  BY DEF IndInv, HandleTimesOut, ClosedInv
<1>6. ShutdownClosesAll'
  BY DEF IndInv, HandleTimesOut, ShutdownClosesAll, runVars
<1> QED
  BY <1>1, <1>2, <1>3, <1>4, <1>5, <1>6 DEF IndInv, TypeOK

(* ... and closes its client before it asks for its removal.                 *)
LEMMA HandleClosesInv ==
  ASSUME IndInv, NEW c \in Conns, HandleCloses(c)
  PROVE  IndInv'
<1>1. RunTypes'
  BY Frames DEF IndInv, TypeOK, HandleCloses
<1>2. HandleTypes'
  BY DEF IndInv, TypeOK, HandleCloses, HandleTypes, HandlePcs, connVars
<1>3. ArrivalInv'
  BY DEF IndInv, HandleCloses, ArrivalInv, runVars, connVars
<1>4. ListIsExact'
  BY DEF IndInv, HandleCloses, ListIsExact, Tracked
<1>5. ClosedInv'
  BY DEF IndInv, TypeOK, HandleCloses, HandleTypes, ClosedInv
<1>6. ShutdownClosesAll'
  BY DEF IndInv, HandleCloses, ShutdownClosesAll, runVars
<1>7. QueueInv'
  <2>1. \A d \in Conns : /\ (Tracked(d))' <=> Tracked(d)
                         /\ (Queued(d))' <=> Queued(d)
                         /\ closed[d] => closed'[d]
    BY DEF HandleCloses, runVars, Tracked, Queued
  <2> QED
    BY <2>1 DEF IndInv, QueueInv, HandleCloses, runVars
<1> QED
  BY <1>1, <1>2, <1>3, <1>4, <1>5, <1>6, <1>7 DEF IndInv, TypeOK

(* RemoveClient takes out the one entry of its client and no other.          *)
LEMMA RemoveClientInv ==
  ASSUME IndInv, NEW c \in Conns, RemoveClient(c)
  PROVE  IndInv'
<1>1. Tracked(c) /\ closed[c] /\ run # "closing"
  BY DEF IndInv, TypeOK, RunTypes, ListIsExact, ClosedInv, RemoveClient, Free, RunLoop
<1>2. PICK i \in 1..Len(clients) : clients[i] = c /\ clients' = Without(clients, i)
  BY <1>1 DEF RemoveClient, Without
<1>3. /\ clients \in Seq(Conns) /\ Len(clients) \in Nat
      /\ clients' \in Seq(Conns)
      /\ Len(clients') = Len(clients) - 1
      /\ \A j \in 1..(Len(clients) - 1) : clients'[j] = IF j < i THEN clients[j] ELSE clients[j + 1]
  <2>1. clients \in Seq(Conns)
    BY DEF IndInv, TypeOK, RunTypes
  <2>2. /\ Without(clients, i) \in Seq(Conns)
        /\ Len(Without(clients, i)) = Len(clients) - 1
        /\ \A j \in 1..(Len(clients) - 1) :
             Without(clients, i)[j] = IF j < i THEN clients[j] ELSE clients[j + 1]
    BY <2>1, WithoutFacts
  <2> QED
    BY <1>2, <2>1, <2>2
<1>4. closed' = closed
  BY <1>1 DEF IndInv, TypeOK, HandleTypes, RemoveClient
<1>5. RunTypes'
  BY <1>3 DEF IndInv, TypeOK, RunTypes, RemoveClient, runVars
<1>6. HandleTypes'
  BY <1>4 DEF IndInv, TypeOK, HandleTypes, HandlePcs, RemoveClient, connVars
<1>7. ArrivalInv'
  BY DEF IndInv, ArrivalInv, RemoveClient, runVars, connVars
<1>8. ListIsExact'
  <2>1. \A k, m \in 1..Len(clients) : clients[k] = clients[m] => k = m
    BY DEF IndInv, ListIsExact
  <2>2. ASSUME NEW d \in Conns PROVE (Tracked(d))' <=> Tracked(d) /\ d # c
    <3>1. ASSUME (Tracked(d))' PROVE Tracked(d) /\ d # c
      <4>1. PICK j \in 1..(Len(clients) - 1) : clients'[j] = d
        BY <1>3, <3>1 DEF Tracked
      <4>2. PICK k \in 1..Len(clients) : k # i /\ clients[k] = d
        <5>1. CASE j < i
          BY <1>3, <4>1, <5>1
        <5>2. CASE ~(j < i)
          <6>1. j + 1 \in 1..Len(clients) /\ j + 1 # i /\ clients[j + 1] = d
            BY <1>3, <4>1, <5>2
          <6> QED
            BY <6>1
        <5> QED
          BY <5>1, <5>2
      <4>3. d # c
        BY <1>2, <2>1, <4>2
      <4> QED
        BY <4>2, <4>3 DEF Tracked
    <3>2. ASSUME Tracked(d), d # c PROVE (Tracked(d))'
      <4>1. PICK j \in 1..Len(clients) : clients[j] = d
        BY <3>2 DEF Tracked
      <4>2. CASE j < i
        BY <1>3, <4>1, <4>2 DEF Tracked
      <4>3. CASE j > i
        <5>1. j - 1 \in 1..Len(clients') /\ clients'[j - 1] = d
          BY <1>3, <4>1, <4>3
        <5> QED
          BY <5>1 DEF Tracked
      <4> QED
        BY <1>2, <3>2, <4>1, <4>2, <4>3
    <3> QED
      BY <3>1, <3>2
  <2>3. \A k, m \in 1..Len(clients') : clients'[k] = clients'[m] => k = m
    BY <1>3, <2>1
  <2>4. handle' = [handle EXCEPT ![c] = "done"]
    BY DEF RemoveClient
  <2> QED
    BY <2>2, <2>3, <2>4 DEF IndInv, TypeOK, HandleTypes, ListIsExact
<1>9. ClosedInv' /\ QueueInv' /\ ShutdownClosesAll'
  BY <1>1, <1>4 DEF IndInv, ClosedInv, QueueInv, ShutdownClosesAll, RemoveClient, runVars
<1> QED
  BY <1>5, <1>6, <1>7, <1>8, <1>9 DEF IndInv, TypeOK

-----------------------------------------------------------------------------
(* The invariant and the theorems *)

(* Every step preserves the invariant.                                       *)
LEMMA StepInv == IndInv /\ [Next]_vars => IndInv'
<1> SUFFICES ASSUME IndInv, [Next]_vars PROVE IndInv'
  OBVIOUS
<1>1. CASE RunStep \/ Stop \/ AcceptError
  BY <1>1, CreateFileInv, AppendClientInv, BeginShutdownInv, CloseNextInv,
     SendStatsCloseInv, StopInv DEF RunStep, AcceptFails, AcceptError
<1>2. ASSUME NEW c \in Conns, HandleStep(c) \/ CallbackReturns(c) \/ HandleTimesOut(c) PROVE IndInv'
  BY <1>2, HandleRequestInv, CallbackReturnsInv, ReplyFailsInv, HandleLeavesInv,
     HandleClosesInv, RemoveClientInv, HandleTimesOutInv DEF HandleStep
<1>3. ASSUME NEW c \in Conns, Accept(c) \/ MessageArrives(c) \/ PeerLeaves(c) \/ SplitterStep(c)
      PROVE  IndInv'
  BY <1>3, AcceptInv, MessageArrivesInv, PeerLeavesInv, SplitterSelectsInv, SplitterPanicsInv,
     SplitterEndsInv DEF SplitterStep
<1>4. CASE UNCHANGED vars
  BY <1>4, Frames DEF IndInv, TypeOK, vars, runVars, connVars
<1> QED
  BY <1>1, <1>2, <1>3, <1>4 DEF Next

(* It holds of every reachable state.                                        *)
LEMMA Invariant == Spec => []IndInv
  BY InitInv, StepInv, PTL DEF Spec

(* The type invariant; among it that Run holds clientsM exactly while it     *)
(* closes the clients.                                                       *)
THEOREM TypeCorrect == Spec => []TypeOK
<1>1. IndInv => TypeOK
  BY DEF IndInv
<1> QED
  BY <1>1, Invariant, PTL

(* For any number of connections serv.clients holds exactly those whose      *)
(* Handle has not finished, each once: RemoveClient never misses its client. *)
THEOREM ClientsAreExact == Spec => []ListIsExact
<1>1. IndInv => ListIsExact
  BY DEF IndInv
<1> QED
  BY <1>1, Invariant, PTL

(* When Run is past its shutdown loop every client it ever accepted is       *)
(* closed, whatever peers, handlers and splitters do meanwhile.              *)
THEOREM ShutdownIsComplete == Spec => []ShutdownClosesAll
<1>1. IndInv => ShutdownClosesAll
  BY DEF IndInv
<1> QED
  BY <1>1, Invariant, PTL

=============================================================================
