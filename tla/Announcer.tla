------------------------------ MODULE Announcer ------------------------------
(***************************************************************************)
(* How a service becomes known: Register fills its map of actions           *)
(* (src/scamp/service.go), a DiscoveryAnnouncer multicasts what MarshalText *)
(* makes of it every few seconds (src/scamp/discoveryannounce.go), datagrams*)
(* are lost, repeated and reordered, the discovery daemon (external) writes *)
(* the last one it heard of every service to the cache file, and DoScan of  *)
(* module ServiceCache reads that file in some other process.               *)
(*                                                                          *)
(* Register and the announcer share the map without a lock: a range over a  *)
(* map during an insertion is fatal in Go, or sees the map with or without  *)
(* the new entry.  (Track and the announcer share a slice in the same way;  *)
(* its header is taken to be read and written as a whole.)                  *)
(***************************************************************************)
EXTENDS ServiceCache

CONSTANTS
  Registers,    \* [Idents -> Seq(Names)]: what is registered with each service, in turn
  Undotted,     \* names without a dot between class and action
  Stoppers,     \* calls of the announcer's Stop
  MaxActions    \* more actions than that do not fit into a datagram

NoName == "no name"

ASSUME RegistersAssumption ==
  /\ Registers \in [Idents -> Seq(Names)] /\ \A s \in Idents : IsInjective(Registers[s])
  /\ Undotted \subseteq Names /\ MaxActions \in Nat
  /\ NoName \notin Names /\ Addrs # {}

VARIABLES
  actions,     \* [Idents -> SUBSET Names]: serv.actions
  inserting,   \* [Idents -> the name Register is putting into the map, or NoName]
  services,    \* announcer.services
  loop,        \* AnnounceLoop: "off", "select", "announce", "marshal", "send", "sleep", "ended"
  todo,        \* the services doAnnounce has still to announce
  text,        \* serviceDesc, between MarshalText and WriteTo: an announcement or none
  stopper,     \* [Stoppers -> "idle", "blocked" or "returned"]
  air,         \* datagrams on their way
  heard,       \* what the daemon has written to the cache file
  crashed      \* the services' process has died

serviceVars == <<actions, inserting>>
loopVars == <<services, loop, todo, text>>
netVars == <<air, heard>>
vars == <<serviceVars, loopVars, stopper, netVars, crashed>>

Running == loop \notin {"off", "ended"}

-----------------------------------------------------------------------------
(* The service *)

(* isRunning is never set: Register refuses nothing, and writes the map.    *)
RegisterBegin(s) ==
  /\ inserting[s] = NoName
  /\ Cardinality(actions[s]) < Len(Registers[s])
  /\ inserting' = [inserting EXCEPT ![s] = Registers[s][Cardinality(actions[s]) + 1]]
  /\ UNCHANGED <<actions, loopVars, stopper, netVars, crashed>>

RegisterEnd(s) ==
  /\ inserting[s] # NoName
  /\ actions' = [actions EXCEPT ![s] = @ \cup {inserting[s]}]
  /\ inserting' = [inserting EXCEPT ![s] = NoName]
  /\ UNCHANGED <<loopVars, stopper, netVars, crashed>>

-----------------------------------------------------------------------------
(* The announcer *)

(* A caller tracks a service once.                                          *)
Track(s) ==
  /\ ~Contains(services, s)
  /\ services' = Append(services, s)
  /\ UNCHANGED <<serviceVars, loop, todo, text, stopper, netVars, crashed>>

AnnounceLoop ==
  /\ loop = "off"
  /\ loop' = "select"
  /\ UNCHANGED <<serviceVars, services, todo, text, stopper, netVars, crashed>>

(* Mutant of Stop: stopSig has room for the signal.                         *)
StopBuffered(q) ==
  /\ stopper[q] = "idle"
  /\ stopper' = [stopper EXCEPT ![q] = "returned"]
  /\ UNCHANGED <<serviceVars, loopVars, netVars, crashed>>

(* Stop sends on stopSig, which has no room: it waits for the loop.         *)
Stop(q) ==
  /\ stopper[q] = "idle"
  /\ stopper' = [stopper EXCEPT ![q] = "blocked"]
  /\ UNCHANGED <<serviceVars, loopVars, netVars, crashed>>

(* The select takes the signal of a Stop that waits, and the loop ends ...  *)
SelectStop(q) ==
  /\ loop = "select"
  /\ stopper[q] = "blocked"
  /\ stopper' = [stopper EXCEPT ![q] = "returned"]
  /\ loop' = "ended"
  /\ UNCHANGED <<serviceVars, services, todo, text, netVars, crashed>>

(* ... or, if none does, doAnnounce starts with the services as they are.   *)
SelectDefault ==
  /\ loop = "select"
  /\ \A q \in Stoppers : stopper[q] # "blocked"
  /\ loop' = "announce"
  /\ todo' = services
  /\ UNCHANGED <<serviceVars, services, text, stopper, netVars, crashed>>

(* The next service, or the end of the round.                               *)
AnnounceNext ==
  /\ loop = "announce"
  /\ loop' = IF todo = <<>> THEN "sleep" ELSE "marshal"
  /\ UNCHANGED <<serviceVars, services, todo, text, stopper, netVars, crashed>>

(* What serviceAsServiceProxy may find in the map: with an insertion under  *)
(* way the new entry as well.                                               *)
MapContents(s) ==
  IF inserting[s] = NoName THEN {actions[s]} ELSE {actions[s], actions[s] \cup {inserting[s]}}

(* A map that serviceAsServiceProxy gets through: it splits names at a dot. *)
Dotted(found) == found \cap Undotted = {}

(* MarshalText turns the map into an announcement ...                       *)
Marshal ==
  /\ loop = "marshal"
  /\ \E found \in MapContents(Head(todo)) :
       /\ Dotted(found)
       /\ text' = {[ident |-> Head(todo), provides |-> found, addr |-> CHOOSE a \in Addrs : TRUE,
                    kind |-> "good", runOn |-> FALSE]}
  /\ loop' = "send"
  /\ UNCHANGED <<serviceVars, services, todo, stopper, netVars, crashed>>

(* ... or fails to sign it; the empty text is sent all the same ...         *)
MarshalFails ==
  /\ loop = "marshal"
  /\ \E found \in MapContents(Head(todo)) : Dotted(found)
  /\ text' = {}
  /\ loop' = "send"
  /\ UNCHANGED <<serviceVars, services, todo, stopper, netVars, crashed>>

(* ... or panics, at a name without a dot or on the map being written.      *)
MarshalPanics ==
  /\ loop = "marshal"
  /\ \/ inserting[Head(todo)] # NoName
     \/ \E found \in MapContents(Head(todo)) : ~Dotted(found)
  /\ crashed' = TRUE
  /\ UNCHANGED <<serviceVars, loopVars, stopper, netVars>>

Fits == \A d \in text : Cardinality(d.provides) <= MaxActions

(* Mutant of WriteTo: the text outlives its round.                          *)
WriteToKeepsText ==
  /\ loop = "send"
  /\ Fits
  /\ air' = air \cup text
  /\ todo' = Tail(todo)
  /\ loop' = "announce"
  /\ UNCHANGED <<serviceVars, services, text, stopper, heard, crashed>>

WriteTo ==
  /\ loop = "send"
  /\ Fits
  /\ air' = air \cup text
  /\ todo' = Tail(todo)
  /\ loop' = "announce"
  /\ text' = {}
  /\ UNCHANGED <<serviceVars, services, stopper, heard, crashed>>

(* Mutant of WriteFails: an error of doAnnounce ends the loop.              *)
WriteFailsFatal ==
  /\ loop = "send"
  /\ loop' = "ended"
  /\ todo' = <<>>
  /\ text' = {}
  /\ UNCHANGED <<serviceVars, services, stopper, netVars, crashed>>

(* An error of WriteTo ends the round: the services after this one are not  *)
(* announced in it.                                                         *)
WriteFails ==
  /\ loop = "send"
  /\ loop' = "sleep"
  /\ todo' = <<>>
  /\ text' = {}
  /\ UNCHANGED <<serviceVars, services, stopper, netVars, crashed>>

(* Mutant of Wake: the loop goes on without a look at stopSig.              *)
WakeAnnounces ==
  /\ loop = "sleep"
  /\ loop' = "announce"
  /\ todo' = services
  /\ UNCHANGED <<serviceVars, services, text, stopper, netVars, crashed>>

Wake ==
  /\ loop = "sleep"
  /\ loop' = "select"
  /\ UNCHANGED <<serviceVars, services, todo, text, stopper, netVars, crashed>>

-----------------------------------------------------------------------------
(* External: the network and the daemon *)

Lose(d) ==
  /\ d \in air
  /\ air' = air \ {d}
  /\ UNCHANGED <<serviceVars, loopVars, stopper, heard, crashed>>

(* The daemon has one entry for every ident.  A copy of d may still come.   *)
Hear(d) ==
  /\ d \in air
  /\ heard' = IF \E p \in DOMAIN heard : heard[p].ident = d.ident
              THEN [p \in DOMAIN heard |-> IF heard[p].ident = d.ident THEN d ELSE heard[p]]
              ELSE Append(heard, d)
  /\ UNCHANGED <<serviceVars, loopVars, stopper, air, crashed>>

-----------------------------------------------------------------------------
Init ==
  /\ actions = [s \in Idents |-> {}]
  /\ inserting = [s \in Idents |-> NoName]
  /\ services = <<>> /\ loop = "off" /\ todo = <<>> /\ text = {}
  /\ stopper = [q \in Stoppers |-> "idle"]
  /\ air = {} /\ heard = <<>>
  /\ crashed = FALSE

LoopStep ==
  \/ \E q \in Stoppers : SelectStop(q)
  \/ SelectDefault \/ AnnounceNext \/ Marshal \/ MarshalFails \/ MarshalPanics
  \/ WriteTo \/ WriteFails \/ Wake

Next ==
  \/ /\ ~crashed
     /\ \/ \E s \in Idents : Track(s) \/ RegisterBegin(s) \/ RegisterEnd(s)
        \/ \E q \in Stoppers : Stop(q)
        \/ AnnounceLoop \/ LoopStep
  \/ \E d \in air : Lose(d) \/ Hear(d)

Spec == Init /\ [][Next]_vars

(* The announcement of s as it is now.                                      *)
UpToDate(s, d) == d.ident = s /\ d.provides = actions[s]

(* The loop runs when it can and a call of Register ends.  Signing and      *)
(* sending succeed at times if they are tried again and again, and so does  *)
(* the delivery of a datagram that is sent again and again; one that is not *)
(* sent again does not stay on its way for ever, however often it is heard. *)
FairSpec ==
  /\ Spec
  /\ WF_vars(~crashed /\ LoopStep)
  /\ \A s \in Idents :
       /\ WF_vars(~crashed /\ RegisterEnd(s))
       /\ SF_vars(~crashed /\ Marshal /\ Head(todo) = s)
       /\ SF_vars(~crashed /\ WriteTo /\ Head(todo) = s /\ text # {})
       /\ SF_vars(\E d \in air : UpToDate(s, d) /\ Hear(d))
       /\ WF_vars(\E d \in air : d.ident = s /\ ~UpToDate(s, d) /\ Lose(d))

-----------------------------------------------------------------------------
(* Properties *)

Loops == {"off", "select", "announce", "marshal", "send", "sleep", "ended"}

ServiceTypes ==
  /\ actions \in [Idents -> SUBSET Names]
  /\ inserting \in [Idents -> Names \cup {NoName}]

LoopTypes ==
  /\ services \in Seq(Idents) /\ IsInjective(services)
  /\ loop \in Loops
  /\ todo \in Seq(Idents)
  /\ loop \in {"marshal", "send"} => todo # <<>>

TextTypes == \A d \in text : loop = "send" /\ d.ident = Head(todo) /\ d \in Announcement

NetTypes == air \subseteq Announcement /\ heard \in Seq(Announcement)

StopTypes ==
  /\ stopper \in [Stoppers -> {"idle", "blocked", "returned"}]
  /\ crashed \in BOOLEAN

(* The shape of the state; doAnnounce has a service in hand while it makes  *)
(* or sends a text, and a text only when it sends it.                       *)
TypeOK == ServiceTypes /\ LoopTypes /\ TextTypes /\ NetTypes /\ StopTypes

(* A requester that reads the file finds every service the daemon heard of, *)
(* once for each of its actions and with a signature that verifies, and     *)
(* nothing a service did not register: MarshalText writes what DoScan reads,*)
(* whatever announcements stand before and after it.                        *)
AnnouncedIsFound ==
  LET cache == DoScan(heard, TRUE)
  IN  /\ \A p \in DOMAIN heard : cache.identIndex[heard[p].ident] = p
      /\ \A a \in Actions : \A p \in DOMAIN heard :
           Cardinality({k \in DOMAIN cache.actionIndex[a] : cache.actionIndex[a][k] = p})
             = Cardinality({n \in heard[p].provides : ToLower[n] = a})
      /\ \A a \in Actions : \A p \in Range(cache.actionIndex[a]) :
           LET s == heard[p].ident
           IN  \E n \in actions[s] \cup {inserting[s]} : n \in Names /\ ToLower[n] = a

(* When Stop has returned nothing is sent any more: no announcement is left *)
(* half done behind it that would make the service known again.             *)
StoppedIsSilent ==
  [][(\E q \in Stoppers : stopper[q] = "returned") => air' \subseteq air /\ text' = {}]_vars

(* A call of Stop ends a loop that runs, also while services are announced  *)
(* or cannot be.  (With no loop, or one that another Stop has ended, it     *)
(* waits for ever.)                                                         *)
StopEndsLoop == \A q \in Stoppers : stopper[q] = "blocked" ~> (~Running \/ crashed)

(* Nothing keeps the announcer from s: it is tracked, the loop was started, *)
(* no Stop was called, and every service up to s in the list fits.          *)
Announceable(s) ==
  /\ loop # "off" /\ ~crashed
  /\ \A q \in Stoppers : stopper[q] = "idle"
  /\ \E i \in DOMAIN services :
       /\ services[i] = s
       /\ \A j \in 1..i : Cardinality(actions[services[j]]) <= MaxActions

(* Such a service is found, with all the actions it has by then, from some   *)
(* time on and for good - whatever is lost, repeated or overtaken, and       *)
(* whichever announcements fail.                                             *)
EventuallyFound ==
  \A s \in Idents :
    <>[](\/ ~Announceable(s)
         \/ \E p \in DOMAIN heard : UpToDate(s, heard[p]) /\ DoScan(heard, TRUE).identIndex[s] = p)
=============================================================================
