--------------------------- MODULE AnnouncerProofs ---------------------------
(***************************************************************************)
(* Proofs about module Announcer, for any services, actions and calls of    *)
(* Stop: its type invariant, that nothing is sent after Stop, that what is  *)
(* on its way and in the cache file was registered, and that DoScan finds   *)
(* all of that file.                                                        *)
(***************************************************************************)
EXTENDS Announcer, ServiceCacheProofs

-----------------------------------------------------------------------------
(* The inductive invariant *)

(* serv.actions is a finite map: Register has a next name to insert.         *)
ActionsFinite == \A s \in Idents : IsFiniteSet(actions[s])

(* A round is over services that are tracked.                                *)
TodoInv == \A i \in 1..Len(todo) : Contains(services, todo[i])

(* The loop sends the signal of one Stop on, and is at its end.              *)
EndedInv == \A q \in Stoppers : stopper[q] = "returned" => loop = "ended"

(* An announcement names only actions that were registered with the service, *)
(* or are being registered, as MarshalText writes it.                        *)
Registered(d) ==
  /\ d.provides \subseteq actions[d.ident] \cup {inserting[d.ident]}
  /\ d.kind = "good" /\ ~d.runOn

AllRegistered == \A d \in text \cup air \cup Range(heard) : Registered(d)

(* The file holds at most one announcement of a service.                     *)
HeardOnce == \A p, q \in DOMAIN heard : heard[p].ident = heard[q].ident => p = q

IndInv ==
  /\ TypeOK /\ ActionsFinite /\ TodoInv /\ EndedInv /\ AllRegistered /\ HeardOnce

-----------------------------------------------------------------------------
(* Frames and the initial state *)

(* What each part of the invariant depends on.                               *)
LEMMA Frames ==
  /\ ServiceTypes /\ UNCHANGED <<actions, inserting>> => ServiceTypes'
  /\ LoopTypes /\ UNCHANGED <<services, loop, todo>> => LoopTypes'
  /\ TextTypes /\ UNCHANGED <<text, loop, todo>> => TextTypes'
  /\ NetTypes /\ UNCHANGED <<air, heard>> => NetTypes'
  /\ StopTypes /\ UNCHANGED <<stopper, crashed>> => StopTypes'
  /\ ActionsFinite /\ UNCHANGED actions => ActionsFinite'
  /\ TodoInv /\ UNCHANGED <<todo, services>> => TodoInv'
  /\ EndedInv /\ UNCHANGED <<stopper, loop>> => EndedInv'
  /\ AllRegistered /\ UNCHANGED <<text, air, heard, actions, inserting>> => AllRegistered'
  /\ HeardOnce /\ UNCHANGED heard => HeardOnce'
<1>1. ServiceTypes /\ UNCHANGED <<actions, inserting>> => ServiceTypes'
  BY DEF ServiceTypes
<1>2. LoopTypes /\ UNCHANGED <<services, loop, todo>> => LoopTypes'
  BY DEF LoopTypes
<1>3. TextTypes /\ UNCHANGED <<text, loop, todo>> => TextTypes'
  BY DEF TextTypes
<1>4. NetTypes /\ UNCHANGED <<air, heard>> => NetTypes'
  BY DEF NetTypes
<1>5. StopTypes /\ UNCHANGED <<stopper, crashed>> => StopTypes'
  BY DEF StopTypes
<1>6. ActionsFinite /\ UNCHANGED actions => ActionsFinite'
  BY DEF ActionsFinite
<1>7. TodoInv /\ UNCHANGED <<todo, services>> => TodoInv'
  BY DEF TodoInv
<1>8. EndedInv /\ UNCHANGED <<stopper, loop>> => EndedInv'
  BY DEF EndedInv
<1>9. AllRegistered /\ UNCHANGED <<text, air, heard, actions, inserting>> => AllRegistered'
  BY DEF AllRegistered, Registered
<1>10. HeardOnce /\ UNCHANGED heard => HeardOnce'
  BY DEF HeardOnce
<1> QED
  BY <1>1, <1>2, <1>3, <1>4, <1>5, <1>6, <1>7, <1>8, <1>9, <1>10

(* In the beginning nothing is registered or tracked.                        *)
LEMMA InitInv == Init => IndInv
<1> SUFFICES ASSUME Init PROVE IndInv
  OBVIOUS
<1>1. ServiceTypes /\ TextTypes /\ StopTypes /\ EndedInv
  BY DEF Init, ServiceTypes, TextTypes, StopTypes, EndedInv
<1>2. LoopTypes /\ NetTypes /\ TodoInv /\ HeardOnce
  BY DEF Init, LoopTypes, Loops, NetTypes, TodoInv, HeardOnce, IsInjective
<1>3. ActionsFinite
  BY FS_EmptySet DEF Init, ActionsFinite
<1>4. AllRegistered
  BY DEF Init, AllRegistered, Range
<1> QED
  BY <1>1, <1>2, <1>3, <1>4 DEF IndInv, TypeOK

-----------------------------------------------------------------------------
(* Facts of sequences, of the list of services and of the map *)

(* What Append does to a list of services or of announcements.               *)
LEMMA AppendFacts ==
  ASSUME NEW S, NEW s \in Seq(S), NEW x \in S
  PROVE  /\ Append(s, x) \in Seq(S)
         /\ Len(s) \in Nat /\ Len(Append(s, x)) = Len(s) + 1
         /\ \A i \in 1..Len(s) : Append(s, x)[i] = s[i]
         /\ Append(s, x)[Len(s) + 1] = x
         /\ DOMAIN Append(s, x) = 1..(Len(s) + 1) /\ DOMAIN s = 1..Len(s)
  OBVIOUS

(* What Tail does.                                                           *)
LEMMA TailFacts ==
  ASSUME NEW S, NEW s \in Seq(S), s # <<>>
  PROVE  /\ Tail(s) \in Seq(S)
         /\ Len(s) \in Nat \ {0} /\ Len(Tail(s)) = Len(s) - 1
         /\ \A i \in 1..(Len(s) - 1) : Tail(s)[i] = s[i + 1]
         /\ Head(s) = s[1] /\ Head(s) \in S
  OBVIOUS

(* The service in hand is one of the tracked.                                *)
LEMMA HandFacts ==
  ASSUME IndInv, todo # <<>>
  PROVE  /\ Head(todo) \in Idents
         /\ Contains(services, Head(todo))
         /\ Head(todo) \in Range(services)
<1>1. todo \in Seq(Idents) /\ services \in Seq(Idents)
  BY DEF IndInv, TypeOK, LoopTypes
<1>2. Head(todo) \in Idents /\ Head(todo) = todo[1] /\ 1 \in 1..Len(todo)
  BY <1>1
<1>3. Contains(services, Head(todo))
  BY DEF IndInv, TodoInv
<1>4. PICK i \in 1..Len(services) : services[i] = Head(todo)
  BY <1>3 DEF Contains
<1>5. i \in DOMAIN services
  OBVIOUS
<1> QED
  BY <1>2, <1>3, <1>4 DEF Range

(* What serviceAsServiceProxy finds are names, all registered.               *)
LEMMA MapFacts ==
  ASSUME IndInv, NEW s \in Idents, NEW found \in MapContents(s)
  PROVE  /\ found \subseteq Names
         /\ found \subseteq actions[s] \cup {inserting[s]}
<1>1. actions[s] \subseteq Names /\ inserting[s] \in Names \cup {NoName}
  BY DEF IndInv, TypeOK, ServiceTypes
<1>2. \/ found = actions[s]
      \/ inserting[s] # NoName /\ found = actions[s] \cup {inserting[s]}
  BY DEF MapContents
<1> QED
  BY <1>1, <1>2

(* What MarshalText writes.                                                  *)
LEMMA TextFacts ==
  ASSUME IndInv, Marshal
  PROVE  \E found \in MapContents(Head(todo)), a \in Addrs :
           text' = {[ident |-> Head(todo), provides |-> found, addr |-> a,
                     kind |-> "good", runOn |-> FALSE]}
<1>1. PICK a \in Addrs : a = CHOOSE b \in Addrs : TRUE
  BY RegistersAssumption
<1> QED
  BY <1>1 DEF Marshal

(* An announcement on its way or in the file names services and actions.     *)
LEMMA AnnouncedFacts ==
  ASSUME IndInv, NEW d \in text \cup air \cup Range(heard)
  PROVE  d.ident \in Idents /\ d.provides \subseteq Names /\ d \in Announcement
<1>1. heard \in Seq(Announcement) /\ air \subseteq Announcement /\ text \subseteq Announcement
  BY DEF IndInv, TypeOK, NetTypes, TextTypes
<1>2. Range(heard) \subseteq Announcement
  BY <1>1 DEF Range
<1>3. d \in Announcement
  BY <1>1, <1>2
<1> QED
  BY <1>3 DEF Announcement

-----------------------------------------------------------------------------
(* One lemma per operation *)

(* The name is one of the service's; a map that is being announced is noted. *)
LEMMA RegisterBeginInv ==
  ASSUME IndInv, NEW s \in Idents, RegisterBegin(s)
  PROVE  IndInv'
<1>1. LoopTypes' /\ TextTypes' /\ NetTypes' /\ StopTypes' /\ ActionsFinite' /\ TodoInv' /\ EndedInv' /\ HeardOnce'
  BY Frames DEF IndInv, TypeOK, RegisterBegin, loopVars, netVars
<1>2. ServiceTypes'
  <2>1. Cardinality(actions[s]) \in Nat
    BY FS_CardinalityType DEF IndInv, ActionsFinite
  <2>2. Registers[s] \in Seq(Names)
    BY RegistersAssumption
  <2>3. Registers[s][Cardinality(actions[s]) + 1] \in Names
    BY <2>1, <2>2 DEF RegisterBegin
  <2>4. inserting' \in [Idents -> Names \cup {NoName}]
    BY <2>3 DEF IndInv, TypeOK, ServiceTypes, RegisterBegin
  <2> QED
    BY <2>4 DEF IndInv, TypeOK, ServiceTypes, RegisterBegin
<1>3. AllRegistered'
  <2> SUFFICES ASSUME NEW d \in text \cup air \cup Range(heard) PROVE Registered(d)'
    BY DEF AllRegistered, RegisterBegin, loopVars, netVars
  <2>1. Registered(d) /\ d.provides \subseteq Names /\ NoName \notin Names
    BY AnnouncedFacts, RegistersAssumption DEF IndInv, AllRegistered
  <2>2. actions' = actions /\ (d.ident # s => inserting'[d.ident] = inserting[d.ident])
    BY DEF RegisterBegin
  <2>3. CASE d.ident = s
    BY <2>1 DEF Registered, RegisterBegin
  <2>4. CASE d.ident # s
    BY <2>1, <2>2, <2>4 DEF Registered
  <2> QED
    BY <2>3, <2>4
<1> QED
  BY <1>1, <1>2, <1>3 DEF IndInv, TypeOK

(* What is announced stays registered.                                       *)
LEMMA RegisterEndInv ==
  ASSUME IndInv, NEW s \in Idents, RegisterEnd(s)
  PROVE  IndInv'
<1>1. LoopTypes' /\ TextTypes' /\ NetTypes' /\ StopTypes' /\ TodoInv' /\ EndedInv' /\ HeardOnce'
  BY Frames DEF IndInv, TypeOK, RegisterEnd, loopVars, netVars
<1>2. ServiceTypes'
  BY DEF IndInv, TypeOK, ServiceTypes, RegisterEnd
<1>3. ActionsFinite'
  <2> SUFFICES ASSUME NEW t \in Idents PROVE IsFiniteSet(actions'[t])
    BY DEF ActionsFinite
  <2>1. actions'[t] = actions[t] \/ actions'[t] = actions[t] \cup {inserting[s]}
    BY DEF RegisterEnd
  <2>2. IsFiniteSet(actions[t])
    BY DEF IndInv, ActionsFinite
  <2>3. IsFiniteSet(actions[t] \cup {inserting[s]})
    BY <2>2, FS_AddElement
  <2> QED
    BY <2>1, <2>2, <2>3
<1>4. AllRegistered'
  <2> SUFFICES ASSUME NEW d \in text \cup air \cup Range(heard) PROVE Registered(d)'
    BY DEF AllRegistered, RegisterEnd, loopVars, netVars
  <2>1. Registered(d) /\ d.ident \in Idents
    BY AnnouncedFacts DEF IndInv, AllRegistered
  <2>2. CASE d.ident = s
    <3>1. actions'[s] = actions[s] \cup {inserting[s]}
      BY DEF IndInv, TypeOK, ServiceTypes, RegisterEnd
    <3> QED
      BY <2>1, <2>2, <3>1 DEF Registered
  <2>3. CASE d.ident # s
    <3>1. actions'[d.ident] = actions[d.ident] /\ inserting'[d.ident] = inserting[d.ident]
      BY <2>3 DEF RegisterEnd
    <3> QED
      BY <2>1, <3>1 DEF Registered
  <2> QED
    BY <2>2, <2>3
<1> QED
  BY <1>1, <1>2, <1>3, <1>4 DEF IndInv, TypeOK

(* A service is added at the end, once.                                      *)
LEMMA TrackInv ==
  ASSUME IndInv, NEW s \in Idents, Track(s)
  PROVE  IndInv'
<1>1. ServiceTypes' /\ TextTypes' /\ NetTypes' /\ StopTypes' /\ ActionsFinite' /\ EndedInv' /\ AllRegistered' /\ HeardOnce'
  BY Frames DEF IndInv, TypeOK, Track, serviceVars, netVars
<1>2. LoopTypes'
  <2>1. services \in Seq(Idents) /\ services' = Append(services, s)
    BY DEF IndInv, TypeOK, LoopTypes, Track
  <2>2. /\ services' \in Seq(Idents)
        /\ Len(services) \in Nat /\ Len(services') = Len(services) + 1
        /\ \A i \in 1..Len(services) : services'[i] = services[i]
        /\ services'[Len(services) + 1] = s
        /\ DOMAIN services' = 1..(Len(services) + 1) /\ DOMAIN services = 1..Len(services)
    BY <2>1
  <2>3. \A i \in 1..Len(services) : services[i] # s
    BY DEF Track, Contains
  <2>4. IsInjective(services)
    BY DEF IndInv, TypeOK, LoopTypes
  <2>5. IsInjective(services')
    BY <2>2, <2>3, <2>4 DEF IsInjective
  <2> QED
    BY <2>5 DEF IndInv, TypeOK, LoopTypes, Track
<1>3. TodoInv'
  <2>1. services \in Seq(Idents) /\ services' = Append(services, s)
    BY DEF IndInv, TypeOK, LoopTypes, Track
  <2>2. /\ services' \in Seq(Idents)
        /\ Len(services) \in Nat /\ Len(services') = Len(services) + 1
        /\ \A i \in 1..Len(services) : services'[i] = services[i]
        /\ services'[Len(services) + 1] = s
        /\ DOMAIN services' = 1..(Len(services) + 1) /\ DOMAIN services = 1..Len(services)
    BY <2>1
  <2>3. ASSUME NEW i \in 1..Len(todo) PROVE Contains(services', todo[i])
    <3>1. PICK j \in 1..Len(services) : services[j] = todo[i]
      BY DEF IndInv, TodoInv, Contains
    <3> QED
      BY <2>2, <3>1 DEF Contains
  <2> QED
    BY <2>3 DEF TodoInv, Track
<1> QED
  BY <1>1, <1>2, <1>3 DEF IndInv, TypeOK

(* The loop starts.                                                          *)
LEMMA AnnounceLoopInv ==
  ASSUME IndInv, AnnounceLoop
  PROVE  IndInv'
<1>1. ServiceTypes' /\ NetTypes' /\ StopTypes' /\ ActionsFinite' /\ TodoInv' /\ AllRegistered' /\ HeardOnce'
  BY Frames DEF IndInv, TypeOK, AnnounceLoop, serviceVars, netVars
<1>2. LoopTypes'
  BY DEF IndInv, TypeOK, AnnounceLoop, LoopTypes, Loops
<1>3. TextTypes'
  BY DEF IndInv, TypeOK, AnnounceLoop, TextTypes
<1>4. EndedInv'
  BY DEF IndInv, AnnounceLoop, EndedInv
<1> QED
  BY <1>1, <1>2, <1>3, <1>4 DEF IndInv, TypeOK

(* A call of Stop waits.                                                     *)
LEMMA StopInv ==
  ASSUME IndInv, NEW q \in Stoppers, Stop(q)
  PROVE  IndInv'
<1>1. ServiceTypes' /\ LoopTypes' /\ TextTypes' /\ NetTypes' /\ ActionsFinite' /\ TodoInv' /\ AllRegistered' /\ HeardOnce'
  BY Frames DEF IndInv, TypeOK, Stop, serviceVars, loopVars, netVars
<1>2. StopTypes'
  BY DEF IndInv, TypeOK, Stop, StopTypes
<1>3. EndedInv'
  BY DEF IndInv, Stop, EndedInv, loopVars
<1> QED
  BY <1>1, <1>2, <1>3 DEF IndInv, TypeOK

(* The loop has ended when Stop returns.                                     *)
LEMMA SelectStopInv ==
  ASSUME IndInv, NEW q \in Stoppers, SelectStop(q)
  PROVE  IndInv'
<1>1. ServiceTypes' /\ NetTypes' /\ ActionsFinite' /\ TodoInv' /\ AllRegistered' /\ HeardOnce'
  BY Frames DEF IndInv, TypeOK, SelectStop, serviceVars, netVars
<1>2. LoopTypes'
  BY DEF IndInv, TypeOK, SelectStop, LoopTypes, Loops
<1>3. TextTypes'
  BY DEF IndInv, TypeOK, SelectStop, TextTypes
<1>4. StopTypes'
  BY DEF IndInv, TypeOK, SelectStop, StopTypes
<1>5. EndedInv'
  BY DEF SelectStop, EndedInv
<1> QED
  BY <1>1, <1>2, <1>3, <1>4, <1>5 DEF IndInv, TypeOK

(* A round starts with the services that are tracked.                        *)
LEMMA SelectDefaultInv ==
  ASSUME IndInv, SelectDefault
  PROVE  IndInv'
<1>1. ServiceTypes' /\ NetTypes' /\ StopTypes' /\ ActionsFinite' /\ AllRegistered' /\ HeardOnce'
  BY Frames DEF IndInv, TypeOK, SelectDefault, serviceVars, netVars
<1>2. LoopTypes'
  BY DEF IndInv, TypeOK, SelectDefault, LoopTypes, Loops
<1>3. TextTypes'
  BY DEF IndInv, TypeOK, SelectDefault, TextTypes
<1>4. TodoInv'
  <2>1. todo' = services /\ services' = services
    BY DEF SelectDefault
  <2> QED
    BY <2>1 DEF TodoInv, Contains
<1>5. EndedInv'
  BY DEF IndInv, SelectDefault, EndedInv
<1> QED
  BY <1>1, <1>2, <1>3, <1>4, <1>5 DEF IndInv, TypeOK

(* A service is in hand.                                                     *)
LEMMA AnnounceNextInv ==
  ASSUME IndInv, AnnounceNext
  PROVE  IndInv'
<1>1. ServiceTypes' /\ NetTypes' /\ StopTypes' /\ ActionsFinite' /\ TodoInv' /\ AllRegistered' /\ HeardOnce'
  BY Frames DEF IndInv, TypeOK, AnnounceNext, serviceVars, netVars
<1>2. LoopTypes'
  BY DEF IndInv, TypeOK, AnnounceNext, LoopTypes, Loops
<1>3. TextTypes'
  BY DEF IndInv, TypeOK, AnnounceNext, TextTypes
<1>4. EndedInv'
  BY DEF IndInv, AnnounceNext, EndedInv
<1> QED
  BY <1>1, <1>2, <1>3, <1>4 DEF IndInv, TypeOK

(* The announcement is of the service in hand, and of what its map holds.    *)
LEMMA MarshalInv ==
  ASSUME IndInv, Marshal
  PROVE  IndInv'
<1>1. ServiceTypes' /\ NetTypes' /\ StopTypes' /\ ActionsFinite' /\ TodoInv' /\ HeardOnce'
  BY Frames DEF IndInv, TypeOK, Marshal, serviceVars, netVars
<1>2. LoopTypes'
  BY DEF IndInv, TypeOK, Marshal, LoopTypes, Loops
<1>3. TextTypes'
  <2>1. PICK found \in MapContents(Head(todo)), a \in Addrs :
          text' = {[ident |-> Head(todo), provides |-> found, addr |-> a,
                    kind |-> "good", runOn |-> FALSE]}
    BY TextFacts
  <2>2. Head(todo) \in Idents /\ todo' = todo /\ loop' = "send"
    BY DEF IndInv, TypeOK, LoopTypes, Marshal
  <2>3. found \subseteq Names
    BY <2>2, MapFacts
  <2>4. [ident |-> Head(todo), provides |-> found, addr |-> a,
         kind |-> "good", runOn |-> FALSE] \in Announcement
    BY <2>2, <2>3 DEF Announcement, Kinds
  <2>5. ASSUME NEW d \in text' PROVE d.ident = Head(todo) /\ d \in Announcement
    <3>1. d = [ident |-> Head(todo), provides |-> found, addr |-> a, kind |-> "good", runOn |-> FALSE]
      BY <2>1
    <3>2. d.ident = Head(todo)
      BY <3>1
    <3> QED
      BY <2>4, <3>1
  <2> QED
    BY <2>2, <2>5 DEF TextTypes
<1>4. EndedInv'
  BY DEF IndInv, Marshal, EndedInv
<1>5. AllRegistered'
  <2>1. PICK found \in MapContents(Head(todo)), a \in Addrs :
          text' = {[ident |-> Head(todo), provides |-> found, addr |-> a,
                    kind |-> "good", runOn |-> FALSE]}
    BY TextFacts
  <2>2. Head(todo) \in Idents
    BY DEF IndInv, TypeOK, LoopTypes, Marshal
  <2>3. found \subseteq actions[Head(todo)] \cup {inserting[Head(todo)]}
    BY <2>2, MapFacts
  <2>4. \A d \in text' : Registered(d)
    BY <2>1, <2>3 DEF Registered
  <2>5. \A d \in air \cup Range(heard) : Registered(d)
    BY DEF IndInv, AllRegistered
  <2> QED
    BY <2>4, <2>5 DEF AllRegistered, Registered, Marshal, serviceVars, netVars
<1> QED
  BY <1>1, <1>2, <1>3, <1>4, <1>5 DEF IndInv, TypeOK

(* There is no announcement.                                                 *)
LEMMA MarshalFailsInv ==
  ASSUME IndInv, MarshalFails
  PROVE  IndInv'
<1>1. ServiceTypes' /\ NetTypes' /\ StopTypes' /\ ActionsFinite' /\ TodoInv' /\ HeardOnce'
  BY Frames DEF IndInv, TypeOK, MarshalFails, serviceVars, netVars
<1>2. LoopTypes'
  BY DEF IndInv, TypeOK, MarshalFails, LoopTypes, Loops
<1>3. TextTypes'
  BY DEF MarshalFails, TextTypes
<1>4. EndedInv'
  BY DEF IndInv, MarshalFails, EndedInv
<1>5. AllRegistered'
  BY DEF IndInv, MarshalFails, AllRegistered, Registered, serviceVars, netVars
<1> QED
  BY <1>1, <1>2, <1>3, <1>4, <1>5 DEF IndInv, TypeOK

(* The map was being written, which was noted, or holds a name without a     *)
(* dot.                                                                      *)
LEMMA MarshalPanicsInv ==
  ASSUME IndInv, MarshalPanics
  PROVE  IndInv'
<1>1. ServiceTypes' /\ LoopTypes' /\ TextTypes' /\ NetTypes' /\ ActionsFinite' /\ TodoInv' /\ EndedInv' /\ AllRegistered' /\ HeardOnce'
  BY Frames DEF IndInv, TypeOK, MarshalPanics, serviceVars, loopVars, netVars
<1>2. StopTypes'
  BY DEF IndInv, TypeOK, MarshalPanics, StopTypes
<1> QED
  BY <1>1, <1>2 DEF IndInv, TypeOK

(* The announcement is on its way.                                           *)
LEMMA WriteToInv ==
  ASSUME IndInv, WriteTo
  PROVE  IndInv'
<1>1. ServiceTypes' /\ StopTypes' /\ ActionsFinite' /\ HeardOnce'
  BY Frames DEF IndInv, TypeOK, WriteTo, serviceVars
<1>2. LoopTypes'
  <2>1. todo' \in Seq(Idents)
    BY DEF IndInv, TypeOK, LoopTypes, WriteTo
  <2> QED
    BY DEF IndInv, TypeOK, LoopTypes, Loops, WriteTo
<1>3. TextTypes'
  BY DEF WriteTo, TextTypes
<1>4. NetTypes'
  <2>1. text \subseteq Announcement
    BY DEF IndInv, TypeOK, TextTypes
  <2> QED
    BY <2>1 DEF IndInv, TypeOK, NetTypes, WriteTo
<1>5. TodoInv'
  <2>1. todo \in Seq(Idents) /\ todo # <<>> /\ todo' = Tail(todo)
    BY DEF IndInv, TypeOK, LoopTypes, WriteTo
  <2>2. /\ Len(todo) \in Nat /\ Len(todo') = Len(todo) - 1
        /\ \A i \in 1..(Len(todo) - 1) : todo'[i] = todo[i + 1]
    BY <2>1
  <2>3. services' = services
    BY DEF WriteTo
  <2>4. ASSUME NEW i \in 1..Len(todo') PROVE Contains(services, todo'[i])
    BY <2>2 DEF IndInv, TodoInv
  <2> QED
    BY <2>3, <2>4 DEF TodoInv
<1>6. EndedInv'
  BY DEF IndInv, WriteTo, EndedInv
<1>7. AllRegistered'
  BY DEF IndInv, WriteTo, AllRegistered, Registered, serviceVars
<1> QED
  BY <1>1, <1>2, <1>3, <1>4, <1>5, <1>6, <1>7 DEF IndInv, TypeOK

(* The round is given up.                                                    *)
LEMMA WriteFailsInv ==
  ASSUME IndInv, WriteFails
  PROVE  IndInv'
<1>1. ServiceTypes' /\ NetTypes' /\ StopTypes' /\ ActionsFinite' /\ HeardOnce'
  BY Frames DEF IndInv, TypeOK, WriteFails, serviceVars, netVars
<1>2. LoopTypes'
  <2>1. todo' \in Seq(Idents)
    BY DEF WriteFails
  <2> QED
    BY DEF IndInv, TypeOK, LoopTypes, Loops, WriteFails
<1>3. TextTypes'
  BY DEF WriteFails, TextTypes
<1>4. TodoInv'
  BY DEF TodoInv, WriteFails
<1>5. EndedInv'
  BY DEF IndInv, WriteFails, EndedInv
<1>6. AllRegistered'
  BY DEF IndInv, WriteFails, AllRegistered, Registered, serviceVars, netVars
<1> QED
  BY <1>1, <1>2, <1>3, <1>4, <1>5, <1>6 DEF IndInv, TypeOK

(* The next round.                                                           *)
LEMMA WakeInv ==
  ASSUME IndInv, Wake
  PROVE  IndInv'
<1>1. ServiceTypes' /\ NetTypes' /\ StopTypes' /\ ActionsFinite' /\ TodoInv' /\ AllRegistered' /\ HeardOnce'
  BY Frames DEF IndInv, TypeOK, Wake, serviceVars, netVars
<1>2. LoopTypes'
  BY DEF IndInv, TypeOK, Wake, LoopTypes, Loops
<1>3. TextTypes'
  BY DEF IndInv, TypeOK, Wake, TextTypes
<1>4. EndedInv'
  BY DEF IndInv, Wake, EndedInv
<1> QED
  BY <1>1, <1>2, <1>3, <1>4 DEF IndInv, TypeOK

(* A datagram is lost.                                                       *)
LEMMA LoseInv ==
  ASSUME IndInv, NEW d \in air, Lose(d)
  PROVE  IndInv'
<1>1. ServiceTypes' /\ LoopTypes' /\ TextTypes' /\ StopTypes' /\ ActionsFinite' /\ TodoInv' /\ EndedInv' /\ HeardOnce'
  BY Frames DEF IndInv, TypeOK, Lose, serviceVars, loopVars
<1>2. NetTypes'
  BY DEF IndInv, TypeOK, Lose, NetTypes
<1>3. AllRegistered'
  BY DEF IndInv, Lose, AllRegistered, Registered, serviceVars, loopVars
<1> QED
  BY <1>1, <1>2, <1>3 DEF IndInv, TypeOK

(* The announcement takes the place of the last one of its service, or a new *)
(* one.                                                                      *)
LEMMA HearInv ==
  ASSUME IndInv, NEW d \in air, Hear(d)
  PROVE  IndInv'
<1>1. ServiceTypes' /\ LoopTypes' /\ TextTypes' /\ StopTypes' /\ ActionsFinite' /\ TodoInv' /\ EndedInv'
  BY Frames DEF IndInv, TypeOK, Hear, serviceVars, loopVars
<1>2. NetTypes'
  <2>1. heard \in Seq(Announcement) /\ d \in Announcement /\ air' = air
    BY DEF IndInv, TypeOK, NetTypes, Hear
  <2>2. CASE \E p \in DOMAIN heard : heard[p].ident = d.ident
    <3>1. heard' = [p \in DOMAIN heard |-> IF heard[p].ident = d.ident THEN d ELSE heard[p]]
      BY <2>2 DEF Hear
    <3>2. heard' \in Seq(Announcement)
      BY <2>1, <3>1
    <3> QED
      BY <2>1, <3>2 DEF IndInv, TypeOK, NetTypes
  <2>3. CASE ~\E p \in DOMAIN heard : heard[p].ident = d.ident
    <3>1. heard' = Append(heard, d)
      BY <2>3 DEF Hear
    <3>2. heard' \in Seq(Announcement)
      BY <2>1, <3>1
    <3> QED
      BY <2>1, <3>2 DEF IndInv, TypeOK, NetTypes
  <2> QED
    BY <2>2, <2>3
<1>3. AllRegistered'
  <2>1. heard \in Seq(Announcement) /\ d \in Announcement /\ air' = air
    BY DEF IndInv, TypeOK, NetTypes, Hear
  <2>2. Range(heard') \subseteq Range(heard) \cup {d}
    <3>1. CASE \E p \in DOMAIN heard : heard[p].ident = d.ident
      BY <3>1 DEF Hear, Range
    <3>2. CASE ~\E p \in DOMAIN heard : heard[p].ident = d.ident
      <4>1. heard' = Append(heard, d)
        BY <3>2 DEF Hear
      <4>2. \A p \in DOMAIN heard' : (p \in DOMAIN heard /\ heard'[p] = heard[p]) \/ heard'[p] = d
        BY <4>1
      <4> QED
        BY <4>2 DEF Range
    <3> QED
      BY <3>1, <3>2
  <2> QED
    BY <2>2 DEF IndInv, AllRegistered, Registered, Hear, serviceVars, loopVars
<1>4. HeardOnce'
  <2>1. heard \in Seq(Announcement) /\ d \in Announcement /\ air' = air
    BY DEF IndInv, TypeOK, NetTypes, Hear
  <2>2. CASE \E p \in DOMAIN heard : heard[p].ident = d.ident
    <3>1. heard' = [p \in DOMAIN heard |-> IF heard[p].ident = d.ident THEN d ELSE heard[p]]
      BY <2>2 DEF Hear
    <3>2. \A p \in DOMAIN heard : heard'[p].ident = heard[p].ident
      BY <3>1
    <3> QED
      BY <3>1 DEF IndInv, HeardOnce
  <2>3. CASE ~\E p \in DOMAIN heard : heard[p].ident = d.ident
    <3>1. heard' = Append(heard, d)
      BY <2>3 DEF Hear
    <3>2. /\ DOMAIN heard = 1..Len(heard) /\ DOMAIN heard' = 1..(Len(heard) + 1)
          /\ Len(heard) \in Nat /\ heard'[Len(heard) + 1] = d
          /\ \A p \in 1..Len(heard) : heard'[p] = heard[p]
      BY <3>1
    <3>3. ASSUME NEW p \in DOMAIN heard'
          PROVE  \/ p \in DOMAIN heard /\ heard'[p] = heard[p]
                 \/ p = Len(heard) + 1 /\ heard'[p] = d
      <4>1. p \in 1..Len(heard) \/ p = Len(heard) + 1
        BY <3>2
      <4> QED
        BY <3>2
    <3> QED
      BY <2>3, <3>3 DEF IndInv, HeardOnce
  <2> QED
    BY <2>2, <2>3
<1> QED
  BY <1>1, <1>2, <1>3, <1>4 DEF IndInv, TypeOK

-----------------------------------------------------------------------------
(* The invariant and the theorems *)

(* Every step preserves the invariant.                                       *)
LEMMA StepInv == IndInv /\ [Next]_vars => IndInv'
<1> SUFFICES ASSUME IndInv, [Next]_vars PROVE IndInv'
  OBVIOUS
<1>1. ASSUME NEW s \in Idents, Track(s) \/ RegisterBegin(s) \/ RegisterEnd(s) PROVE IndInv'
  BY <1>1, TrackInv, RegisterBeginInv, RegisterEndInv
<1>2. ASSUME NEW q \in Stoppers, Stop(q) \/ SelectStop(q) PROVE IndInv'
  BY <1>2, StopInv, SelectStopInv
<1>3. CASE \/ SelectDefault \/ AnnounceNext \/ Marshal \/ MarshalFails \/ MarshalPanics
           \/ WriteTo \/ WriteFails \/ Wake \/ AnnounceLoop
  BY <1>3, SelectDefaultInv, AnnounceNextInv, MarshalInv, MarshalFailsInv, MarshalPanicsInv,
     WriteToInv, WriteFailsInv, WakeInv, AnnounceLoopInv
<1>4. ASSUME NEW d \in air, Lose(d) \/ Hear(d) PROVE IndInv'
  BY <1>4, LoseInv, HearInv
<1>5. CASE UNCHANGED vars
  BY <1>5, Frames DEF IndInv, TypeOK, vars, serviceVars, loopVars, netVars
<1> QED
  BY <1>1, <1>2, <1>3, <1>4, <1>5 DEF Next, LoopStep

(* It holds of every reachable state.                                        *)
LEMMA Invariant == Spec => []IndInv
  BY InitInv, StepInv, PTL DEF Spec

(* The type invariant of the service, the announcer and the network.         *)
THEOREM TypeCorrect == Spec => []TypeOK
<1>1. IndInv => TypeOK
  BY DEF IndInv
<1> QED
  BY <1>1, Invariant, PTL

(* However the daemon hears announcements, lost, repeated and reordered: the *)
(* cache file holds at most one for every service, and neither it nor the    *)
(* network holds an action that Register was not called for.                 *)
THEOREM AnnouncedWasRegistered == Spec => [](AllRegistered /\ HeardOnce)
<1>1. IndInv => AllRegistered /\ HeardOnce
  BY DEF IndInv
<1> QED
  BY <1>1, Invariant, PTL

(* The loop that took the signal of Stop has ended, with no text left over.  *)
LEMMA StepSilent ==
  ASSUME IndInv, [Next]_vars, NEW k \in Stoppers, stopper[k] = "returned"
  PROVE  air' \subseteq air /\ text' = {}
<1>1. loop = "ended" /\ text = {}
  BY DEF IndInv, TypeOK, TextTypes, EndedInv
<1>2. ASSUME NEW s \in Idents, Track(s) \/ RegisterBegin(s) \/ RegisterEnd(s)
      PROVE  air' = air /\ text' = text
  BY <1>2 DEF Track, RegisterBegin, RegisterEnd, loopVars, netVars
<1>3. ASSUME NEW q \in Stoppers, Stop(q) \/ SelectStop(q)
      PROVE  air' = air /\ text' = text
  BY <1>3 DEF Stop, SelectStop, loopVars, netVars
<1>4. CASE SelectDefault \/ AnnounceNext \/ Marshal \/ MarshalFails \/ MarshalPanics
  BY <1>1, <1>4 DEF SelectDefault, AnnounceNext, Marshal, MarshalFails, MarshalPanics
<1>5. CASE WriteTo \/ WriteFails \/ Wake \/ AnnounceLoop
  BY <1>1, <1>5 DEF WriteTo, WriteFails, Wake, AnnounceLoop
<1>6. ASSUME NEW d \in air, Lose(d) \/ Hear(d) PROVE air' \subseteq air /\ text' = text
  BY <1>6 DEF Lose, Hear, loopVars
<1>7. CASE UNCHANGED vars
  BY <1>1, <1>7 DEF vars, loopVars, netVars
<1> QED
  BY <1>1, <1>2, <1>3, <1>4, <1>5, <1>6, <1>7 DEF Next, LoopStep

(* After Stop has returned, the announcer sends and writes nothing more,     *)
(* whoever else calls Stop, tracks or registers services.                    *)
THEOREM StopIsSilent == Spec => StoppedIsSilent
<1>1. IndInv /\ [Next]_vars
        => [(\E q \in Stoppers : stopper[q] = "returned") => air' \subseteq air /\ text' = {}]_vars
  BY StepSilent
<1> QED
  BY <1>1, Invariant, PTL DEF Spec, StoppedIsSilent

-----------------------------------------------------------------------------
(* What is announced is found *)

(* A file of announcements as MarshalText writes them, one for each service: *)
(* none uses up the separator of the next or ends the scan.                  *)
LEMMA AllFound ==
  ASSUME NEW recs \in Seq(Announcement),
         \A p \in DOMAIN recs : recs[p].kind = "good" /\ ~recs[p].runOn
  PROVE  Found(recs) = DOMAIN recs /\ Accepted(recs, TRUE) = DOMAIN recs
<1>1. DOMAIN recs = 1..Len(recs) /\ Len(recs) \in Nat
  OBVIOUS
<1>2. \A p \in DOMAIN recs : ~UsesUpSeparator(recs[p])
  BY DEF UsesUpSeparator
<1>3. ASSUME NEW p \in DOMAIN recs PROVE ~Lost(recs, p)
  <2>1. CASE p = 1
    BY <2>1, LostStep
  <2>2. CASE p # 1
    <3>1. PICK q \in Nat \ {0} : p = q + 1 /\ q \in DOMAIN recs
      <4>1. p - 1 \in Nat \ {0} /\ p = (p - 1) + 1 /\ p - 1 \in DOMAIN recs
        BY <1>1, <2>2
      <4> QED
        BY <4>1
    <3>2. ~UsesUpSeparator(recs[q])
      BY <1>2, <3>1
    <3> QED
      BY <3>1, <3>2, LostStep
  <2> QED
    BY <2>1, <2>2
<1>4. \A p \in DOMAIN recs : ~EndsScan(recs, p)
  BY DEF EndsScan
<1>5. \A p \in DOMAIN recs : \A q \in 1..p : q \in DOMAIN recs
  BY <1>1
<1>6. Found(recs) = DOMAIN recs
  BY <1>3, <1>4, <1>5 DEF Found
<1> QED
  BY <1>6 DEF Accepted

(* The one announcement of a service is the one indexed.                     *)
LEMMA OnlyOne ==
  ASSUME NEW recs \in Seq(Announcement), NEW p \in DOMAIN recs,
         Found(recs) = DOMAIN recs, Accepted(recs, TRUE) = DOMAIN recs,
         \A q \in DOMAIN recs : recs[q].ident = recs[p].ident => q = p
  PROVE  ByIdent(recs, TRUE, recs[p].ident) = p
<1> DEFINE mine == {q \in Found(recs) : recs[q].ident = recs[p].ident}
           final == {q \in mine : \A r \in mine : r <= q} \cap Accepted(recs, TRUE)
<1>1. p \in Nat /\ p <= p
  OBVIOUS
<1>2. mine = {p}
  OBVIOUS
<1>3. final = {p}
  BY <1>1, <1>2
<1>4. ByIdent(recs, TRUE, recs[p].ident) = IF final = {} THEN 0 ELSE CHOOSE q \in final : TRUE
  BY DEF ByIdent
<1> HIDE DEF final
<1> QED
  BY <1>3, <1>4

(* The daemon's file is such a file, and the scan reads all of it.           *)
LEMMA FoundMeans == IndInv => AnnouncedIsFound
<1> SUFFICES ASSUME IndInv PROVE AnnouncedIsFound
  OBVIOUS
<1>1. PICK recs \in Seq(Announcement) : recs = heard
  BY DEF IndInv, TypeOK, NetTypes
<1>2. \A p \in DOMAIN recs : Registered(recs[p])
  <2>1. \A p \in DOMAIN recs : recs[p] \in Range(recs)
    BY DEF Range
  <2> QED
    BY <1>1, <2>1 DEF IndInv, AllRegistered
<1>3. Found(recs) = DOMAIN recs /\ Accepted(recs, TRUE) = DOMAIN recs
  <2>1. \A p \in DOMAIN recs : recs[p].kind = "good" /\ ~recs[p].runOn
    BY <1>2 DEF Registered
  <2> QED
    BY <2>1, AllFound
<1>4. \A p \in DOMAIN recs : recs[p] \in Announcement
  OBVIOUS
<1>5. \A p \in DOMAIN recs : recs[p].ident \in Idents /\ recs[p].provides \subseteq Names
  BY <1>4 DEF Announcement
<1>6. PICK cache \in ScanType(recs) : /\ cache = DoScan(recs, TRUE)
                                      /\ IndexOK(recs, TRUE, cache)
                                      /\ ExactIndexes(recs, TRUE, cache)
  BY ScanIsSound, ScanIsExact
<1>7. ASSUME NEW p \in DOMAIN recs PROVE cache.identIndex[recs[p].ident] = p
  <2>1. \A q \in DOMAIN recs : recs[q].ident = recs[p].ident => q = p
    BY <1>1 DEF IndInv, HeardOnce
  <2>2. ByIdent(recs, TRUE, recs[p].ident) = p
    BY <1>3, <2>1, OnlyOne
  <2> QED
    BY <1>5, <1>6, <2>2 DEF ExactIndexes
<1>8. ASSUME NEW a \in Actions, NEW p \in DOMAIN recs
      PROVE  Cardinality({k \in DOMAIN cache.actionIndex[a] : cache.actionIndex[a][k] = p})
               = Cardinality({n \in recs[p].provides : ToLower[n] = a})
  <2>1. ByAction(recs, TRUE, a, p) = Cardinality({n \in recs[p].provides : ToLower[n] = a})
    BY <1>3 DEF ByAction
  <2> QED
    BY <1>6, <2>1 DEF ExactIndexes
<1>9. ASSUME NEW a \in Actions, NEW p \in Range(cache.actionIndex[a])
      PROVE  \E n \in actions[recs[p].ident] \cup {inserting[recs[p].ident]} :
               n \in Names /\ ToLower[n] = a
  <2>1. PICK s \in Seq(DOMAIN recs) : s = cache.actionIndex[a]
    BY <1>6 DEF ScanType
  <2>2. PICK k \in 1..Len(s) : p = s[k]
    BY <2>1 DEF Range
  <2>3. p \in DOMAIN recs
    BY <2>1, <2>2
  <2>4. \E n \in recs[p].provides : ToLower[n] = a
    BY <1>6, <2>1, <2>2 DEF IndexOK
  <2> QED
    BY <1>2, <1>5, <2>3, <2>4 DEF Registered
<1>10. DoScan(heard, TRUE) = cache
  BY <1>1, <1>6
<1>11. \A p \in DOMAIN heard : DoScan(heard, TRUE).identIndex[heard[p].ident] = p
  BY <1>1, <1>7, <1>10
<1>12. ASSUME NEW a \in Actions, NEW p \in DOMAIN heard
       PROVE  Cardinality({k \in DOMAIN DoScan(heard, TRUE).actionIndex[a] : DoScan(heard, TRUE).actionIndex[a][k] = p})
                = Cardinality({n \in heard[p].provides : ToLower[n] = a})
  <2>1. {k \in DOMAIN DoScan(heard, TRUE).actionIndex[a] : DoScan(heard, TRUE).actionIndex[a][k] = p}
          = {k \in DOMAIN cache.actionIndex[a] : cache.actionIndex[a][k] = p}
    BY <1>10
  <2>2. Cardinality({k \in DOMAIN cache.actionIndex[a] : cache.actionIndex[a][k] = p})
          = Cardinality({n \in recs[p].provides : ToLower[n] = a})
    BY <1>1, <1>8
  <2> QED
    BY <1>1, <2>1, <2>2
<1>13. \A a \in Actions : \A p \in Range(DoScan(heard, TRUE).actionIndex[a]) :
         \E n \in actions[heard[p].ident] \cup {inserting[heard[p].ident]} : n \in Names /\ ToLower[n] = a
  BY <1>1, <1>9, <1>10
<1> QED
  BY <1>11, <1>12, <1>13, Zenon DEF AnnouncedIsFound

(* Whatever the daemon heard of a service, a process that reads its file     *)
(* finds: the service by its ident, once for each of its actions, and no     *)
(* service under an action that it did not register or is registering -      *)
(* for any number of services and actions, whatever datagrams are lost,      *)
(* repeated or overtaken (MarshalText against DoScan).                       *)
THEOREM AnnouncementsAreFound == Spec => []AnnouncedIsFound
  BY Invariant, FoundMeans, PTL

=============================================================================
