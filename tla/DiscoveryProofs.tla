--------------------------- MODULE DiscoveryProofs ---------------------------
(***************************************************************************)
(* Proofs about module Discovery, for any files, requests and goroutines:   *)
(* that the refresher never runs two loops and dereferences no nil as long  *)
(* as its users take turns; that the indexes are exact; that requests only  *)
(* reach services that announced the action, that nothing dangles, and that *)
(* GetClient replaces no open client.  The first two rest on an invariant   *)
(* of the refresher, the indexes on ScanIsExact, the others on an invariant *)
(* of requests, proxies and clients.                                        *)
(***************************************************************************)
EXTENDS Discovery, ServiceCacheProofs

-----------------------------------------------------------------------------
(* The refresher: its inductive invariant *)

(* A Run that has set running, and has not started its goroutine yet.        *)
Claims(o) == owner[o].pc \in {"context", "cancel"}

(* running is 1 when one Run claims it or one goroutine runs, never both.    *)
OneInv ==
  /\ running \in {0, 1}
  /\ running = 0 => \A o \in Owners : ~Claims(o) /\ LoopAt(o, "off")
  /\ running = 1 => \E o \in Owners :
                      /\ Claims(o) <=> LoopAt(o, "off")
                      /\ \A q \in Owners \ {o} : ~Claims(q) /\ LoopAt(q, "off")

(* A local context lasts as long as it is used.                              *)
CtxInv ==
  \A o \in Owners :
    /\ owner[o].ctx # NoContext <=> OwnerAt(o, "cancel")
    /\ LoopAt(o, "off") => loop[o].ctx = NoContext

(* While the owners take turns only one of them is in a call; the context is *)
(* there from its assignment to the end of the goroutine, and cancel from    *)
(* Stop's check to its call.                                                 *)
TurnInv ==
  ~overlapped =>
    /\ \A o, q \in Owners : ~OwnerAt(o, "idle") /\ ~OwnerAt(q, "idle") => o = q
    /\ \A o \in Owners : OwnerAt(o, "cancel") \/ ~LoopAt(o, "off") => context # NoContext
    /\ \A o \in Owners : OwnerAt(o, "call") => cancel # NoContext

RefresherInv == RefresherTypes /\ OneInv /\ CtxInv /\ TurnInv

(* There are contexts enough to tell a new one from two others.              *)
LEMMA ContextsExist ==
  ASSUME NEW o \in Owners
  PROVE  1 \in Contexts /\ 2 \in Contexts /\ 3 \in Contexts /\ NoContext \notin Contexts
<1>1. Cardinality(Owners) \in Nat /\ Cardinality(Owners) # 0
  BY OwnersAssumption, FS_CardinalityType, FS_EmptySet
<1> QED
  BY <1>1 DEF Contexts, NoContext

(* The goroutine that runs is the only one, and no Run claims to start one.  *)
LEMMA OnlyLoop ==
  ASSUME RefresherInv, NEW o \in Owners, ~LoopAt(o, "off")
  PROVE  /\ running = 1 /\ ~Claims(o)
         /\ \A q \in Owners \ {o} : ~Claims(q) /\ LoopAt(q, "off")
  BY DEF RefresherInv, OneInv

(* The same of a Run that claims to.                                         *)
LEMMA OnlyClaim ==
  ASSUME RefresherInv, NEW o \in Owners, Claims(o)
  PROVE  /\ running = 1 /\ LoopAt(o, "off")
         /\ \A q \in Owners \ {o} : ~Claims(q) /\ LoopAt(q, "off")
  BY DEF RefresherInv, OneInv

(* The context Run makes is none of those in use.                            *)
LEMMA NewContext ==
  ASSUME RefresherInv, NEW o \in Owners, RunContext(o)
  PROVE  \E new \in Contexts :
           /\ context' = new /\ done' = done \ {new}
           /\ owner' = [owner EXCEPT ![o] = [pc |-> "cancel", ctx |-> new]]
<1> DEFINE used == {context, cancel} \cup {owner[q].ctx : q \in Owners} \cup {loop[q].ctx : q \in Owners}
<1>1. \A q \in Owners : ~OwnerAt(q, "cancel") /\ LoopAt(q, "off")
  BY OnlyClaim DEF RunContext, Claims, OwnerAt
<1>2. \A q \in Owners : owner[q].ctx = NoContext /\ loop[q].ctx = NoContext
  BY <1>1 DEF RefresherInv, CtxInv
<1>3. used \subseteq {context, cancel, NoContext}
  BY <1>2
<1>4. \E c \in Contexts : c \notin used
  BY <1>3, ContextsExist
<1>5. PICK new : new = CHOOSE c \in Contexts : c \notin used
  OBVIOUS
<1>6. new \in Contexts
  BY <1>4, <1>5
<1>7. /\ context' = new /\ done' = done \ {new}
      /\ owner' = [owner EXCEPT ![o] = [pc |-> "cancel", ctx |-> new]]
  BY <1>5 DEF RunContext
<1> QED
  BY <1>6, <1>7

(* What each part of the invariant depends on.                               *)
LEMMA RefresherFrames ==
  /\ RefresherTypes /\ UNCHANGED <<context, cancel, done, owner, loop, overlapped>> => RefresherTypes'
  /\ OneInv /\ UNCHANGED <<running, owner, loop>> => OneInv'
  /\ CtxInv /\ UNCHANGED <<owner, loop>> => CtxInv'
  /\ TurnInv /\ UNCHANGED <<overlapped, owner, loop, context, cancel>> => TurnInv'
<1>1. RefresherTypes /\ UNCHANGED <<context, cancel, done, owner, loop, overlapped>> => RefresherTypes'
  BY DEF RefresherTypes
<1>2. OneInv /\ UNCHANGED <<running, owner, loop>> => OneInv'
  BY DEF OneInv, Claims, LoopAt
<1>3. CtxInv /\ UNCHANGED <<owner, loop>> => CtxInv'
  BY DEF CtxInv, OwnerAt, LoopAt
<1>4. TurnInv /\ UNCHANGED <<overlapped, owner, loop, context, cancel>> => TurnInv'
  BY DEF TurnInv, OwnerAt, LoopAt
<1> QED
  BY <1>1, <1>2, <1>3, <1>4

-----------------------------------------------------------------------------
(* The refresher: one lemma per operation *)

(* Nobody else has claimed running, and no goroutine runs.                   *)
LEMMA RunClaimInv ==
  ASSUME RefresherInv, NEW o \in Owners, RunClaim(o)
  PROVE  RefresherInv'
<1>1. RefresherTypes'
  BY DEF RefresherInv, RunClaim, RefresherTypes, OwnerPcs, LoopPcs, Begin, OwnerAt, OwnerGoto, LoopAt, LoopGoto, ownerVars
<1>2. OneInv'
  BY DEF RefresherInv, RunClaim, OneInv, RefresherTypes, Claims, Begin, OwnerAt, OwnerGoto, LoopAt, LoopGoto, ownerVars
<1>3. CtxInv'
  BY DEF RefresherInv, RunClaim, CtxInv, RefresherTypes, Begin, OwnerAt, OwnerGoto, LoopAt, LoopGoto, ownerVars
<1>4. TurnInv'
  <2> SUFFICES ASSUME ~overlapped' PROVE TurnInv'
    BY DEF TurnInv
  <2>1. ~overlapped /\ \A q \in Owners \ {o} : OwnerAt(q, "idle")
    BY DEF RunClaim, Begin
  <2>2. owner'[o].pc = "context" /\ \A q \in Owners \ {o} : owner'[q] = owner[q]
    BY DEF RunClaim, OwnerGoto, RefresherInv, RefresherTypes
  <2>3. \A q \in Owners : LoopAt(q, "off")'
    BY DEF RunClaim, RefresherInv, OneInv, LoopAt
  <2> QED
    BY <2>1, <2>2, <2>3 DEF TurnInv, OwnerAt
<1> QED
  BY <1>1, <1>2, <1>3, <1>4 DEF RefresherInv

(* No other context is in use but context and cancel: the new one differs.   *)
LEMMA RunContextInv ==
  ASSUME RefresherInv, NEW o \in Owners, RunContext(o)
  PROVE  RefresherInv'
<1>1. RefresherTypes'
  <2>1. PICK new \in Contexts :
          /\ context' = new /\ done' = done \ {new}
          /\ owner' = [owner EXCEPT ![o] = [pc |-> "cancel", ctx |-> new]]
    BY NewContext
  <2>2. UNCHANGED <<cancel, running, loop, overlapped>> /\ OwnerAt(o, "context")
    BY DEF RunContext
  <2> QED
    BY <2>1, <2>2 DEF RefresherInv, RefresherTypes, OwnerPcs
<1>2. OneInv'
  <2>1. PICK new \in Contexts :
          /\ context' = new /\ done' = done \ {new}
          /\ owner' = [owner EXCEPT ![o] = [pc |-> "cancel", ctx |-> new]]
    BY NewContext
  <2>2. UNCHANGED <<cancel, running, loop, overlapped>> /\ OwnerAt(o, "context")
    BY DEF RunContext
  <2>3. \A q \in Owners : Claims(q)' <=> Claims(q)
    BY <2>1, <2>2 DEF RefresherInv, RefresherTypes, Claims, OwnerAt
  <2> QED
    BY <2>2, <2>3 DEF RefresherInv, OneInv, LoopAt
<1>3. CtxInv'
  <2>1. PICK new \in Contexts :
          /\ context' = new /\ done' = done \ {new}
          /\ owner' = [owner EXCEPT ![o] = [pc |-> "cancel", ctx |-> new]]
    BY NewContext
  <2>2. UNCHANGED <<cancel, running, loop, overlapped>> /\ OwnerAt(o, "context")
    BY DEF RunContext
  <2>3. new # NoContext
    BY ContextsExist
  <2>4. /\ owner'[o].ctx = new /\ owner'[o].pc = "cancel"
        /\ \A q \in Owners \ {o} : owner'[q] = owner[q]
    BY <2>1 DEF RefresherInv, RefresherTypes
  <2> QED
    BY <2>2, <2>3, <2>4 DEF RefresherInv, CtxInv, OwnerAt, LoopAt
<1>4. TurnInv'
  <2>1. PICK new \in Contexts :
          /\ context' = new /\ done' = done \ {new}
          /\ owner' = [owner EXCEPT ![o] = [pc |-> "cancel", ctx |-> new]]
    BY NewContext
  <2>2. UNCHANGED <<cancel, running, loop, overlapped>> /\ OwnerAt(o, "context")
    BY DEF RunContext
  <2> SUFFICES ASSUME ~overlapped PROVE TurnInv'
    BY <2>2 DEF TurnInv
  <2>3. context' # NoContext
    BY <2>1, ContextsExist
  <2>4. owner'[o].pc = "cancel" /\ \A q \in Owners \ {o} : owner'[q] = owner[q]
    BY <2>1 DEF RefresherInv, RefresherTypes
  <2>5. \A q \in Owners : ~OwnerAt(q, "idle")' => q = o
    BY <2>2, <2>4 DEF RefresherInv, TurnInv, OwnerAt
  <2> QED
    BY <2>3, <2>4, <2>5 DEF TurnInv, OwnerAt
<1> QED
  BY <1>1, <1>2, <1>3, <1>4 DEF RefresherInv

(* The goroutine takes over the claim.                                       *)
LEMMA RunStartInv ==
  ASSUME RefresherInv, NEW o \in Owners, RunStart(o)
  PROVE  RefresherInv'
<1>1. RefresherTypes'
  BY DEF RefresherInv, RunStart, RefresherTypes, OwnerPcs, LoopPcs, Begin, OwnerAt, OwnerGoto, LoopAt, LoopGoto, ownerVars
<1>2. OneInv'
  BY DEF RefresherInv, RunStart, OneInv, RefresherTypes, Claims, Begin, OwnerAt, OwnerGoto, LoopAt, LoopGoto, ownerVars
<1>3. CtxInv'
  BY DEF RefresherInv, RunStart, CtxInv, RefresherTypes, Begin, OwnerAt, OwnerGoto, LoopAt, LoopGoto, ownerVars
<1>4. TurnInv'
  BY DEF RefresherInv, RunStart, TurnInv, RefresherTypes, CtxInv, Begin, OwnerAt, OwnerGoto, LoopAt, LoopGoto, ownerVars
<1> QED
  BY <1>1, <1>2, <1>3, <1>4 DEF RefresherInv

(* Only done changes.                                                        *)
LEMMA ParentCancelsInv ==
  ASSUME RefresherInv, ParentCancels
  PROVE  RefresherInv'
<1>1. OneInv' /\ CtxInv' /\ TurnInv'
  BY RefresherFrames DEF RefresherInv, ParentCancels, ownerVars
<1>2. RefresherTypes'
  BY DEF RefresherInv, ParentCancels, RefresherTypes, OwnerPcs, LoopPcs, Begin, OwnerAt, OwnerGoto, LoopAt, LoopGoto, ownerVars
<1> QED
  BY <1>1, <1>2 DEF RefresherInv

(* The goroutine goes on ...                                                 *)
LEMMA LoopRefreshInv ==
  ASSUME RefresherInv, NEW o \in Owners, LoopRefresh(o)
  PROVE  RefresherInv'
<1>1. RefresherTypes'
  BY DEF RefresherInv, LoopRefresh, RefresherTypes, OwnerPcs, LoopPcs, Begin, OwnerAt, OwnerGoto, LoopAt, LoopGoto, ownerVars
<1>2. OneInv'
  BY DEF RefresherInv, LoopRefresh, OneInv, RefresherTypes, Claims, Begin, OwnerAt, OwnerGoto, LoopAt, LoopGoto, ownerVars
<1>3. CtxInv'
  BY DEF RefresherInv, LoopRefresh, CtxInv, RefresherTypes, Begin, OwnerAt, OwnerGoto, LoopAt, LoopGoto, ownerVars
<1>4. TurnInv'
  BY DEF RefresherInv, LoopRefresh, TurnInv, RefresherTypes, CtxInv, Begin, OwnerAt, OwnerGoto, LoopAt, LoopGoto, ownerVars
<1> QED
  BY <1>1, <1>2, <1>3, <1>4 DEF RefresherInv

(* ... with the context of now ...                                           *)
LEMMA LoopSelectInv ==
  ASSUME RefresherInv, NEW o \in Owners, LoopSelect(o)
  PROVE  RefresherInv'
<1>1. RefresherTypes'
  BY DEF RefresherInv, LoopSelect, RefresherTypes, OwnerPcs, LoopPcs, Begin, OwnerAt, OwnerGoto, LoopAt, LoopGoto, ownerVars
<1>2. OneInv'
  BY DEF RefresherInv, LoopSelect, OneInv, RefresherTypes, Claims, Begin, OwnerAt, OwnerGoto, LoopAt, LoopGoto, ownerVars
<1>3. CtxInv'
  BY DEF RefresherInv, LoopSelect, CtxInv, RefresherTypes, Begin, OwnerAt, OwnerGoto, LoopAt, LoopGoto, ownerVars
<1>4. TurnInv'
  BY DEF RefresherInv, LoopSelect, TurnInv, RefresherTypes, CtxInv, Begin, OwnerAt, OwnerGoto, LoopAt, LoopGoto, ownerVars
<1> QED
  BY <1>1, <1>2, <1>3, <1>4 DEF RefresherInv

(* ... to the next turn ...                                                  *)
LEMMA LoopTickInv ==
  ASSUME RefresherInv, NEW o \in Owners, LoopTick(o)
  PROVE  RefresherInv'
<1>1. RefresherTypes'
  BY DEF RefresherInv, LoopTick, RefresherTypes, OwnerPcs, LoopPcs, Begin, OwnerAt, OwnerGoto, LoopAt, LoopGoto, ownerVars
<1>2. OneInv'
  BY DEF RefresherInv, LoopTick, OneInv, RefresherTypes, Claims, Begin, OwnerAt, OwnerGoto, LoopAt, LoopGoto, ownerVars
<1>3. CtxInv'
  BY DEF RefresherInv, LoopTick, CtxInv, RefresherTypes, Begin, OwnerAt, OwnerGoto, LoopAt, LoopGoto, ownerVars
<1>4. TurnInv'
  BY DEF RefresherInv, LoopTick, TurnInv, RefresherTypes, CtxInv, Begin, OwnerAt, OwnerGoto, LoopAt, LoopGoto, ownerVars
<1> QED
  BY <1>1, <1>2, <1>3, <1>4 DEF RefresherInv

(* ... or ends, and nobody runs.                                             *)
LEMMA LoopDoneInv ==
  ASSUME RefresherInv, NEW o \in Owners, LoopDone(o)
  PROVE  RefresherInv'
<1>1. RefresherTypes'
  BY DEF RefresherInv, LoopDone, RefresherTypes, OwnerPcs, LoopPcs, Begin, OwnerAt, OwnerGoto, LoopAt, LoopGoto, ownerVars
<1>2. OneInv'
  BY DEF RefresherInv, LoopDone, OneInv, RefresherTypes, Claims, Begin, OwnerAt, OwnerGoto, LoopAt, LoopGoto, ownerVars
<1>3. CtxInv'
  BY DEF RefresherInv, LoopDone, CtxInv, RefresherTypes, Begin, OwnerAt, OwnerGoto, LoopAt, LoopGoto, ownerVars
<1>4. TurnInv'
  BY DEF RefresherInv, LoopDone, TurnInv, RefresherTypes, CtxInv, Begin, OwnerAt, OwnerGoto, LoopAt, LoopGoto, ownerVars
<1> QED
  BY <1>1, <1>2, <1>3, <1>4 DEF RefresherInv

(* Stop has seen a cancel, or waits.                                         *)
LEMMA StopBeginInv ==
  ASSUME RefresherInv, NEW o \in Owners, StopBegin(o)
  PROVE  RefresherInv'
<1>1. RefresherTypes'
  BY DEF RefresherInv, StopBegin, RefresherTypes, OwnerPcs, LoopPcs, Begin, OwnerAt, OwnerGoto, LoopAt, LoopGoto, ownerVars
<1>2. OneInv'
  BY DEF RefresherInv, StopBegin, OneInv, RefresherTypes, Claims, Begin, OwnerAt, OwnerGoto, LoopAt, LoopGoto, ownerVars
<1>3. CtxInv'
  BY DEF RefresherInv, StopBegin, CtxInv, RefresherTypes, Begin, OwnerAt, OwnerGoto, LoopAt, LoopGoto, ownerVars
<1>4. TurnInv'
  BY ZenonT(30) DEF RefresherInv, StopBegin, TurnInv, RefresherTypes, CtxInv, Begin, OwnerAt, OwnerGoto, LoopAt, LoopGoto, ownerVars
<1> QED
  BY <1>1, <1>2, <1>3, <1>4 DEF RefresherInv

(* Stop calls cancel.                                                        *)
LEMMA StopCancelInv ==
  ASSUME RefresherInv, NEW o \in Owners, StopCancel(o)
  PROVE  RefresherInv'
<1>1. RefresherTypes'
  BY DEF RefresherInv, StopCancel, RefresherTypes, OwnerPcs, LoopPcs, Begin, OwnerAt, OwnerGoto, LoopAt, LoopGoto, ownerVars
<1>2. OneInv'
  BY DEF RefresherInv, StopCancel, OneInv, RefresherTypes, Claims, Begin, OwnerAt, OwnerGoto, LoopAt, LoopGoto, ownerVars
<1>3. CtxInv'
  BY DEF RefresherInv, StopCancel, CtxInv, RefresherTypes, Begin, OwnerAt, OwnerGoto, LoopAt, LoopGoto, ownerVars
<1>4. TurnInv'
  BY DEF RefresherInv, StopCancel, TurnInv, RefresherTypes, CtxInv, Begin, OwnerAt, OwnerGoto, LoopAt, LoopGoto, ownerVars
<1> QED
  BY <1>1, <1>2, <1>3, <1>4 DEF RefresherInv

(* No goroutine runs when the context is forgotten.                          *)
LEMMA StopWaitInv ==
  ASSUME RefresherInv, NEW o \in Owners, StopWait(o)
  PROVE  RefresherInv'
<1>1. RefresherTypes'
  BY DEF RefresherInv, StopWait, RefresherTypes, OwnerPcs, LoopPcs, Begin, OwnerAt, OwnerGoto, LoopAt, LoopGoto, ownerVars
<1>2. OneInv'
  BY DEF RefresherInv, StopWait, OneInv, RefresherTypes, Claims, Begin, OwnerAt, OwnerGoto, LoopAt, LoopGoto, ownerVars
<1>3. CtxInv'
  BY DEF RefresherInv, StopWait, CtxInv, RefresherTypes, Begin, OwnerAt, OwnerGoto, LoopAt, LoopGoto, ownerVars
<1>4. TurnInv'
  <2> SUFFICES ASSUME ~overlapped PROVE TurnInv'
    BY DEF TurnInv, StopWait
  <2>1. owner'[o].pc = "reset" /\ \A q \in Owners \ {o} : owner'[q] = owner[q]
    BY DEF StopWait, OwnerGoto, RefresherInv, RefresherTypes
  <2>2. \A q \in Owners : ~OwnerAt(q, "idle")' => q = o
    BY <2>1 DEF RefresherInv, TurnInv, OwnerAt, StopWait
  <2>3. \A q \in Owners : LoopAt(q, "off")'
    BY DEF StopWait, RefresherInv, OneInv, LoopAt
  <2> QED
    BY <2>1, <2>2, <2>3 DEF TurnInv, OwnerAt
<1> QED
  BY <1>1, <1>2, <1>3, <1>4 DEF RefresherInv

(* Nor is cancel needed any more.                                            *)
LEMMA StopEndInv ==
  ASSUME RefresherInv, NEW o \in Owners, StopEnd(o)
  PROVE  RefresherInv'
<1>1. RefresherTypes'
  BY DEF RefresherInv, StopEnd, RefresherTypes, OwnerPcs, LoopPcs, Begin, OwnerAt, OwnerGoto, LoopAt, LoopGoto, ownerVars
<1>2. OneInv'
  BY DEF RefresherInv, StopEnd, OneInv, RefresherTypes, Claims, Begin, OwnerAt, OwnerGoto, LoopAt, LoopGoto, ownerVars
<1>3. CtxInv'
  BY DEF RefresherInv, StopEnd, CtxInv, RefresherTypes, Begin, OwnerAt, OwnerGoto, LoopAt, LoopGoto, ownerVars
<1>4. TurnInv'
  BY DEF RefresherInv, StopEnd, TurnInv, RefresherTypes, CtxInv, Begin, OwnerAt, OwnerGoto, LoopAt, LoopGoto, ownerVars
<1> QED
  BY <1>1, <1>2, <1>3, <1>4 DEF RefresherInv

-----------------------------------------------------------------------------
(* The refresher: the theorems *)

(* In the beginning nothing runs.                                            *)
LEMMA RefresherInit == Init => RefresherInv
<1> SUFFICES ASSUME Init PROVE RefresherInv
  OBVIOUS
<1>1. RefresherTypes
  BY DEF Init, RefresherTypes, OwnerPcs, LoopPcs
<1>2. OneInv /\ CtxInv /\ TurnInv
  BY DEF Init, OneInv, CtxInv, TurnInv, Claims, OwnerAt, LoopAt
<1> QED
  BY <1>1, <1>2 DEF RefresherInv

(* What a call of MakeJSONRequest may do.                                    *)
CallStep(r) == Search(r) \/ RequestStep(r) \/ DialStep(r) \/ SendStep(r)

(* Nothing but the refresher touches its state.                              *)
LEMMA OthersKeepRefresher ==
  ASSUME NEW r \in Requests, CallStep(r)
  PROVE  UNCHANGED refresherVars
<1>1. CASE Search(r) \/ SearchByAction(r) \/ Sort(r)
  BY <1>1 DEF Search, SearchByAction, Sort
<1>2. CASE GetClient(r) \/ CheckClosed(r) \/ CheckClosedPanics(r) \/ DialOk(r) \/ Bind(r)
  BY <1>2 DEF GetClient, CheckClosed, CheckClosedPanics, DialOk, Bind
<1>3. CASE ParseFails(r) \/ DialFails(r) \/ BindNil(r)
  BY <1>3 DEF ParseFails, DialFails, BindNil, GetClientFails
<1>4. CASE SendLock(r) \/ SendNil(r) \/ Send(r) \/ SendFails(r)
  BY <1>4 DEF SendLock, SendNil, Send, SendFails
<1>5. CASE NotSent(r) \/ Replied(r) \/ GiveUp(r)
  BY <1>5 DEF NotSent, Replied, GiveUp
<1> QED
  BY <1>1, <1>2, <1>3, <1>4, <1>5 DEF CallStep, RequestStep, GetStep, DialStep, SendStep

(* Every step preserves the invariant.                                       *)
LEMMA RefresherStep == RefresherInv /\ [Next]_vars => RefresherInv'
<1> SUFFICES ASSUME RefresherInv, [Next]_vars PROVE RefresherInv'
  OBVIOUS
<1>1. CASE UNCHANGED refresherVars
  BY <1>1, RefresherFrames DEF RefresherInv, refresherVars, ownerVars
<1>2. ASSUME NEW o \in Owners, RunClaim(o) \/ StopBegin(o) \/ OwnerStep(o) PROVE RefresherInv'
  <2>1. CASE StopPanics(o)
    BY <1>1, <2>1 DEF StopPanics
  <2> QED
    BY <1>2, <2>1, RunClaimInv, StopBeginInv, RunContextInv, RunStartInv, StopCancelInv,
       StopWaitInv, StopEndInv DEF OwnerStep
<1>3. ASSUME NEW o \in Owners, LoopStep(o) PROVE RefresherInv'
  <2>1. CASE LoopPanics(o)
    BY <1>1, <2>1 DEF LoopPanics
  <2> QED
    BY <1>3, <2>1, LoopRefreshInv, LoopSelectInv, LoopTickInv, LoopDoneInv DEF LoopStep
<1>4. ASSUME NEW r \in Requests, CallStep(r) PROVE RefresherInv'
  BY <1>1, <1>4, OthersKeepRefresher
<1>5. ASSUME NEW c \in DOMAIN clients, NEW k \in Closers, CloseStep(c, k) PROVE RefresherInv'
  BY <1>1, <1>5 DEF CloseStep, CloseRefresh, CloseUnlink, CloseConnection, CloseEnd
<1>6. ASSUME NEW f \in Files \cup {Missing}, Announce(f) PROVE RefresherInv'
  BY <1>1, <1>6 DEF Announce
<1>7. CASE DisableRecordVerification \/ EnableRecordVerification \/ Tick
  BY <1>1, <1>7 DEF DisableRecordVerification, EnableRecordVerification, SetVerify, Tick
<1>8. CASE UNCHANGED vars
  BY <1>1, <1>8 DEF vars
<1> QED
  BY <1>2, <1>3, <1>4, <1>5, <1>6, <1>7, <1>8, ParentCancelsInv DEF Next, CallStep

(* It holds of every reachable state.                                        *)
LEMMA RefresherInvariant == Spec => []RefresherInv
  BY RefresherInit, RefresherStep, PTL DEF Spec


(* For any number of goroutines that call Run and Stop, in any order and at  *)
(* the same time: the refresher has one loop at most, and running counts it. *)
THEOREM AtMostOneLoop == Spec => []OneLoop
<1>1. RefresherInv => OneLoop
  <2> SUFFICES ASSUME RefresherInv PROVE OneLoop
    OBVIOUS
  <2> DEFINE loops == {o \in Owners : ~LoopAt(o, "off")}
             claims == {o \in Owners : owner[o].pc \in {"context", "cancel"}}
  <2>1. running \in {0, 1}
    BY DEF RefresherInv, OneInv
  <2>2. CASE running = 0
    <3>1. loops = {} /\ claims = {}
      BY <2>2 DEF RefresherInv, OneInv, Claims
    <3>2. Cardinality(loops) = 0 /\ Cardinality(claims) = 0
      BY <3>1, FS_EmptySet
    <3> QED
      BY <2>2, <3>2 DEF OneLoop
  <2>3. CASE running = 1
    <3>1. PICK o \in Owners : /\ Claims(o) <=> LoopAt(o, "off")
                              /\ \A q \in Owners \ {o} : ~Claims(q) /\ LoopAt(q, "off")
      BY <2>3 DEF RefresherInv, OneInv
    <3>2. CASE Claims(o)
      <4>1. loops = {} /\ claims = {o}
        BY <3>1, <3>2 DEF Claims
      <4>2. Cardinality(loops) = 0 /\ Cardinality(claims) = 1
        BY <4>1, FS_EmptySet, FS_Singleton
      <4> QED
        BY <2>3, <4>2 DEF OneLoop
    <3>3. CASE ~Claims(o)
      <4>1. loops = {o} /\ claims = {}
        BY <3>1, <3>3 DEF Claims
      <4>2. Cardinality(loops) = 1 /\ Cardinality(claims) = 0
        BY <4>1, FS_EmptySet, FS_Singleton
      <4> QED
        BY <2>3, <4>2 DEF OneLoop
    <3> QED
      BY <3>2, <3>3
  <2> QED
    BY <2>1, <2>2, <2>3
<1> QED
  BY <1>1, RefresherInvariant, PTL

(* As long as they take turns, neither the goroutine of Run nor Stop finds   *)
(* nil where it expects the context or its cancel.                           *)
THEOREM TakingTurnsIsSafe == Spec => []NoNilDereference
<1>1. RefresherInv => NoNilDereference
  BY DEF RefresherInv, TurnInv, NoNilDereference
<1> QED
  BY <1>1, RefresherInvariant, PTL

-----------------------------------------------------------------------------
(* Requests, proxies and clients: their inductive invariant *)

Pids == Nat \X Nat

ProxyType == [rec : Announcement, verified : BOOLEAN, client : Nat, clientM : Requests \cup {Free}]

(* As ClientType, but for the bound on openReplies.                          *)
AnyClient ==
  [rec : Announcement, verified : BOOLEAN, spIdent : Idents \cup {NoIdent}, conn : BOOLEAN,
   isClosed : BOOLEAN, openReplies : Int, sendM : Requests \cup {Free},
   closedM : Closers \cup {Free}, closer : [Closers -> CloserPcs]]

RequestType == [pc : RequestPcs, todo : Seq(Pids), pool : Seq(Nat)]

CacheTypes ==
  /\ identIndex \in [Idents -> Pids] /\ actionIndex \in [Actions -> Seq(Pids)]
  /\ DOMAIN proxies \subseteq Pids /\ proxies \in [DOMAIN proxies -> ProxyType]

CallTypes ==
  /\ req \in [Requests -> RequestType]
  /\ clients \in Seq(AnyClient) /\ Len(clients) <= MaxClients

Provides(rec, a) == \E n \in rec.provides : ToLower[n] = a

(* A proxy or a client made while verification was on is of a good           *)
(* announcement.                                                             *)
Trusted(x) == x.verified => x.rec.kind = "good"

(* A request asks proxies of one refresh, which exist and provide the action.*)
TodoInv ==
  \A r \in Requests : \A k \in 1..Len(req[r].todo) :
    /\ req[r].todo[k] \in DOMAIN proxies
    /\ Provides(proxies[req[r].todo[k]].rec, ToLower[Wanted[r]])
    /\ req[r].todo[k][1] = req[r].todo[1][1]

(* It collects clients that were dialled for such a proxy.                   *)
PoolInv ==
  \A r \in Requests :
    /\ \A k \in 1..Len(req[r].pool) :
         /\ req[r].pool[k] \in 1..Len(clients)
         /\ Provides(clients[req[r].pool[k]].rec, ToLower[Wanted[r]])
    /\ req[r].pc \in {"sending", "wait"} => req[r].pool # <<>>

(* What the indexes hold exists; under an action, proxies of one refresh     *)
(* that provide it.                                                          *)
IndexInv ==
  /\ \A i \in Idents : identIndex[i] = NoProxy \/ identIndex[i] \in DOMAIN proxies
  /\ \A a \in Actions : \A k \in 1..Len(actionIndex[a]) :
       /\ actionIndex[a][k] \in DOMAIN proxies
       /\ Provides(proxies[actionIndex[a][k]].rec, a)
       /\ actionIndex[a][k][1] = actionIndex[a][1][1]

(* The client of a proxy was dialled for the same announcement.              *)
LinkInv ==
  \A p \in DOMAIN proxies :
    /\ Trusted(proxies[p])
    /\ proxies[p].client # NoClient =>
         /\ proxies[p].client \in 1..Len(clients)
         /\ clients[proxies[p].client].rec = proxies[p].rec

TrustInv ==
  \A c \in 1..Len(clients) :
    /\ Trusted(clients[c])
    /\ \A k \in Closers : clients[c].closer[k] = "retrieve" => clients[c].spIdent # NoIdent

(* clientM is held by the request inside GetClient, by no other and as long  *)
(* as it is there.                                                           *)
Inside(r) == req[r].pc \in {"isClosed", "dial", "bind"}

LockInv ==
  /\ \A r \in Requests : Inside(r) => req[r].todo # <<>> /\ proxies[Proxy(r)].clientM = r
  /\ \A p \in DOMAIN proxies : \A r \in Requests :
       proxies[p].clientM = r => Inside(r) /\ Proxy(r) = p

(* Whoever is about to dial found no client, or a closed one; and no other   *)
(* can put one there.                                                        *)
DialInv ==
  \A r \in Requests : req[r].pc = "dial" =>
    ClientOf(r) = NoClient \/ clients[ClientOf(r)].isClosed

(* A request sends once.                                                     *)
Waiting(c) == {r \in Requests : req[r].pc = "wait" /\ Head(req[r].pool) = c}
Sent == {r \in Requests : req[r].pc \in {"wait", "done"}}

CountInv ==
  \A c \in 1..Len(clients) :
    Cardinality(Waiting(c)) <= clients[c].openReplies /\ clients[c].openReplies <= Cardinality(Sent)

RequestInv ==
  /\ FileTypes /\ CacheTypes /\ CallTypes
  /\ TodoInv /\ PoolInv /\ IndexInv /\ LinkInv /\ TrustInv /\ LockInv /\ DialInv /\ CountInv

-----------------------------------------------------------------------------
(* What a refresh leaves behind *)

(* Scans is a table of DoScan.                                               *)
LEMMA ScanTable ==
  ASSUME NEW f \in Files, NEW v \in BOOLEAN
  PROVE  /\ f \in Seq(Announcement)
         /\ Scans[f][v] \in ScanType(f) /\ IndexOK(f, v, Scans[f][v])
<1>1. f \in Seq(Announcement)
  BY FilesAssumption
<1>2. Scans[f][v] = DoScan(f, v)
  BY DEF Scans
<1> QED
  BY <1>1, <1>2, ScanIsSound

(* A proxy of refresh n is of an announcement of the file it read, of a good *)
(* one if that was verified.                                                 *)
OfRefresh(f, v, n, p) ==
  /\ p \in Pids /\ p[1] = n /\ p[2] \in DOMAIN f
  /\ v => f[p[2]].kind = "good"

LEMMA NewIndexes ==
  ASSUME NEW f \in Files, NEW v \in BOOLEAN, NEW n \in Nat
  PROVE  /\ IdentIndex(f, v, n) \in [Idents -> Pids]
         /\ ActionIndex(f, v, n) \in [Actions -> Seq(Pids)]
         /\ \A i \in Idents : LET p == IdentIndex(f, v, n)[i]
                              IN  p = NoProxy \/ OfRefresh(f, v, n, p)
         /\ \A a \in Actions : \A k \in 1..Len(ActionIndex(f, v, n)[a]) :
              LET p == ActionIndex(f, v, n)[a][k]
              IN  OfRefresh(f, v, n, p) /\ Provides(f[p[2]], a)
<1>1. PICK scan \in ScanType(f) : scan = Scans[f][v] /\ IndexOK(f, v, scan)
  BY ScanTable
<1>2. scan.identIndex \in [Idents -> Nat] /\ scan.actionIndex \in [Actions -> Seq(DOMAIN f)]
  BY DEF ScanType
<1>3. f \in Seq(Announcement) /\ DOMAIN f \subseteq Nat
  <2>1. f \in Seq(Announcement)
    BY ScanTable
  <2> QED
    BY <2>1
<1>4. ASSUME NEW i \in Idents
      PROVE  /\ IdentIndex(f, v, n)[i] \in Pids
             /\ IdentIndex(f, v, n)[i] = NoProxy \/ OfRefresh(f, v, n, IdentIndex(f, v, n)[i])
  <2>1. PICK p \in Nat : p = scan.identIndex[i]
    BY <1>2
  <2>2. IdentIndex(f, v, n)[i] = IF p = 0 THEN NoProxy ELSE <<n, p>>
    BY <1>1, <2>1 DEF IdentIndex
  <2>3. NoProxy \in Pids /\ <<n, p>> \in Pids
    BY DEF NoProxy, Pids
  <2>4. p # 0 => Indexable(f, v, p)
    BY <1>1, <2>1 DEF IndexOK
  <2>5. p # 0 => OfRefresh(f, v, n, <<n, p>>)
    BY <2>3, <2>4 DEF Indexable, OfRefresh
  <2> QED
    BY <2>2, <2>3, <2>5
<1>5. ASSUME NEW a \in Actions
      PROVE  /\ ActionIndex(f, v, n)[a] \in Seq(Pids)
             /\ \A k \in 1..Len(ActionIndex(f, v, n)[a]) :
                  /\ OfRefresh(f, v, n, ActionIndex(f, v, n)[a][k])
                  /\ Provides(f[ActionIndex(f, v, n)[a][k][2]], a)
  <2>1. PICK s \in Seq(DOMAIN f) : s = scan.actionIndex[a]
    BY <1>2
  <2>2. ActionIndex(f, v, n)[a] = [k \in 1..Len(s) |-> <<n, s[k]>>]
    BY <1>1, <2>1 DEF ActionIndex
  <2>3. ASSUME NEW k \in 1..Len(s)
        PROVE  <<n, s[k]>> \in Pids /\ OfRefresh(f, v, n, <<n, s[k]>>) /\ Provides(f[s[k]], a)
    <3>1. PICK p \in Nat : p = s[k] /\ <<n, p>> \in Pids
      BY SMTT(30), <1>3 DEF Pids
    <3>2. Indexable(f, v, p) /\ \E m \in f[p].provides : ToLower[m] = a
      BY <1>1, <2>1, <3>1 DEF IndexOK
    <3>3. OfRefresh(f, v, n, <<n, p>>) /\ Provides(f[p], a)
      BY <3>1, <3>2 DEF Indexable, OfRefresh, Provides
    <3> QED
      BY <3>1, <3>3
  <2>4. PICK t : t = [k \in 1..Len(s) |-> <<n, s[k]>>]
    OBVIOUS
  <2>5. t \in Seq(Pids) /\ Len(t) = Len(s) /\ \A k \in 1..Len(s) : t[k] = <<n, s[k]>>
    BY <2>3, <2>4
  <2>6. ASSUME NEW k \in 1..Len(s)
        PROVE  OfRefresh(f, v, n, t[k]) /\ Provides(f[t[k][2]], a)
    <3>1. t[k] = <<n, s[k]>> /\ t[k][2] = s[k]
      BY <2>5
    <3> QED
      BY <2>3, <3>1
  <2> QED
    BY <2>2, <2>4, <2>5, <2>6
<1>6. IdentIndex(f, v, n) \in [Idents -> Pids]
  <2>1. IdentIndex(f, v, n) = [i \in Idents |-> IdentIndex(f, v, n)[i]]
    BY DEF IdentIndex
  <2> QED
    BY <1>4, <2>1
<1>7. ActionIndex(f, v, n) \in [Actions -> Seq(Pids)]
  <2>1. ActionIndex(f, v, n) = [a \in Actions |-> ActionIndex(f, v, n)[a]]
    BY DEF ActionIndex
  <2> QED
    BY <1>5, <2>1
<1> QED
  BY <1>4, <1>5, <1>6, <1>7

(* Requests hold proxies of at most as many refreshes as there are requests, *)
(* so a number for the next one is free.                                     *)
LEMMA FreeNumber ==
  ASSUME RequestInv
  PROVE  \E n \in 1..(Cardinality(Requests) + 1) : \A p \in Held : p[1] # n
<1> DEFINE First == [r \in Requests |-> IF req[r].todo = <<>> THEN 0 ELSE req[r].todo[1][1]]
           S == {First[r] : r \in Requests}
           N == Cardinality(Requests)
<1>1. IsFiniteSet(Requests) /\ N \in Nat
  BY RequestsAssumption, FS_CardinalityType
<1>2. IsFiniteSet(S) /\ Cardinality(S) <= N /\ Cardinality(S) \in Nat
  <2>1. First \in Surjection(Requests, S)
    BY DEF Surjection
  <2> HIDE DEF First, S
  <2> QED
    BY <1>1, <2>1, FS_Surjection, FS_CardinalityType
<1>3. \A p \in Held : p[1] \in S
  <2> SUFFICES ASSUME NEW r \in Requests, NEW p \in Range(req[r].todo) PROVE p[1] \in S
    BY DEF Held
  <2>1. req[r].todo \in Seq(Pids)
    BY DEF RequestInv, CallTypes, RequestType
  <2>2. PICK k \in 1..Len(req[r].todo) : p = req[r].todo[k]
    BY <2>1 DEF Range
  <2>3. p[1] = req[r].todo[1][1]
    BY <2>2 DEF RequestInv, TodoInv
  <2>4. req[r].todo # <<>>
    BY <2>1, <2>2
  <2>5. First[r] = p[1]
    BY <2>3, <2>4
  <2> QED
    BY <2>5
<1>4. ~(1..(N + 1) \subseteq S)
  <2>1. Cardinality(1..(N + 1)) = N + 1
    <3>1. PICK m \in Nat : m = N + 1 /\ m >= 1
      BY <1>1
    <3>2. Cardinality(1..m) = IF 1 > m THEN 0 ELSE m - 1 + 1
      BY FS_Interval
    <3>3. Cardinality(1..m) = m
      BY <3>1, <3>2
    <3> QED
      BY <3>1, <3>3
  <2> HIDE DEF S, N
  <2>2. 1..(N + 1) \subseteq S => Cardinality(1..(N + 1)) <= Cardinality(S)
    BY <1>2, FS_Subset
  <2> QED
    BY <1>1, <1>2, <2>1, <2>2
<1> QED
  BY <1>3, <1>4

(* The proxies of the indexes a refresh makes.                               *)
LEMMA NewIndexed ==
  ASSUME NEW f \in Files, NEW v \in BOOLEAN, NEW n \in Nat, NEW ids, NEW acts, NEW new,
         ids = IdentIndex(f, v, n), acts = ActionIndex(f, v, n), new = Indexed(ids, acts)
  PROVE  /\ ids \in [Idents -> Pids] /\ acts \in [Actions -> Seq(Pids)]
         /\ \A p \in new : OfRefresh(f, v, n, p)
         /\ \A i \in Idents : ids[i] = NoProxy \/ ids[i] \in new
         /\ \A a \in Actions : \A k \in 1..Len(acts[a]) :
              acts[a][k] \in new /\ Provides(f[acts[a][k][2]], a)
<1>1. /\ ids \in [Idents -> Pids] /\ acts \in [Actions -> Seq(Pids)]
      /\ \A i \in Idents : ids[i] = NoProxy \/ OfRefresh(f, v, n, ids[i])
      /\ \A a \in Actions : \A k \in 1..Len(acts[a]) :
           OfRefresh(f, v, n, acts[a][k]) /\ Provides(f[acts[a][k][2]], a)
  BY NewIndexes
<1>2. Range(ids) = {ids[i] : i \in Idents}
  BY <1>1 DEF Range
<1>3. ASSUME NEW a \in Actions
      PROVE  Range(acts[a]) = {acts[a][k] : k \in 1..Len(acts[a])}
  <2>1. acts[a] \in Seq(Pids)
    BY <1>1
  <2> QED
    BY <2>1 DEF Range
<1>4. new = (Range(ids) \ {NoProxy}) \cup UNION {Range(acts[a]) : a \in Actions}
  BY DEF Indexed
<1>5. ASSUME NEW p \in new PROVE OfRefresh(f, v, n, p)
  <2>1. CASE p \in Range(ids) \ {NoProxy}
    BY <1>1, <1>2, <2>1
  <2>2. ASSUME NEW a \in Actions, p \in Range(acts[a]) PROVE OfRefresh(f, v, n, p)
    <3>1. p \in {acts[a][k] : k \in 1..Len(acts[a])}
      BY <1>3, <2>2
    <3>2. PICK k \in 1..Len(acts[a]) : p = acts[a][k]
      BY <3>1
    <3> QED
      BY <1>1, <3>2
  <2> QED
    BY <1>4, <2>1, <2>2
<1>6. \A i \in Idents : ids[i] = NoProxy \/ ids[i] \in new
  BY <1>2, <1>4
<1>7. ASSUME NEW a \in Actions, NEW k \in 1..Len(acts[a]) PROVE acts[a][k] \in new
  BY <1>3, <1>4
<1> QED
  BY <1>1, <1>5, <1>6, <1>7

(* What requests hold exists.                                                *)
LEMMA HeldExists ==
  ASSUME RequestInv
  PROVE  /\ Held \subseteq DOMAIN proxies
         /\ \A r \in Requests : \A k \in 1..Len(req[r].todo) : req[r].todo[k] \in Held
<1>1. ASSUME NEW r \in Requests
      PROVE  Range(req[r].todo) = {req[r].todo[k] : k \in 1..Len(req[r].todo)}
  <2>1. req[r].todo \in Seq(Pids)
    BY DEF RequestInv, CallTypes, RequestType
  <2> QED
    BY <2>1 DEF Range
<1>2. ASSUME NEW r \in Requests, NEW k \in 1..Len(req[r].todo) PROVE req[r].todo[k] \in Held
  BY <1>1 DEF Held
<1>3. ASSUME NEW p \in Held PROVE p \in DOMAIN proxies
  <2>1. PICK r \in Requests : p \in Range(req[r].todo)
    BY DEF Held
  <2>2. PICK k \in 1..Len(req[r].todo) : p = req[r].todo[k]
    BY <1>1, <2>1
  <2> QED
    BY <2>2 DEF RequestInv, TodoInv
<1> QED
  BY <1>2, <1>3

(* A refresh leaves every proxy a request holds as it is; the others are new *)
(* and nobody's.                                                             *)
LEMMA RefreshFacts ==
  ASSUME RequestInv, Refresh \/ UNCHANGED <<cacheVars, proxies>>
  PROVE  /\ CacheTypes' /\ IndexInv' /\ scanned' \in [recs : Files, verify : BOOLEAN]
         /\ \A p \in Held : p \in DOMAIN proxies' /\ proxies'[p] = proxies[p]
         /\ \A p \in DOMAIN proxies' :
              \/ p \in DOMAIN proxies /\ proxies'[p] = proxies[p]
              \/ Trusted(proxies'[p]) /\ proxies'[p].client = NoClient /\ proxies'[p].clientM = Free
<1>1. CASE UNCHANGED <<cacheVars, proxies>>
  BY <1>1, HeldExists DEF cacheVars, RequestInv, CacheTypes, IndexInv, FileTypes
<1>2. CASE ~UNCHANGED <<cacheVars, proxies>>
  <2>1. file # Missing /\ file \in Files /\ verifyRecords \in BOOLEAN
    BY <1>2 DEF Refresh, RequestInv, FileTypes
  <2>2. PICK n : n = CHOOSE k \in 1..(Cardinality(Requests) + 1) : \A p \in Held : p[1] # k
    OBVIOUS
  <2>3. n \in 1..(Cardinality(Requests) + 1) /\ \A p \in Held : p[1] # n
    BY <2>2, FreeNumber
  <2>4. n \in Nat
    BY <2>3
  <2>5. PICK f \in Files, v \in BOOLEAN : f = file /\ v = verifyRecords
    BY <2>1
  <2>6. /\ identIndex' = IdentIndex(f, v, n) /\ actionIndex' = ActionIndex(f, v, n)
        /\ proxies' = [p \in Held \cup Indexed(identIndex', actionIndex') |->
                         IF p \in Held THEN proxies[p] ELSE NewProxy(f[p[2]])]
        /\ scanned' = [recs |-> f, verify |-> v]
    BY <1>2, <2>2, <2>5 DEF Refresh
  <2>7. PICK new : new = Indexed(identIndex', actionIndex')
    OBVIOUS
  <2>8. /\ identIndex' \in [Idents -> Pids] /\ actionIndex' \in [Actions -> Seq(Pids)]
        /\ \A p \in new : OfRefresh(f, v, n, p)
        /\ \A i \in Idents : identIndex'[i] = NoProxy \/ identIndex'[i] \in new
        /\ \A a \in Actions : \A k \in 1..Len(actionIndex'[a]) :
             actionIndex'[a][k] \in new /\ Provides(f[actionIndex'[a][k][2]], a)
    BY <2>4, <2>6, <2>7, NewIndexed
  <2>9. DOMAIN proxies' = Held \cup new /\ Held \subseteq DOMAIN proxies
    BY <2>6, <2>7, HeldExists
  <2>10. ASSUME NEW p \in Held PROVE proxies'[p] = proxies[p] /\ p \notin new
    BY <2>3, <2>6, <2>8, <2>9 DEF OfRefresh
  <2>11. ASSUME NEW p \in new
         PROVE  /\ proxies'[p] = NewProxy(f[p[2]]) /\ f[p[2]] \in Announcement
                /\ v => f[p[2]].kind = "good"
    <3>1. OfRefresh(f, v, n, p)
      BY <2>8
    <3>2. f \in Seq(Announcement)
      BY ScanTable
    <3>3. proxies'[p] = NewProxy(f[p[2]])
      BY <2>6, <2>9, <2>10
    <3> QED
      BY <3>1, <3>2, <3>3 DEF OfRefresh
  <2>12. ASSUME NEW p \in new
         PROVE  /\ proxies'[p] \in ProxyType /\ proxies'[p].rec = f[p[2]] /\ Trusted(proxies'[p])
                /\ proxies'[p].client = NoClient /\ proxies'[p].clientM = Free
    <3>1. PICK rec \in Announcement : rec = f[p[2]]
      BY <2>11
    <3>2. proxies'[p] = [rec |-> rec, verified |-> v, client |-> NoClient, clientM |-> Free]
      BY <2>5, <2>11, <3>1 DEF NewProxy
    <3>3. [rec |-> rec, verified |-> v, client |-> NoClient, clientM |-> Free] \in ProxyType
      BY DEF ProxyType, NoClient
    <3> QED
      BY <2>11, <3>1, <3>2, <3>3 DEF Trusted
  <2>13. CacheTypes'
    <3>1. Held \subseteq Pids /\ \A p \in Held : proxies[p] \in ProxyType
      BY <2>9 DEF RequestInv, CacheTypes
    <3>2. DOMAIN proxies' \subseteq Pids
      BY <2>8, <2>9, <3>1 DEF OfRefresh
    <3>3. \A p \in DOMAIN proxies' : proxies'[p] \in ProxyType
      BY <2>9, <2>10, <2>12, <3>1
    <3>4. proxies' = [p \in DOMAIN proxies' |-> proxies'[p]]
      BY <2>6
    <3>5. proxies' \in [DOMAIN proxies' -> ProxyType]
      BY <3>3, <3>4
    <3> QED
      BY <2>8, <3>2, <3>5 DEF CacheTypes
  <2>14. IndexInv'
    <3>1. \A i \in Idents : identIndex'[i] = NoProxy \/ identIndex'[i] \in DOMAIN proxies'
      BY <2>8, <2>9
    <3>2. ASSUME NEW a \in Actions, NEW k \in 1..Len(actionIndex'[a])
          PROVE  /\ actionIndex'[a][k] \in DOMAIN proxies'
                 /\ Provides(proxies'[actionIndex'[a][k]].rec, a)
                 /\ actionIndex'[a][k][1] = n
      <4>1. PICK p \in new : p = actionIndex'[a][k]
        BY <2>8
      <4>2. OfRefresh(f, v, n, p) /\ Provides(f[p[2]], a)
        BY <2>8, <4>1
      <4>3. proxies'[p].rec = f[p[2]] /\ p \in DOMAIN proxies' /\ p[1] = n
        BY <2>9, <2>12, <4>2 DEF OfRefresh
      <4> QED
        BY <4>1, <4>2, <4>3
    <3>3. ASSUME NEW a \in Actions, NEW k \in 1..Len(actionIndex'[a])
          PROVE  actionIndex'[a][k][1] = actionIndex'[a][1][1]
      <4>1. actionIndex'[a] \in Seq(Pids)
        BY <2>8
      <4>2. 1 \in 1..Len(actionIndex'[a])
        BY <4>1
      <4> QED
        BY <3>2, <4>2
    <3> QED
      BY <3>1, <3>2, <3>3 DEF IndexInv
  <2>15. scanned' \in [recs : Files, verify : BOOLEAN]
    BY <2>6
  <2> QED
    BY <2>9, <2>10, <2>12, <2>13, <2>14, <2>15
<1> QED
  BY <1>1, <1>2

-----------------------------------------------------------------------------
(* What every step leaves as it is *)

(* Clients are never taken away, given another announcement or reopened.     *)
ClientsKept ==
  /\ clients' \in Seq(AnyClient) /\ Len(clients) <= Len(clients') /\ Len(clients') <= MaxClients
  /\ \A c \in 1..Len(clients) :
       /\ clients'[c].rec = clients[c].rec /\ clients'[c].verified = clients[c].verified
       /\ clients[c].isClosed => clients'[c].isClosed

RepliesKept ==
  Len(clients') = Len(clients) /\ \A c \in 1..Len(clients) : clients'[c].openReplies = clients[c].openReplies

(* Only request r moves.                                                     *)
OnlyMoves(r) ==
  req' \in [Requests -> RequestType] /\ \A q \in Requests \ {r} : req'[q] = req[q]

(* The types of what requests and clients have.                              *)
LEMMA Types ==
  ASSUME RequestInv
  PROVE  /\ clients \in Seq(AnyClient) /\ Len(clients) \in Nat /\ Len(clients) <= MaxClients
         /\ DOMAIN clients = 1..Len(clients)
         /\ \A c \in 1..Len(clients) : clients[c] \in AnyClient
         /\ req \in [Requests -> RequestType]
         /\ \A r \in Requests : /\ req[r] \in RequestType /\ req[r].pc \in RequestPcs
                                /\ req[r].todo \in Seq(Pids) /\ req[r].pool \in Seq(Nat)
         /\ \A p \in DOMAIN proxies : proxies[p] \in ProxyType
<1>1. clients \in Seq(AnyClient) /\ req \in [Requests -> RequestType] /\ Len(clients) <= MaxClients
  BY DEF RequestInv, CallTypes
<1>2. \A r \in Requests : req[r] \in RequestType
  BY <1>1
<1>3. \A r \in Requests : req[r].pc \in RequestPcs /\ req[r].todo \in Seq(Pids) /\ req[r].pool \in Seq(Nat)
  BY <1>2 DEF RequestType
<1>4. \A p \in DOMAIN proxies : proxies[p] \in ProxyType
  BY DEF RequestInv, CacheTypes
<1> QED
  BY <1>1, <1>2, <1>3, <1>4

(* One client changes.                                                       *)
LEMMA ClientChanges ==
  ASSUME RequestInv, NEW c \in DOMAIN clients, NEW x \in AnyClient,
         clients' = [clients EXCEPT ![c] = x],
         x.rec = clients[c].rec, x.verified = clients[c].verified,
         clients[c].isClosed => x.isClosed
  PROVE  /\ ClientsKept /\ Len(clients') = Len(clients)
         /\ clients'[c] = x /\ \A d \in 1..Len(clients) : d # c => clients'[d] = clients[d]
<1>1. /\ clients \in Seq(AnyClient) /\ Len(clients) \in Nat /\ Len(clients) <= MaxClients
      /\ DOMAIN clients = 1..Len(clients)
  BY Types
<1>2. clients' \in Seq(AnyClient) /\ Len(clients') = Len(clients)
  BY <1>1
<1>3. clients'[c] = x /\ \A d \in 1..Len(clients) : d # c => clients'[d] = clients[d]
  BY <1>1
<1>4. \A d \in 1..Len(clients) :
         /\ clients'[d].rec = clients[d].rec /\ clients'[d].verified = clients[d].verified
         /\ clients[d].isClosed => clients'[d].isClosed
  BY <1>1, <1>3
<1> QED
  BY <1>1, <1>2, <1>3, <1>4 DEF ClientsKept

(* No client changes.                                                        *)
LEMMA ClientsStay ==
  ASSUME RequestInv, UNCHANGED clients
  PROVE  ClientsKept /\ RepliesKept
  BY Types DEF ClientsKept, RepliesKept

(* A request that moves.                                                     *)
LEMMA RequestMoves ==
  ASSUME RequestInv, NEW r \in Requests, NEW x \in RequestType, req' = [req EXCEPT ![r] = x]
  PROVE  OnlyMoves(r) /\ req'[r] = x
<1>1. req \in [Requests -> RequestType]
  BY Types
<1> QED
  BY <1>1 DEF OnlyMoves

LEMMA GotoFacts ==
  ASSUME RequestInv, NEW r \in Requests, NEW pc \in RequestPcs, Goto(r, pc)
  PROVE  /\ OnlyMoves(r) /\ req'[r].pc = pc
         /\ req'[r].todo = req[r].todo /\ req'[r].pool = req[r].pool
<1>1. req[r] \in RequestType /\ req \in [Requests -> RequestType]
  BY Types
<1>2. PICK x : x = [req[r] EXCEPT !.pc = pc]
  OBVIOUS
<1>3. x \in RequestType /\ x.pc = pc /\ x.todo = req[r].todo /\ x.pool = req[r].pool
  BY <1>1, <1>2 DEF RequestType
<1>4. req' = [req EXCEPT ![r] = x]
  BY <1>1, <1>2 DEF Goto
<1> QED
  BY <1>3, <1>4, RequestMoves

-----------------------------------------------------------------------------
(* The parts of the invariant, for requests and clients that stay as they are*)

TodoOK(r) ==
  \A k \in 1..Len(req[r].todo) :
    /\ req[r].todo[k] \in DOMAIN proxies
    /\ Provides(proxies[req[r].todo[k]].rec, ToLower[Wanted[r]])
    /\ req[r].todo[k][1] = req[r].todo[1][1]

PoolOK(r) ==
  /\ \A k \in 1..Len(req[r].pool) :
       /\ req[r].pool[k] \in 1..Len(clients)
       /\ Provides(clients[req[r].pool[k]].rec, ToLower[Wanted[r]])
  /\ req[r].pc \in {"sending", "wait"} => req[r].pool # <<>>

DialOK(r) == req[r].pc = "dial" => ClientOf(r) = NoClient \/ clients[ClientOf(r)].isClosed

LEMMA Parts ==
  /\ TodoInv <=> \A r \in Requests : TodoOK(r)
  /\ PoolInv <=> \A r \in Requests : PoolOK(r)
  /\ DialInv <=> \A r \in Requests : DialOK(r)
  BY DEF TodoInv, TodoOK, PoolInv, PoolOK, DialInv, DialOK

(* Proxies that requests hold are there, of the same announcement.           *)
HeldKept == \A p \in Held : p \in DOMAIN proxies' /\ proxies'[p].rec = proxies[p].rec

LEMMA TodoKept ==
  ASSUME RequestInv, NEW r \in Requests, HeldKept, req'[r].todo = req[r].todo
  PROVE  TodoOK(r)'
<1>1. TodoOK(r) /\ \A k \in 1..Len(req[r].todo) : req[r].todo[k] \in Held
  BY Parts, HeldExists DEF RequestInv
<1> QED
  BY <1>1 DEF TodoOK, HeldKept

LEMMA PoolKept ==
  ASSUME RequestInv, NEW r \in Requests, ClientsKept, req'[r].pool = req[r].pool,
         req'[r].pc \in {"sending", "wait"} => req[r].pool # <<>>
  PROVE  PoolOK(r)'
<1>1. PoolOK(r) /\ Len(clients) \in Nat
  BY Parts, Types DEF RequestInv
<1>2. Len(clients) <= Len(clients') /\ Len(clients') \in Nat
  BY DEF ClientsKept
<1>3. ASSUME NEW k \in 1..Len(req[r].pool)
      PROVE  /\ req'[r].pool[k] \in 1..Len(clients')
             /\ Provides(clients'[req'[r].pool[k]].rec, ToLower[Wanted[r]])
  <2>1. req[r].pool[k] \in 1..Len(clients) /\ Provides(clients[req[r].pool[k]].rec, ToLower[Wanted[r]])
    BY <1>1 DEF PoolOK
  <2>2. clients'[req[r].pool[k]].rec = clients[req[r].pool[k]].rec
    BY <2>1 DEF ClientsKept
  <2>3. req[r].pool[k] \in 1..Len(clients')
    BY <1>1, <1>2, <2>1
  <2> QED
    BY <2>1, <2>2, <2>3
<1> QED
  BY <1>3 DEF PoolOK

(* A proxy with its client, before and after.                                *)
LinkOK(p) ==
  /\ Trusted(proxies[p])
  /\ proxies[p].client # NoClient =>
       /\ proxies[p].client \in 1..Len(clients)
       /\ clients[proxies[p].client].rec = proxies[p].rec

LEMMA LinkKept ==
  ASSUME RequestInv, NEW p \in DOMAIN proxies, ClientsKept,
         proxies'[p].rec = proxies[p].rec, proxies'[p].verified = proxies[p].verified,
         proxies'[p].client \in {proxies[p].client, NoClient}
  PROVE  LinkOK(p)'
<1>1. LinkOK(p) /\ Len(clients) \in Nat /\ Len(clients') \in Nat /\ Len(clients) <= Len(clients')
  BY Types DEF RequestInv, LinkInv, LinkOK, ClientsKept
<1>2. Trusted(proxies[p])'
  BY <1>1 DEF LinkOK, Trusted
<1>3. ASSUME proxies'[p].client # NoClient
      PROVE  proxies'[p].client \in 1..Len(clients') /\ clients'[proxies'[p].client].rec = proxies'[p].rec
  <2>1. PICK c \in 1..Len(clients) : c = proxies[p].client /\ clients[c].rec = proxies[p].rec
    BY <1>1, <1>3 DEF LinkOK
  <2>2. proxies'[p].client = c /\ clients'[c].rec = clients[c].rec
    BY <1>3, <2>1 DEF ClientsKept
  <2>3. c \in 1..Len(clients')
    BY <1>1
  <2> QED
    BY <2>1, <2>2, <2>3
<1> QED
  BY <1>2, <1>3 DEF LinkOK

(* clientM, where nobody enters or leaves GetClient.                         *)
LEMMA LockStays ==
  ASSUME RequestInv,
         \A q \in Requests : (Inside(q)' <=> Inside(q)) /\ (Inside(q) => req'[q].todo = req[q].todo),
         \A p \in Held : p \in DOMAIN proxies' /\ proxies'[p].clientM = proxies[p].clientM,
         \A p \in DOMAIN proxies' : \/ p \in DOMAIN proxies /\ proxies'[p].clientM = proxies[p].clientM
                                    \/ proxies'[p].clientM = Free
  PROVE  LockInv'
<1>1. ASSUME NEW q \in Requests, Inside(q)
      PROVE  /\ req[q].todo # <<>> /\ Proxy(q) \in Held /\ proxies[Proxy(q)].clientM = q
             /\ req'[q].todo = req[q].todo /\ Proxy(q)' = Proxy(q)
  <2>1. req[q].todo # <<>> /\ proxies[Proxy(q)].clientM = q /\ req'[q].todo = req[q].todo
    BY <1>1 DEF RequestInv, LockInv
  <2>2. req[q].todo \in Seq(Pids)
    BY Types
  <2>3. 1 \in 1..Len(req[q].todo) /\ Head(req[q].todo) = req[q].todo[1]
    BY <2>1, <2>2
  <2>4. Head(req[q].todo) \in Held
    BY <2>3, HeldExists
  <2> QED
    BY <2>1, <2>4 DEF Proxy
<1>2. ASSUME NEW q \in Requests, Inside(q)'
      PROVE  req'[q].todo # <<>> /\ proxies'[Proxy(q)'].clientM = q
  BY <1>1, <1>2
<1>3. ASSUME NEW p \in DOMAIN proxies', NEW q \in Requests, proxies'[p].clientM = q
      PROVE  Inside(q)' /\ Proxy(q)' = p
  <2>1. p \in DOMAIN proxies /\ proxies[p].clientM = q
    BY <1>3, RequestsAssumption
  <2>2. Inside(q) /\ Proxy(q) = p
    BY <2>1 DEF RequestInv, LockInv
  <2> QED
    BY <1>1, <2>2
<1> QED
  BY <1>2, <1>3 DEF LockInv

(* The proxy a request inside GetClient, or about to enter it, asks.         *)
LEMMA AskedProxy ==
  ASSUME RequestInv, NEW r \in Requests, Inside(r) \/ req[r].todo # <<>>
  PROVE  /\ req[r].todo # <<>> /\ req[r].todo \in Seq(Pids)
         /\ Proxy(r) = req[r].todo[1] /\ Proxy(r) \in Held /\ Proxy(r) \in DOMAIN proxies
         /\ proxies[Proxy(r)] \in ProxyType
         /\ Provides(proxies[Proxy(r)].rec, ToLower[Wanted[r]])
<1>1. req[r].todo # <<>> /\ req[r].todo \in Seq(Pids)
  BY Types DEF RequestInv, LockInv
<1>2. 1 \in 1..Len(req[r].todo) /\ Head(req[r].todo) = req[r].todo[1]
  BY <1>1
<1>3. /\ req[r].todo[1] \in DOMAIN proxies
      /\ Provides(proxies[req[r].todo[1]].rec, ToLower[Wanted[r]])
  BY <1>2 DEF RequestInv, TodoInv
<1>4. req[r].todo[1] \in Held
  BY <1>2, HeldExists
<1> QED
  BY <1>1, <1>2, <1>3, <1>4, Types DEF Proxy

(* clientM, where r enters GetClient, stays inside or leaves it.             *)
LEMMA LockMoves ==
  ASSUME RequestInv, NEW r \in Requests, OnlyMoves(r), NEW p0 \in DOMAIN proxies,
         req[r].todo # <<>>, p0 = Proxy(r), proxies[p0].clientM \in {Free, r},
         DOMAIN proxies' = DOMAIN proxies,
         \A p \in DOMAIN proxies : p # p0 => proxies'[p].clientM = proxies[p].clientM,
         \/ Inside(r)' /\ req'[r].todo = req[r].todo /\ proxies'[p0].clientM = r
         \/ ~Inside(r)' /\ proxies'[p0].clientM = Free
  PROVE  LockInv'
<1>1. ASSUME NEW q \in Requests, q # r
      PROVE  /\ Inside(q)' <=> Inside(q)
             /\ Proxy(q)' = Proxy(q) /\ req'[q].todo = req[q].todo
             /\ Inside(q) => Proxy(q) # p0 /\ Proxy(q) \in DOMAIN proxies
  <2>1. req'[q] = req[q]
    BY <1>1 DEF OnlyMoves
  <2>2. Inside(q) => proxies[Proxy(q)].clientM = q /\ Proxy(q) \in DOMAIN proxies
    BY AskedProxy DEF RequestInv, LockInv
  <2>3. q # Free
    BY RequestsAssumption
  <2> QED
    BY <1>1, <2>1, <2>2, <2>3 DEF Inside, Proxy
<1>2. Inside(r)' => Proxy(r)' = p0
  BY DEF Proxy, Inside
<1>3. ASSUME NEW q \in Requests, Inside(q)'
      PROVE  req'[q].todo # <<>> /\ proxies'[Proxy(q)'].clientM = q
  <2>1. CASE q = r
    BY <1>2, <1>3, <2>1
  <2>2. CASE q # r
    <3>1. Inside(q) /\ Proxy(q)' = Proxy(q) /\ req'[q].todo = req[q].todo
          /\ Proxy(q) # p0 /\ Proxy(q) \in DOMAIN proxies
      BY <1>1, <1>3, <2>2
    <3>2. req[q].todo # <<>> /\ proxies[Proxy(q)].clientM = q
      BY <3>1 DEF RequestInv, LockInv
    <3> QED
      BY <3>1, <3>2
  <2> QED
    BY <2>1, <2>2
<1>4. ASSUME NEW p \in DOMAIN proxies', NEW q \in Requests, proxies'[p].clientM = q
      PROVE  Inside(q)' /\ Proxy(q)' = p
  <2>1. CASE p = p0
    <3>1. q # Free
      BY RequestsAssumption
    <3>2. q = r /\ Inside(r)'
      BY <1>4, <2>1, <3>1
    <3> QED
      BY <1>2, <2>1, <3>2
  <2>2. CASE p # p0
    <3>1. proxies[p].clientM = q /\ p \in DOMAIN proxies
      BY <1>4, <2>2
    <3>2. Inside(q) /\ Proxy(q) = p
      BY <3>1 DEF RequestInv, LockInv
    <3> QED
      BY <1>1, <2>2, <3>2
  <2> QED
    BY <2>1, <2>2
<1> QED
  BY <1>3, <1>4 DEF LockInv

(* A request about to dial, while its proxy's client can only be taken away. *)
LEMMA DialKept ==
  ASSUME RequestInv, NEW q \in Requests, ClientsKept,
         req'[q].pc = "dial" =>
           /\ req[q].pc = "dial" /\ req'[q].todo = req[q].todo
           /\ proxies'[Proxy(q)].client \in {proxies[Proxy(q)].client, NoClient}
  PROVE  DialOK(q)'
<1> SUFFICES ASSUME req'[q].pc = "dial"
             PROVE  ClientOf(q)' = NoClient \/ clients'[ClientOf(q)'].isClosed
  BY DEF DialOK
<1>1. /\ Proxy(q)' = Proxy(q) /\ DialOK(q) /\ Inside(q)
  BY Parts DEF RequestInv, Proxy, Inside
<1>2. ClientOf(q)' \in {ClientOf(q), NoClient}
  BY <1>1 DEF ClientOf
<1>3. ClientOf(q) # NoClient => ClientOf(q) \in 1..Len(clients)
  BY <1>1, AskedProxy DEF RequestInv, LinkInv, ClientOf
<1> QED
  BY <1>1, <1>2, <1>3 DEF DialOK, ClientsKept

(* Counts, where nobody sends and no entry is removed.                       *)
LEMMA WaitingFinite ==
  /\ \A c : IsFiniteSet(Waiting(c)) /\ Cardinality(Waiting(c)) \in Nat
  /\ IsFiniteSet(Sent) /\ Cardinality(Sent) \in Nat
<1>1. IsFiniteSet(Requests)
  BY RequestsAssumption
<1>2. \A c : Waiting(c) \subseteq Requests
  BY DEF Waiting
<1>3. Sent \subseteq Requests
  BY DEF Sent
<1> QED
  BY <1>1, <1>2, <1>3, FS_Subset, FS_CardinalityType

LEMMA WaitingFiniteNext ==
  /\ \A c : IsFiniteSet(Waiting(c)') /\ Cardinality(Waiting(c)') \in Nat
  /\ IsFiniteSet(Sent') /\ Cardinality(Sent') \in Nat
<1>1. IsFiniteSet(Requests)
  BY RequestsAssumption
<1>2. \A c : Waiting(c)' \subseteq Requests
  BY DEF Waiting
<1>3. Sent' \subseteq Requests
  BY DEF Sent
<1> QED
  BY <1>1, <1>2, <1>3, FS_Subset, FS_CardinalityType

LEMMA CountKept ==
  ASSUME RequestInv, RepliesKept, clients' \in Seq(AnyClient),
         \A q \in Requests : req'[q].pc = "wait" =>
           req[q].pc = "wait" /\ Head(req'[q].pool) = Head(req[q].pool),
         \A q \in Requests : req[q].pc \in {"wait", "done"} => req'[q].pc \in {"wait", "done"}
  PROVE  CountInv'
<1>1. Sent \subseteq Sent' /\ \A c : Waiting(c)' \subseteq Waiting(c)
  BY DEF Sent, Waiting
<1>2. Cardinality(Sent) <= Cardinality(Sent')
  BY <1>1, WaitingFinite, WaitingFiniteNext, FS_Subset
<1>3. \A c : Cardinality(Waiting(c)') <= Cardinality(Waiting(c))
  BY <1>1, WaitingFinite, FS_Subset
<1>4. ASSUME NEW c \in 1..Len(clients')
      PROVE  /\ Cardinality(Waiting(c)') <= clients'[c].openReplies
             /\ clients'[c].openReplies <= Cardinality(Sent')
  <2>1. c \in 1..Len(clients) /\ clients'[c].openReplies = clients[c].openReplies
    BY DEF RepliesKept
  <2>2. /\ Cardinality(Waiting(c)) <= clients[c].openReplies /\ clients[c].openReplies <= Cardinality(Sent)
        /\ clients[c].openReplies \in Int
    BY <2>1, Types DEF RequestInv, CountInv, AnyClient
  <2>3. /\ Cardinality(Waiting(c)') \in Nat /\ Cardinality(Waiting(c)) \in Nat
        /\ Cardinality(Sent) \in Nat /\ Cardinality(Sent') \in Nat
    BY WaitingFinite, WaitingFiniteNext
  <2>4. Cardinality(Waiting(c)') <= Cardinality(Waiting(c))
    BY <1>3
  <2> QED
    BY <1>2, <2>1, <2>2, <2>3, <2>4
<1> QED
  BY <1>4 DEF CountInv

(* What each part of the invariant depends on.                               *)
LEMMA RequestFrames ==
  /\ FileTypes /\ UNCHANGED <<file, verifyRecords, setup, initialRefresh, due, crashed, scanned>> => FileTypes'
  /\ CacheTypes /\ UNCHANGED <<identIndex, actionIndex, proxies>> => CacheTypes'
  /\ CallTypes /\ UNCHANGED <<req, clients>> => CallTypes'
  /\ TodoInv /\ UNCHANGED <<req, proxies>> => TodoInv'
  /\ PoolInv /\ UNCHANGED <<req, clients>> => PoolInv'
  /\ IndexInv /\ UNCHANGED <<identIndex, actionIndex, proxies>> => IndexInv'
  /\ LinkInv /\ UNCHANGED <<proxies, clients>> => LinkInv'
  /\ TrustInv /\ UNCHANGED clients => TrustInv'
  /\ LockInv /\ UNCHANGED <<req, proxies>> => LockInv'
  /\ DialInv /\ UNCHANGED <<req, proxies, clients>> => DialInv'
  /\ CountInv /\ UNCHANGED <<req, clients>> => CountInv'
<1>1. FileTypes /\ UNCHANGED <<file, verifyRecords, setup, initialRefresh, due, crashed, scanned>> => FileTypes'
  BY DEF FileTypes
<1>2. CacheTypes /\ UNCHANGED <<identIndex, actionIndex, proxies>> => CacheTypes'
  BY DEF CacheTypes
<1>3. CallTypes /\ UNCHANGED <<req, clients>> => CallTypes'
  BY DEF CallTypes
<1>4. TodoInv /\ UNCHANGED <<req, proxies>> => TodoInv'
  BY DEF TodoInv
<1>5. PoolInv /\ UNCHANGED <<req, clients>> => PoolInv'
  BY DEF PoolInv
<1>6. IndexInv /\ UNCHANGED <<identIndex, actionIndex, proxies>> => IndexInv'
  BY DEF IndexInv
<1>7. LinkInv /\ UNCHANGED <<proxies, clients>> => LinkInv'
  BY DEF LinkInv
<1>8. TrustInv /\ UNCHANGED clients => TrustInv'
  BY DEF TrustInv
<1>9. LockInv /\ UNCHANGED <<req, proxies>> => LockInv'
  BY DEF LockInv, Inside, Proxy
<1>10. DialInv /\ UNCHANGED <<req, proxies, clients>> => DialInv'
  BY DEF DialInv, ClientOf, Proxy
<1>11. CountInv /\ UNCHANGED <<req, clients>> => CountInv'
  BY DEF CountInv, Waiting, Sent
<1> QED
  BY <1>1, <1>2, <1>3, <1>4, <1>5, <1>6, <1>7, <1>8, <1>9, <1>10, <1>11

(* The parts that relate requests, proxies and clients.                      *)
Relations == CacheTypes /\ CallTypes /\ TodoInv /\ PoolInv /\ IndexInv /\ LinkInv /\ LockInv /\ DialInv

(* The cache is refreshed, or not; no request enters or leaves GetClient.    *)
LEMMA RefreshKeeps ==
  ASSUME RequestInv, Refresh \/ UNCHANGED <<cacheVars, proxies>>, ClientsKept,
         req' \in [Requests -> RequestType],
         \A q \in Requests :
           /\ req'[q].todo = req[q].todo /\ req'[q].pool = req[q].pool
           /\ Inside(q)' <=> Inside(q)
           /\ req'[q].pc = "dial" => req[q].pc = "dial"
           /\ req'[q].pc \in {"sending", "wait"} => req'[q].pc = req[q].pc
  PROVE  Relations' /\ scanned' \in [recs : Files, verify : BOOLEAN]
<1>1. /\ CacheTypes' /\ IndexInv' /\ scanned' \in [recs : Files, verify : BOOLEAN]
      /\ \A p \in Held : p \in DOMAIN proxies' /\ proxies'[p] = proxies[p]
      /\ \A p \in DOMAIN proxies' :
           \/ p \in DOMAIN proxies /\ proxies'[p] = proxies[p]
           \/ Trusted(proxies'[p]) /\ proxies'[p].client = NoClient /\ proxies'[p].clientM = Free
  BY RefreshFacts
<1>2. CallTypes'
  BY DEF CallTypes, ClientsKept
<1>3. TodoInv'
  <2>1. HeldKept
    BY <1>1 DEF HeldKept
  <2>2. \A q \in Requests : TodoOK(q)'
    BY <2>1, TodoKept
  <2> QED
    BY <2>2 DEF TodoInv, TodoOK
<1>4. PoolInv'
  <2>1. \A q \in Requests : req[q].pc \in {"sending", "wait"} => req[q].pool # <<>>
    BY DEF RequestInv, PoolInv
  <2>2. \A q \in Requests : PoolOK(q)'
    BY <2>1, PoolKept
  <2> QED
    BY <2>2 DEF PoolInv, PoolOK
<1>5. LinkInv'
  <2>1. ASSUME NEW p \in DOMAIN proxies' PROVE LinkOK(p)'
    <3>1. CASE p \in DOMAIN proxies /\ proxies'[p] = proxies[p]
      BY <3>1, LinkKept
    <3>2. CASE Trusted(proxies'[p]) /\ proxies'[p].client = NoClient
      BY <3>2 DEF LinkOK
    <3> QED
      BY <1>1, <3>1, <3>2
  <2> QED
    BY <2>1 DEF LinkInv, LinkOK
<1>6. LockInv'
  BY <1>1, LockStays
<1>7. DialInv'
  <2>1. ASSUME NEW q \in Requests PROVE DialOK(q)'
    <3>1. req'[q].pc = "dial" => proxies'[Proxy(q)] = proxies[Proxy(q)]
      BY <1>1, AskedProxy DEF Inside
    <3> QED
      BY <3>1, DialKept
  <2> QED
    BY <2>1 DEF DialInv, DialOK
<1> QED
  BY <1>1, <1>2, <1>3, <1>4, <1>5, <1>6, <1>7 DEF Relations

(* A request moves outside GetClient, and the cache stays as it is.          *)
LEMMA OutsideMoves ==
  ASSUME RequestInv, NEW r \in Requests, OnlyMoves(r), ~Inside(r), ~Inside(r)',
         UNCHANGED <<identIndex, actionIndex, proxies>>, ClientsKept, TodoOK(r)', PoolOK(r)'
  PROVE  Relations'
<1>1. CacheTypes' /\ IndexInv'
  BY RequestFrames DEF RequestInv
<1>2. CallTypes'
  BY DEF CallTypes, ClientsKept, OnlyMoves
<1>3. \A q \in Requests : q # r => req'[q] = req[q]
  BY DEF OnlyMoves
<1>4. TodoInv'
  <2>1. HeldKept
    BY HeldExists DEF HeldKept
  <2>2. \A q \in Requests : TodoOK(q)'
    BY <1>3, <2>1, TodoKept
  <2> QED
    BY <2>2 DEF TodoInv, TodoOK
<1>5. PoolInv'
  <2>1. \A q \in Requests : req[q].pc \in {"sending", "wait"} => req[q].pool # <<>>
    BY DEF RequestInv, PoolInv
  <2>2. \A q \in Requests : PoolOK(q)'
    BY <1>3, <2>1, PoolKept
  <2> QED
    BY <2>2 DEF PoolInv, PoolOK
<1>6. LinkInv'
  <2>1. \A p \in DOMAIN proxies : LinkOK(p)'
    BY LinkKept
  <2> QED
    BY <2>1 DEF LinkInv, LinkOK
<1>7. LockInv'
  <2>1. \A q \in Requests : (Inside(q)' <=> Inside(q)) /\ (Inside(q) => req'[q].todo = req[q].todo)
    BY <1>3 DEF Inside
  <2> QED
    BY <2>1, HeldExists, LockStays
<1>8. DialInv'
  <2>1. ASSUME NEW q \in Requests PROVE DialOK(q)'
    <3>1. CASE q = r
      BY <3>1 DEF DialOK, Inside
    <3>2. CASE q # r
      BY <1>3, <3>2, DialKept
    <3> QED
      BY <3>1, <3>2
  <2> QED
    BY <2>1 DEF DialInv, DialOK
<1> QED
  BY <1>1, <1>2, <1>4, <1>5, <1>6, <1>7, <1>8 DEF Relations

(* A request moves into GetClient, inside it or out of it, and changes the   *)
(* client and clientM of the proxy it asks.                                  *)
LEMMA ProxyMoves ==
  ASSUME RequestInv, NEW r \in Requests, OnlyMoves(r), req[r].todo # <<>>,
         NEW p0 \in DOMAIN proxies, p0 = Proxy(r), proxies[p0].clientM \in {Free, r},
         NEW x \in ProxyType, proxies' = [proxies EXCEPT ![p0] = x],
         x.rec = proxies[p0].rec, x.verified = proxies[p0].verified,
         \/ Inside(r)' /\ req'[r].todo = req[r].todo /\ x.clientM = r
         \/ ~Inside(r)' /\ x.clientM = Free,
         UNCHANGED <<identIndex, actionIndex>>, ClientsKept,
         LinkOK(p0)', TodoOK(r)', PoolOK(r)', DialOK(r)'
  PROVE  Relations'
<1>1. proxies \in [DOMAIN proxies -> ProxyType] /\ DOMAIN proxies \subseteq Pids
  BY DEF RequestInv, CacheTypes
<1>2. /\ DOMAIN proxies' = DOMAIN proxies /\ proxies' \in [DOMAIN proxies -> ProxyType]
      /\ proxies'[p0] = x /\ \A p \in DOMAIN proxies : p # p0 => proxies'[p] = proxies[p]
  BY <1>1
<1>3. CacheTypes'
  BY <1>1, <1>2 DEF RequestInv, CacheTypes
<1>4. \A p \in DOMAIN proxies : proxies'[p].rec = proxies[p].rec
  BY <1>2
<1>5. IndexInv'
  BY <1>2, <1>4 DEF RequestInv, IndexInv
<1>6. CallTypes'
  BY DEF CallTypes, ClientsKept, OnlyMoves
<1>7. \A q \in Requests : q # r => req'[q] = req[q]
  BY DEF OnlyMoves
<1>8. TodoInv'
  <2>1. HeldKept
    BY <1>2, <1>4, HeldExists DEF HeldKept
  <2>2. \A q \in Requests : TodoOK(q)'
    BY <1>7, <2>1, TodoKept
  <2> QED
    BY <2>2 DEF TodoInv, TodoOK
<1>9. PoolInv'
  <2>1. \A q \in Requests : req[q].pc \in {"sending", "wait"} => req[q].pool # <<>>
    BY DEF RequestInv, PoolInv
  <2>2. \A q \in Requests : PoolOK(q)'
    BY <1>7, <2>1, PoolKept
  <2> QED
    BY <2>2 DEF PoolInv, PoolOK
<1>10. LinkInv'
  <2>1. ASSUME NEW p \in DOMAIN proxies PROVE LinkOK(p)'
    <3>1. CASE p # p0
      BY <1>2, <3>1, LinkKept
    <3> QED
      BY <3>1
  <2> QED
    BY <1>2, <2>1 DEF LinkInv, LinkOK
<1>11. LockInv'
  BY <1>2, LockMoves
<1>12. DialInv'
  <2>1. ASSUME NEW q \in Requests PROVE DialOK(q)'
    <3>1. CASE q # r /\ req[q].pc = "dial"
      <4>1. proxies[Proxy(q)].clientM = q /\ Proxy(q) \in DOMAIN proxies
        BY <3>1, AskedProxy DEF RequestInv, LockInv, Inside
      <4>2. Proxy(q) # p0
        BY <3>1, <4>1, RequestsAssumption
      <4>3. proxies'[Proxy(q)] = proxies[Proxy(q)]
        BY <1>2, <4>1, <4>2
      <4> QED
        BY <1>7, <3>1, <4>3, DialKept
    <3>2. CASE q # r /\ req[q].pc # "dial"
      BY <1>7, <3>2 DEF DialOK
    <3> QED
      BY <3>1, <3>2
  <2> QED
    BY <2>1 DEF DialInv, DialOK
<1> QED
  BY <1>3, <1>5, <1>6, <1>8, <1>9, <1>10, <1>11, <1>12 DEF Relations

-----------------------------------------------------------------------------
(* Requests, proxies and clients: one lemma per operation *)

(* The other parts, where only requests and clients change.                  *)
LEMMA Whole ==
  ASSUME RequestInv, Relations', TrustInv', CountInv',
         UNCHANGED <<file, verifyRecords, setup, initialRefresh, due, crashed, scanned>>
  PROVE  RequestInv'
  BY RequestFrames DEF RequestInv, Relations

(* Clients that stay as they are, and those that keep what they were made of.*)
LEMMA TrustStays == RequestInv /\ UNCHANGED clients => TrustInv'
  BY RequestFrames DEF RequestInv

(* markRefresh.                                                              *)
LEMMA SearchInv ==
  ASSUME RequestInv, NEW r \in Requests, Search(r)
  PROVE  RequestInv'
<1>1. req[r].pc = "idle" /\ UNCHANGED <<file, verifyRecords, setup, clients, crashed>>
  BY DEF Search, refresherVars, ownerVars
<1>2. /\ OnlyMoves(r) /\ req'[r].pc = "search"
      /\ req'[r].todo = req[r].todo /\ req'[r].pool = req[r].pool
  BY GotoFacts DEF Search, RequestPcs
<1>3. \A q \in Requests : /\ req'[q].todo = req[q].todo /\ req'[q].pool = req[q].pool
                          /\ q # r => req'[q] = req[q]
  BY <1>2 DEF OnlyMoves
<1>4. Refresh \/ UNCHANGED <<cacheVars, proxies>>
  BY DEF Search, ReactiveRefresh
<1>5. ClientsKept /\ RepliesKept
  BY <1>1, ClientsStay
<1>6. Relations' /\ scanned' \in [recs : Files, verify : BOOLEAN]
  <2>1. \A q \in Requests : /\ Inside(q)' <=> Inside(q)
                            /\ req'[q].pc = "dial" => req[q].pc = "dial"
                            /\ req'[q].pc \in {"sending", "wait"} => req'[q].pc = req[q].pc
    BY <1>1, <1>2, <1>3 DEF Inside
  <2> QED
    BY <1>2, <1>3, <1>4, <1>5, <2>1, RefreshKeeps DEF OnlyMoves
<1>7. CountInv'
  <2>1. \A q \in Requests :
          /\ req'[q].pc = "wait" => req[q].pc = "wait" /\ Head(req'[q].pool) = Head(req[q].pool)
          /\ req[q].pc \in {"wait", "done"} => req'[q].pc \in {"wait", "done"}
    BY <1>1, <1>2, <1>3
  <2> QED
    BY <1>5, <2>1, CountKept DEF ClientsKept
<1>8. TrustInv'
  BY <1>1, TrustStays
<1>9. initialRefresh' \in BOOLEAN /\ due' \in BOOLEAN
  BY DEF Search, ReactiveRefresh, dueVars, RequestInv, FileTypes
<1>10. FileTypes'
  BY <1>1, <1>6, <1>9 DEF RequestInv, FileTypes
<1> QED
  BY <1>6, <1>7, <1>8, <1>10 DEF RequestInv, Relations

(* The goroutine of Run.                                                     *)
LEMMA LoopRefreshKeeps ==
  ASSUME RequestInv, NEW o \in Owners, LoopRefresh(o)
  PROVE  RequestInv'
<1>1. /\ UNCHANGED <<file, verifyRecords, setup, due, req, clients, crashed>>
      /\ Refresh /\ initialRefresh' = TRUE
  BY DEF LoopRefresh, ownerVars
<1>2. ClientsKept /\ req' \in [Requests -> RequestType]
  BY <1>1, ClientsStay, Types
<1>3. Relations' /\ scanned' \in [recs : Files, verify : BOOLEAN]
  <2>1. \A q \in Requests : Inside(q)' <=> Inside(q)
    BY <1>1 DEF Inside
  <2> QED
    BY <1>1, <1>2, <2>1, RefreshKeeps
<1>4. CountInv' /\ TrustInv'
  BY <1>1, RequestFrames DEF RequestInv
<1>5. FileTypes'
  BY <1>1, <1>3 DEF RequestInv, FileTypes
<1> QED
  BY <1>3, <1>4, <1>5 DEF RequestInv, Relations

(* The proxies found provide the action.                                     *)
LEMMA SearchByActionInv ==
  ASSUME RequestInv, NEW r \in Requests, SearchByAction(r)
  PROVE  RequestInv'
<1>1. /\ req[r].pc = "search" /\ UNCHANGED <<identIndex, actionIndex, proxies, clients>>
      /\ UNCHANGED <<file, verifyRecords, setup, initialRefresh, due, crashed, scanned>>
  BY DEF SearchByAction, refresherVars, ownerVars, dueVars, cacheVars
<1>2. ToLower[Wanted[r]] \in Actions
  BY RequestsAssumption, NamesAssumption
<1>3. PICK a \in Actions : a = ToLower[Wanted[r]]
  BY <1>2
<1>4. PICK found \in Seq(Pids) : found = actionIndex[a]
  BY DEF RequestInv, CacheTypes
<1>5. PICK x : x = IF found = <<>> THEN Done ELSE [pc |-> "get", todo |-> found, pool |-> <<>>]
  OBVIOUS
<1>6. /\ x \in RequestType /\ x.pc \in {"get", "done"} /\ x.pool = <<>>
      /\ x.todo = found
  <2>1. <<>> \in Seq(Nat) /\ <<>> \in Seq(Pids)
    OBVIOUS
  <2> QED
    BY <1>5, <2>1 DEF RequestType, RequestPcs, Done
<1>7. OnlyMoves(r) /\ req'[r] = x
  <2>1. req' = [req EXCEPT ![r] = x]
    BY <1>3, <1>4, <1>5 DEF SearchByAction
  <2> QED
    BY <1>6, <2>1, RequestMoves
<1>8. TodoOK(r)'
  <2>1. \A k \in 1..Len(found) : /\ found[k] \in DOMAIN proxies
                                 /\ Provides(proxies[found[k]].rec, a)
                                 /\ found[k][1] = found[1][1]
    BY <1>4 DEF RequestInv, IndexInv
  <2> QED
    BY <1>1, <1>3, <1>6, <1>7, <2>1 DEF TodoOK
<1>9. PoolOK(r)'
  <2>1. Len(<<>>) = 0
    OBVIOUS
  <2> QED
    BY <1>6, <1>7, <2>1 DEF PoolOK
<1>10. ClientsKept /\ RepliesKept
  BY <1>1, ClientsStay
<1>11. Relations'
  <2>1. ~Inside(r) /\ ~Inside(r)'
    BY <1>1, <1>6, <1>7 DEF Inside
  <2> QED
    BY <1>1, <1>7, <1>8, <1>9, <1>10, <2>1, OutsideMoves
<1>12. CountInv'
  <2>1. \A q \in Requests :
          /\ req'[q].pc = "wait" => req[q].pc = "wait" /\ Head(req'[q].pool) = Head(req[q].pool)
          /\ req[q].pc \in {"wait", "done"} => req'[q].pc \in {"wait", "done"}
    BY <1>1, <1>6, <1>7 DEF OnlyMoves
  <2> QED
    BY <1>10, <2>1, CountKept DEF ClientsKept
<1> QED
  BY <1>1, <1>11, <1>12, TrustStays, Whole

(* GetClient takes clientM: no other request is inside for this proxy.       *)
LEMMA GetClientInv ==
  ASSUME RequestInv, NEW r \in Requests, GetClient(r)
  PROVE  RequestInv'
<1>1. /\ req[r].pc = "get" /\ req[r].todo # <<>> /\ UNCHANGED <<identIndex, actionIndex, clients>>
      /\ UNCHANGED <<file, verifyRecords, setup, initialRefresh, due, crashed, scanned>>
  BY DEF GetClient, refresherVars, ownerVars, dueVars, cacheVars
<1>2. PICK p0 \in DOMAIN proxies : p0 = Proxy(r) /\ proxies[p0] \in ProxyType
  BY <1>1, AskedProxy
<1>3. proxies[p0].clientM = Free /\ proxies' = [proxies EXCEPT ![p0].clientM = r]
  BY <1>2 DEF GetClient
<1>4. PICK x : x = [proxies[p0] EXCEPT !.clientM = r]
  OBVIOUS
<1>5. /\ x \in ProxyType /\ x.rec = proxies[p0].rec /\ x.verified = proxies[p0].verified
      /\ x.client = proxies[p0].client /\ x.clientM = r
  BY <1>2, <1>4 DEF ProxyType
<1>6. proxies' = [proxies EXCEPT ![p0] = x]
  BY <1>3, <1>4 DEF RequestInv, CacheTypes
<1>7. proxies'[p0] = x
  BY <1>2, <1>6 DEF RequestInv, CacheTypes
<1>8. PICK pc \in {"dial", "isClosed"} : pc = (IF ClientOf(r) = NoClient THEN "dial" ELSE "isClosed")
  OBVIOUS
<1>9. /\ OnlyMoves(r) /\ req'[r].pc = pc
      /\ req'[r].todo = req[r].todo /\ req'[r].pool = req[r].pool
  <2>1. pc \in RequestPcs /\ Goto(r, pc)
    BY <1>8 DEF GetClient, RequestPcs
  <2> QED
    BY <2>1, GotoFacts
<1>10. ClientsKept /\ RepliesKept
  BY <1>1, ClientsStay
<1>11. LinkOK(p0)'
  BY <1>5, <1>7, <1>10, LinkKept
<1>12. TodoOK(r)'
  <2>1. HeldKept
    <3>1. \A p \in DOMAIN proxies : p \in DOMAIN proxies' /\ proxies'[p].rec = proxies[p].rec
      BY <1>5, <1>6 DEF RequestInv, CacheTypes
    <3> QED
      BY <3>1, HeldExists DEF HeldKept
  <2> QED
    BY <1>9, <2>1, TodoKept
<1>13. PoolOK(r)'
  BY <1>9, <1>10, PoolKept
<1>14. DialOK(r)'
  <2>1. Proxy(r)' = p0
    BY <1>2, <1>9 DEF Proxy
  <2>2. ClientOf(r)' = ClientOf(r)
    BY <1>2, <1>5, <1>7, <2>1 DEF ClientOf
  <2> QED
    BY <1>8, <1>9, <2>2 DEF DialOK
<1>15. Relations'
  <2>1. Inside(r)' /\ proxies[p0].clientM \in {Free, r}
    BY <1>3, <1>8, <1>9 DEF Inside
  <2> QED
    BY <1>1, <1>2, <1>5, <1>6, <1>9, <1>10, <1>11, <1>12, <1>13, <1>14, <2>1, ProxyMoves
<1>16. CountInv'
  <2>1. \A q \in Requests :
          /\ req'[q].pc = "wait" => req[q].pc = "wait" /\ Head(req'[q].pool) = Head(req[q].pool)
          /\ req[q].pc \in {"wait", "done"} => req'[q].pc \in {"wait", "done"}
    BY <1>1, <1>8, <1>9 DEF OnlyMoves
  <2> QED
    BY <1>10, <2>1, CountKept DEF ClientsKept
<1> QED
  BY <1>1, <1>15, <1>16, TrustStays, Whole

(* A closed client lets the request dial.                                    *)
LEMMA CheckClosedInv ==
  ASSUME RequestInv, NEW r \in Requests, CheckClosed(r)
  PROVE  RequestInv'
<1>1. /\ req[r].pc = "isClosed" /\ UNCHANGED <<identIndex, actionIndex, proxies, clients>>
      /\ UNCHANGED <<file, verifyRecords, setup, initialRefresh, due, crashed, scanned>>
  BY DEF CheckClosed, refresherVars, ownerVars, dueVars, cacheVars
<1>2. Inside(r)
  BY <1>1 DEF Inside
<1>3. PICK pc \in {"dial", "bind"} : pc = (IF clients[ClientOf(r)].isClosed THEN "dial" ELSE "bind")
  OBVIOUS
<1>4. /\ OnlyMoves(r) /\ req'[r].pc = pc
      /\ req'[r].todo = req[r].todo /\ req'[r].pool = req[r].pool
  <2>1. pc \in RequestPcs /\ Goto(r, pc)
    BY <1>3 DEF CheckClosed, RequestPcs
  <2> QED
    BY <2>1, GotoFacts
<1>5. \A q \in Requests : q # r => req'[q] = req[q]
  BY <1>4 DEF OnlyMoves
<1>6. ClientsKept /\ RepliesKept
  BY <1>1, ClientsStay
<1>7. CacheTypes' /\ IndexInv' /\ LinkInv' /\ TrustInv'
  BY <1>1, RequestFrames DEF RequestInv
<1>8. CallTypes'
  BY <1>4, <1>6 DEF CallTypes, ClientsKept, OnlyMoves
<1>9. TodoInv'
  <2>1. HeldKept
    BY <1>1, HeldExists DEF HeldKept
  <2>2. \A q \in Requests : TodoOK(q)'
    BY <1>4, <1>5, <2>1, TodoKept
  <2> QED
    BY <2>2 DEF TodoInv, TodoOK
<1>10. PoolInv'
  <2>1. \A q \in Requests : req[q].pc \in {"sending", "wait"} => req[q].pool # <<>>
    BY DEF RequestInv, PoolInv
  <2>2. \A q \in Requests : PoolOK(q)'
    BY <1>3, <1>4, <1>5, <1>6, <2>1, PoolKept
  <2> QED
    BY <2>2 DEF PoolInv, PoolOK
<1>11. LockInv'
  <2>1. \A q \in Requests : (Inside(q)' <=> Inside(q)) /\ (Inside(q) => req'[q].todo = req[q].todo)
    BY <1>2, <1>3, <1>4, <1>5 DEF Inside
  <2> QED
    BY <1>1, <2>1, HeldExists, LockStays
<1>12. DialInv'
  <2>1. ASSUME NEW q \in Requests PROVE DialOK(q)'
    <3>1. CASE q = r
      <4>1. ClientOf(r)' = ClientOf(r)
        BY <1>1, <1>4 DEF ClientOf, Proxy
      <4> QED
        BY <1>1, <1>3, <1>4, <3>1, <4>1 DEF DialOK
    <3>2. CASE q # r
      BY <1>1, <1>5, <1>6, <3>2, DialKept
    <3> QED
      BY <3>1, <3>2
  <2> QED
    BY <2>1 DEF DialInv, DialOK
<1>13. CountInv'
  <2>1. \A q \in Requests :
          /\ req'[q].pc = "wait" => req[q].pc = "wait" /\ Head(req'[q].pool) = Head(req[q].pool)
          /\ req[q].pc \in {"wait", "done"} => req'[q].pc \in {"wait", "done"}
    BY <1>1, <1>3, <1>4, <1>5
  <2> QED
    BY <1>6, <2>1, CountKept DEF ClientsKept
<1> QED
  BY <1>1, <1>7, <1>8, <1>9, <1>10, <1>11, <1>12, <1>13, Whole DEF Relations

(* Without the first of them, the proxies still to be asked.                 *)
LEMMA TodoTail ==
  ASSUME RequestInv, NEW r \in Requests, HeldKept, req[r].todo # <<>>, req'[r].todo = Tail(req[r].todo)
  PROVE  TodoOK(r)'
<1>1. req[r].todo \in Seq(Pids) /\ TodoOK(r) /\ \A k \in 1..Len(req[r].todo) : req[r].todo[k] \in Held
  BY Types, Parts, HeldExists DEF RequestInv
<1>2. PICK s \in Seq(Pids) : s = req[r].todo
  BY <1>1
<1>3. Len(s) \in Nat /\ Len(Tail(s)) = Len(s) - 1 /\ \A k \in 1..(Len(s) - 1) : Tail(s)[k] = s[k + 1] /\ k + 1 \in 1..Len(s)
  BY <1>2
<1>4. ASSUME NEW k \in 1..(Len(s) - 1)
      PROVE  /\ s[k + 1] \in DOMAIN proxies' /\ Provides(proxies'[s[k + 1]].rec, ToLower[Wanted[r]])
             /\ s[k + 1][1] = s[1][1]
  <2>1. PICK j \in 1..Len(s) : j = k + 1
    BY <1>3
  <2>2. /\ s[j] \in Held /\ Provides(proxies[s[j]].rec, ToLower[Wanted[r]]) /\ s[j][1] = s[1][1]
    BY <1>1, <1>2 DEF TodoOK
  <2> QED
    BY <2>1, <2>2 DEF HeldKept
<1>5. ASSUME NEW k \in 1..(Len(s) - 1)
      PROVE  /\ Tail(s)[k] \in DOMAIN proxies' /\ Provides(proxies'[Tail(s)[k]].rec, ToLower[Wanted[r]])
             /\ Tail(s)[k][1] = Tail(s)[1][1]
  <2>1. 1 \in 1..(Len(s) - 1)
    BY <1>3
  <2>2. Tail(s)[k] = s[k + 1] /\ Tail(s)[1] = s[1 + 1]
    BY <1>3, <2>1
  <2> QED
    BY <1>4, <2>1, <2>2
<1> QED
  BY <1>2, <1>3, <1>5 DEF TodoOK

(* GetClient fails: the lock is released, and a client only taken away.      *)
LEMMA GetClientFailsInv ==
  ASSUME RequestInv, NEW r \in Requests, Inside(r), NEW client \in {ClientOf(r), NoClient},
         GetClientFails(r, client)
  PROVE  RequestInv'
<1>1. /\ UNCHANGED <<identIndex, actionIndex, clients>>
      /\ UNCHANGED <<file, verifyRecords, setup, initialRefresh, due, crashed, scanned>>
  BY DEF GetClientFails, refresherVars, ownerVars, dueVars, cacheVars
<1>2. req[r].todo # <<>> /\ req[r].todo \in Seq(Pids)
  BY AskedProxy
<1>3. PICK p0 \in DOMAIN proxies : p0 = Proxy(r) /\ proxies[p0] \in ProxyType
  BY AskedProxy
<1>4. proxies[p0].clientM = r
  BY <1>3 DEF RequestInv, LockInv
<1>5. PICK x : x = [proxies[p0] EXCEPT !.client = client, !.clientM = Free]
  OBVIOUS
<1>6. /\ x \in ProxyType /\ x.rec = proxies[p0].rec /\ x.verified = proxies[p0].verified
      /\ x.client \in {proxies[p0].client, NoClient} /\ x.clientM = Free
  <2>1. client \in Nat /\ client \in {proxies[p0].client, NoClient}
    BY <1>3 DEF ProxyType, ClientOf, NoClient
  <2> QED
    BY <1>3, <1>5, <2>1 DEF ProxyType
<1>7. proxies' = [proxies EXCEPT ![p0] = x]
  BY <1>3, <1>5 DEF RequestInv, CacheTypes, GetClientFails
<1>8. proxies'[p0] = x /\ \A p \in DOMAIN proxies : p \in DOMAIN proxies' /\ proxies'[p].rec = proxies[p].rec
  BY <1>3, <1>6, <1>7 DEF RequestInv, CacheTypes
<1>9. PICK y : y = [req[r] EXCEPT !.pc = "get", !.todo = Tail(req[r].todo)]
  OBVIOUS
<1>10. y \in RequestType /\ y.pc = "get" /\ y.todo = Tail(req[r].todo) /\ y.pool = req[r].pool
  <2>1. req[r] \in RequestType /\ Tail(req[r].todo) \in Seq(Pids)
    BY <1>2, Types
  <2> QED
    BY <1>9, <2>1 DEF RequestType, RequestPcs
<1>11. OnlyMoves(r) /\ req'[r] = y
  <2>1. req' = [req EXCEPT ![r] = y]
    BY <1>9, Types DEF GetClientFails, RequestType
  <2> QED
    BY <1>10, <2>1, RequestMoves
<1>12. ClientsKept /\ RepliesKept
  BY <1>1, ClientsStay
<1>13. LinkOK(p0)'
  BY <1>6, <1>8, <1>12, LinkKept
<1>14. TodoOK(r)'
  <2>1. HeldKept
    BY <1>8, HeldExists DEF HeldKept
  <2> QED
    BY <1>2, <1>10, <1>11, <2>1, TodoTail
<1>15. PoolOK(r)'
  BY <1>10, <1>11, <1>12, PoolKept
<1>16. DialOK(r)' /\ ~Inside(r)'
  BY <1>10, <1>11 DEF DialOK, Inside
<1>17. Relations'
  BY <1>1, <1>2, <1>3, <1>4, <1>6, <1>7, <1>11, <1>12, <1>13, <1>14, <1>15, <1>16, ProxyMoves
<1>18. CountInv'
  <2>1. \A q \in Requests :
          /\ req'[q].pc = "wait" => req[q].pc = "wait" /\ Head(req'[q].pool) = Head(req[q].pool)
          /\ req[q].pc \in {"wait", "done"} => req'[q].pc \in {"wait", "done"}
    BY <1>10, <1>11 DEF OnlyMoves, Inside
  <2> QED
    BY <1>12, <2>1, CountKept DEF ClientsKept
<1> QED
  BY <1>1, <1>17, <1>18, TrustStays, Whole

(* A client that is dialled joins the clients, for the announcement of the   *)
(* proxy; nobody waits for it yet.                                           *)
LEMMA DialOkInv ==
  ASSUME RequestInv, NEW r \in Requests, DialOk(r)
  PROVE  RequestInv'
<1>1. /\ req[r].pc = "dial" /\ Len(clients) < MaxClients /\ UNCHANGED <<identIndex, actionIndex>>
      /\ UNCHANGED <<file, verifyRecords, setup, initialRefresh, due, crashed, scanned>>
  BY DEF DialOk, refresherVars, ownerVars, dueVars, cacheVars
<1>2. Inside(r) /\ req[r].todo # <<>>
  BY <1>1, AskedProxy DEF Inside
<1>3. PICK p0 \in DOMAIN proxies : /\ p0 = Proxy(r) /\ proxies[p0] \in ProxyType
                                   /\ Provides(proxies[p0].rec, ToLower[Wanted[r]])
  BY <1>2, AskedProxy
<1>4. proxies[p0].clientM = r /\ Trusted(proxies[p0])
  BY <1>2, <1>3 DEF RequestInv, LockInv, LinkInv
<1>5. /\ clients \in Seq(AnyClient) /\ Len(clients) \in Nat /\ MaxClients \in Nat
  BY Types, ClientsAssumption
<1>6. PICK new : new = NewClient(proxies[p0])
  OBVIOUS
<1>7. /\ new \in AnyClient /\ new.rec = proxies[p0].rec /\ new.verified = proxies[p0].verified
      /\ new.openReplies = 0 /\ new.sendM = Free /\ \A k \in Closers : new.closer[k] = "no"
  <2>1. [k \in Closers |-> "no"] \in [Closers -> CloserPcs]
    BY DEF CloserPcs
  <2>2. proxies[p0].rec \in Announcement /\ proxies[p0].verified \in BOOLEAN
    BY <1>3 DEF ProxyType
  <2> QED
    BY <1>6, <2>1, <2>2 DEF NewClient, AnyClient
<1>8. PICK n \in Nat : n = Len(clients) + 1
  BY <1>5
<1>9. clients' = Append(clients, new)
  BY <1>3, <1>6 DEF DialOk
<1>10. /\ clients' \in Seq(AnyClient) /\ Len(clients') = n /\ clients'[n] = new
       /\ \A c \in 1..Len(clients) : clients'[c] = clients[c]
  BY <1>5, <1>7, <1>8, <1>9
<1>11. ClientsKept
  BY <1>1, <1>5, <1>8, <1>10 DEF ClientsKept
<1>12. PICK x : x = [proxies[p0] EXCEPT !.client = n]
  OBVIOUS
<1>13. /\ x \in ProxyType /\ x.rec = proxies[p0].rec /\ x.verified = proxies[p0].verified
       /\ x.client = n /\ x.clientM = r
  BY <1>3, <1>4, <1>12 DEF ProxyType
<1>14. proxies' = [proxies EXCEPT ![p0] = x]
  BY <1>3, <1>8, <1>12 DEF RequestInv, CacheTypes, DialOk
<1>15. proxies'[p0] = x /\ \A p \in DOMAIN proxies : p \in DOMAIN proxies' /\ proxies'[p].rec = proxies[p].rec
  BY <1>3, <1>13, <1>14 DEF RequestInv, CacheTypes
<1>16. /\ OnlyMoves(r) /\ req'[r].pc = "bind"
       /\ req'[r].todo = req[r].todo /\ req'[r].pool = req[r].pool
  BY GotoFacts DEF DialOk, RequestPcs
<1>17. LinkOK(p0)'
  <2>1. n \in 1..n
    BY <1>5, <1>8
  <2>2. Trusted(proxies[p0])'
    BY <1>4, <1>13, <1>15 DEF Trusted
  <2> QED
    BY <1>7, <1>10, <1>13, <1>15, <2>1, <2>2 DEF LinkOK
<1>18. TodoOK(r)'
  <2>1. HeldKept
    BY <1>15, HeldExists DEF HeldKept
  <2> QED
    BY <1>16, <2>1, TodoKept
<1>19. PoolOK(r)'
  BY <1>11, <1>16, PoolKept
<1>20. DialOK(r)' /\ Inside(r)'
  BY <1>16 DEF DialOK, Inside
<1>21. Relations'
  BY <1>1, <1>2, <1>3, <1>4, <1>11, <1>13, <1>14, <1>16, <1>17, <1>18, <1>19, <1>20, ProxyMoves
<1>22. TrustInv'
  <2>1. ASSUME NEW c \in 1..n
        PROVE  /\ Trusted(clients'[c])
               /\ \A k \in Closers : clients'[c].closer[k] = "retrieve" => clients'[c].spIdent # NoIdent
    <3>1. CASE c \in 1..Len(clients)
      BY <1>10, <3>1 DEF RequestInv, TrustInv
    <3>2. CASE c = n
      BY <1>4, <1>7, <1>10, <3>2 DEF Trusted
    <3> QED
      BY <1>5, <1>8, <3>1, <3>2
  <2> QED
    BY <1>10, <2>1 DEF TrustInv
<1>23. CountInv'
  <2>1. \A q \in Requests : /\ req'[q].pc = "wait" <=> req[q].pc = "wait"
                            /\ req'[q].pool = req[q].pool
                            /\ req'[q].pc \in {"wait", "done"} <=> req[q].pc \in {"wait", "done"}
    BY <1>1, <1>16 DEF OnlyMoves
  <2>2. Sent' = Sent /\ \A c : Waiting(c)' = Waiting(c)
    BY <2>1 DEF Sent, Waiting
  <2>3. Waiting(n) = {}
    <3> SUFFICES ASSUME NEW q \in Requests, req[q].pc = "wait", Head(req[q].pool) = n PROVE FALSE
      BY DEF Waiting
    <3>1. req[q].pool \in Seq(Nat) /\ req[q].pool # <<>>
      BY Types DEF RequestInv, PoolInv
    <3>2. 1 \in 1..Len(req[q].pool) /\ Head(req[q].pool) = req[q].pool[1]
      BY <3>1
    <3>3. n \in 1..Len(clients)
      BY <3>2 DEF RequestInv, PoolInv
    <3> QED
      BY <1>5, <1>8, <3>3
  <2>4. ASSUME NEW c \in 1..n
        PROVE  Cardinality(Waiting(c)') <= clients'[c].openReplies /\ clients'[c].openReplies <= Cardinality(Sent')
    <3>1. CASE c \in 1..Len(clients)
      BY <1>10, <2>2, <3>1 DEF RequestInv, CountInv
    <3>2. CASE c = n
      <4>1. Cardinality(Waiting(n)) = 0 /\ Cardinality(Sent) \in Nat
        BY <2>3, FS_EmptySet, WaitingFinite
      <4> QED
        BY <1>7, <1>10, <2>2, <3>2, <4>1
    <3> QED
      BY <1>5, <1>8, <3>1, <3>2
  <2> QED
    BY <1>10, <2>4 DEF CountInv
<1> QED
  BY <1>1, <1>21, <1>22, <1>23, Whole

(* The client of the proxy joins the pool: it provides what the proxy does.  *)
LEMMA BindInv ==
  ASSUME RequestInv, NEW r \in Requests, Bind(r)
  PROVE  RequestInv'
<1>1. /\ req[r].pc = "bind" /\ ClientOf(r) # NoClient /\ UNCHANGED <<identIndex, actionIndex>>
      /\ UNCHANGED <<file, verifyRecords, setup, initialRefresh, due, crashed, scanned>>
  BY DEF Bind, refresherVars, ownerVars, dueVars, cacheVars
<1>2. Inside(r) /\ req[r].todo # <<>> /\ req[r].todo \in Seq(Pids)
  BY <1>1, AskedProxy DEF Inside
<1>3. PICK p0 \in DOMAIN proxies : /\ p0 = Proxy(r) /\ proxies[p0] \in ProxyType
                                   /\ Provides(proxies[p0].rec, ToLower[Wanted[r]])
  BY <1>2, AskedProxy
<1>4. proxies[p0].clientM = r
  BY <1>2, <1>3 DEF RequestInv, LockInv
<1>5. PICK c \in 1..Len(clients) : c = ClientOf(r) /\ clients[c].rec = proxies[p0].rec /\ proxies[p0].client = c
  BY <1>1, <1>3 DEF RequestInv, LinkInv, ClientOf
<1>6. clients[c] \in AnyClient /\ DOMAIN clients = 1..Len(clients) /\ c \in Nat
  BY Types
<1>7. PICK z : z = [clients[c] EXCEPT !.spIdent = proxies[p0].rec.ident]
  OBVIOUS
<1>8. proxies[p0].rec.ident \in Idents
  BY <1>3 DEF ProxyType, Announcement
<1>9. /\ z \in AnyClient /\ z.rec = clients[c].rec /\ z.verified = clients[c].verified
      /\ z.isClosed = clients[c].isClosed /\ z.openReplies = clients[c].openReplies
      /\ z.closer = clients[c].closer /\ z.spIdent # NoIdent
  BY <1>6, <1>7, <1>8, ClientsAssumption DEF AnyClient
<1>10. clients' = [clients EXCEPT ![c] = z]
  BY <1>3, <1>5, <1>6, <1>7, Types DEF Bind
<1>11. /\ ClientsKept /\ Len(clients') = Len(clients)
       /\ clients'[c] = z /\ \A d \in 1..Len(clients) : d # c => clients'[d] = clients[d]
  BY <1>6, <1>9, <1>10, ClientChanges
<1>12. RepliesKept
  BY <1>9, <1>11 DEF RepliesKept
<1>13. PICK x : x = [proxies[p0] EXCEPT !.clientM = Free]
  OBVIOUS
<1>14. /\ x \in ProxyType /\ x.rec = proxies[p0].rec /\ x.verified = proxies[p0].verified
       /\ x.client = proxies[p0].client /\ x.clientM = Free
  BY <1>3, <1>13 DEF ProxyType
<1>15. proxies' = [proxies EXCEPT ![p0] = x]
  BY <1>3, <1>13 DEF RequestInv, CacheTypes, Bind
<1>16. proxies'[p0] = x /\ \A p \in DOMAIN proxies : p \in DOMAIN proxies' /\ proxies'[p].rec = proxies[p].rec
  BY <1>3, <1>14, <1>15 DEF RequestInv, CacheTypes
<1>17. PICK y : y = [pc |-> "get", todo |-> Tail(req[r].todo), pool |-> Append(req[r].pool, c)]
  OBVIOUS
<1>18. req[r].pool \in Seq(Nat) /\ Append(req[r].pool, c) \in Seq(Nat) /\ Tail(req[r].todo) \in Seq(Pids)
  BY <1>2, <1>6, Types
<1>19. /\ y \in RequestType /\ y.pc = "get" /\ y.todo = Tail(req[r].todo)
       /\ y.pool = Append(req[r].pool, c)
  BY <1>17, <1>18 DEF RequestType, RequestPcs
<1>20. OnlyMoves(r) /\ req'[r] = y
  <2>1. req' = [req EXCEPT ![r] = y]
    BY <1>5, <1>17, Types DEF Bind
  <2> QED
    BY <1>19, <2>1, RequestMoves
<1>21. LinkOK(p0)'
  BY <1>11, <1>14, <1>16, LinkKept
<1>22. TodoOK(r)'
  <2>1. HeldKept
    BY <1>16, HeldExists DEF HeldKept
  <2> QED
    BY <1>2, <1>19, <1>20, <2>1, TodoTail
<1>23. PoolOK(r)'
  <2>1. PICK s \in Seq(Nat) : s = req[r].pool
    BY <1>18
  <2>2. /\ Len(s) \in Nat /\ Len(Append(s, c)) = Len(s) + 1 /\ Append(s, c)[Len(s) + 1] = c
        /\ \A k \in 1..Len(s) : Append(s, c)[k] = s[k]
    BY <1>6
  <2>3. ASSUME NEW k \in 1..(Len(s) + 1)
        PROVE  /\ Append(s, c)[k] \in 1..Len(clients')
               /\ Provides(clients'[Append(s, c)[k]].rec, ToLower[Wanted[r]])
    <3>1. CASE k \in 1..Len(s)
      <4>1. PICK d \in 1..Len(clients) : d = s[k] /\ Provides(clients[d].rec, ToLower[Wanted[r]])
        BY <2>1, <3>1 DEF RequestInv, PoolInv
      <4>2. clients'[d].rec = clients[d].rec
        BY <1>11 DEF ClientsKept
      <4> QED
        BY <1>11, <2>2, <3>1, <4>1, <4>2
    <3>2. CASE k = Len(s) + 1
      BY <1>3, <1>5, <1>9, <1>11, <2>2, <3>2
    <3> QED
      BY <2>2, <3>1, <3>2
  <2> QED
    BY <1>19, <1>20, <2>1, <2>2, <2>3 DEF PoolOK
<1>24. DialOK(r)' /\ ~Inside(r)'
  BY <1>19, <1>20 DEF DialOK, Inside
<1>25. Relations'
  BY <1>1, <1>2, <1>3, <1>4, <1>11, <1>14, <1>15, <1>20, <1>21, <1>22, <1>23, <1>24, ProxyMoves
<1>26. TrustInv'
  <2>1. ASSUME NEW d \in 1..Len(clients)
        PROVE  /\ Trusted(clients'[d])
               /\ \A k \in Closers : clients'[d].closer[k] = "retrieve" => clients'[d].spIdent # NoIdent
    BY <1>9, <1>11 DEF RequestInv, TrustInv, Trusted
  <2> QED
    BY <1>11, <2>1 DEF TrustInv
<1>27. CountInv'
  <2>1. \A q \in Requests :
          /\ req'[q].pc = "wait" => req[q].pc = "wait" /\ Head(req'[q].pool) = Head(req[q].pool)
          /\ req[q].pc \in {"wait", "done"} => req'[q].pc \in {"wait", "done"}
    BY <1>1, <1>19, <1>20 DEF OnlyMoves
  <2> QED
    BY <1>11, <1>12, <2>1, CountKept DEF ClientsKept
<1> QED
  BY <1>1, <1>25, <1>26, <1>27, Whole

(* The pool in another order.                                                *)
LEMMA SortInv ==
  ASSUME RequestInv, NEW r \in Requests, Sort(r)
  PROVE  RequestInv'
<1>1. /\ req[r].pc = "get" /\ UNCHANGED <<identIndex, actionIndex, proxies, clients>>
      /\ UNCHANGED <<file, verifyRecords, setup, initialRefresh, due, crashed, scanned>>
  BY DEF Sort, refresherVars, ownerVars, dueVars, cacheVars
<1>2. PICK s \in Seq(Nat) : s = req[r].pool
  BY Types
<1>3. PICK order \in SetToSeqs(DOMAIN req[r].pool) :
        req' = [req EXCEPT ![r].pc = "send", ![r].pool = [i \in DOMAIN order |-> req[r].pool[order[i]]]]
  BY Zenon DEF Sort
<1>4. order \in [1..Len(s) -> 1..Len(s)] /\ Len(s) \in Nat
  <2>1. DOMAIN s = 1..Len(s) /\ Len(s) \in Nat
    OBVIOUS
  <2>2. Cardinality(1..Len(s)) = Len(s)
    <3>1. PICK m \in Nat : m = Len(s)
      BY <2>1
    <3>2. Cardinality(1..m) = IF 1 > m THEN 0 ELSE m - 1 + 1
      BY FS_Interval
    <3> QED
      BY <3>1, <3>2
  <2>3. order \in [1..Cardinality(DOMAIN s) -> DOMAIN s]
    BY <1>2 DEF SetToSeqs
  <2> QED
    BY <2>1, <2>2, <2>3
<1>5. PICK t : t = [i \in DOMAIN order |-> req[r].pool[order[i]]]
  OBVIOUS
<1>6. t = [i \in 1..Len(s) |-> s[order[i]]]
  BY <1>2, <1>4, <1>5
<1>7. t \in Seq(Nat) /\ Len(t) = Len(s) /\ \A i \in 1..Len(s) : \E k \in 1..Len(s) : t[i] = s[k]
  <2>1. \A i \in 1..Len(s) : order[i] \in 1..Len(s) /\ s[order[i]] \in Nat
    BY <1>4
  <2>2. t \in [1..Len(s) -> Nat] /\ \A i \in 1..Len(s) : t[i] = s[order[i]]
    BY <1>6, <2>1
  <2>3. t \in Seq(Nat) /\ Len(t) = Len(s)
    BY <1>4, <2>2
  <2> QED
    BY <2>1, <2>2, <2>3
<1>8. PICK y : y = [req[r] EXCEPT !.pc = "send", !.pool = t]
  OBVIOUS
<1>9. y \in RequestType /\ y.pc = "send" /\ y.todo = req[r].todo /\ y.pool = t
  BY <1>7, <1>8, Types DEF RequestType, RequestPcs
<1>10. OnlyMoves(r) /\ req'[r] = y
  <2>1. req' = [req EXCEPT ![r] = y]
    BY <1>3, <1>5, <1>8, Types DEF RequestType
  <2> QED
    BY <1>9, <2>1, RequestMoves
<1>11. ClientsKept /\ RepliesKept
  BY <1>1, ClientsStay
<1>12. TodoOK(r)'
  <2>1. HeldKept
    BY <1>1, HeldExists DEF HeldKept
  <2> QED
    BY <1>9, <1>10, <2>1, TodoKept
<1>13. PoolOK(r)'
  <2>1. \A k \in 1..Len(s) : s[k] \in 1..Len(clients) /\ Provides(clients[s[k]].rec, ToLower[Wanted[r]])
    BY <1>2 DEF RequestInv, PoolInv
  <2>2. \A i \in 1..Len(t) : t[i] \in 1..Len(clients) /\ Provides(clients[t[i]].rec, ToLower[Wanted[r]])
    BY <1>7, <2>1
  <2> QED
    BY <1>1, <1>9, <1>10, <2>2 DEF PoolOK
<1>14. Relations'
  <2>1. ~Inside(r) /\ ~Inside(r)'
    BY <1>1, <1>9, <1>10 DEF Inside
  <2> QED
    BY <1>1, <1>10, <1>11, <1>12, <1>13, <2>1, OutsideMoves
<1>15. CountInv'
  <2>1. \A q \in Requests :
          /\ req'[q].pc = "wait" => req[q].pc = "wait" /\ Head(req'[q].pool) = Head(req[q].pool)
          /\ req[q].pc \in {"wait", "done"} => req'[q].pc \in {"wait", "done"}
    BY <1>1, <1>9, <1>10 DEF OnlyMoves
  <2> QED
    BY <1>11, <2>1, CountKept DEF ClientsKept
<1> QED
  BY <1>1, <1>14, <1>15, TrustStays, Whole

(* The other moves of a request that has its pool: what it keeps of it.      *)
LEMMA PoolMoves ==
  ASSUME RequestInv, NEW r \in Requests, NEW y \in RequestType, req' = [req EXCEPT ![r] = y],
         req[r].pc \in {"send", "sending", "wait"}, y.pc \in {"send", "done"},
         \/ y.todo = req[r].todo /\ req[r].pool # <<>> /\ y.pool = Tail(req[r].pool)
         \/ y.todo = <<>> /\ y.pool = <<>>,
         UNCHANGED <<identIndex, actionIndex, proxies>>, ClientsKept
  PROVE  Relations' /\ OnlyMoves(r) /\ req'[r] = y
<1>1. OnlyMoves(r) /\ req'[r] = y
  BY RequestMoves
<1>2. TodoOK(r)'
  <2>1. HeldKept
    BY HeldExists DEF HeldKept
  <2>2. CASE y.todo = req[r].todo
    BY <1>1, <2>1, <2>2, TodoKept
  <2>3. CASE y.todo = <<>>
    <3>1. Len(<<>>) = 0
      OBVIOUS
    <3> QED
      BY <1>1, <2>3, <3>1 DEF TodoOK
  <2> QED
    BY <2>2, <2>3
<1>3. PoolOK(r)'
  <2>1. CASE req[r].pool # <<>> /\ y.pool = Tail(req[r].pool)
    <3>1. PICK s \in Seq(Nat) : s = req[r].pool
      BY Types
    <3>2. Len(s) \in Nat /\ Len(Tail(s)) = Len(s) - 1 /\ \A k \in 1..(Len(s) - 1) : Tail(s)[k] = s[k + 1] /\ k + 1 \in 1..Len(s)
      BY <2>1, <3>1
    <3>3. ASSUME NEW k \in 1..(Len(s) - 1)
          PROVE  /\ Tail(s)[k] \in 1..Len(clients')
                 /\ Provides(clients'[Tail(s)[k]].rec, ToLower[Wanted[r]])
      <4>1. PICK j \in 1..Len(s) : j = k + 1 /\ Tail(s)[k] = s[j]
        BY <3>2
      <4>2. PICK d \in 1..Len(clients) : d = s[j] /\ Provides(clients[d].rec, ToLower[Wanted[r]])
        BY <3>1 DEF RequestInv, PoolInv
      <4>3. clients'[d].rec = clients[d].rec /\ d \in 1..Len(clients')
        <5>1. Len(clients) \in Nat /\ Len(clients') \in Nat /\ Len(clients) <= Len(clients')
          BY Types DEF ClientsKept
        <5> QED
          BY <5>1 DEF ClientsKept
      <4> QED
        BY <4>1, <4>2, <4>3
    <3> QED
      BY ZenonT(30), <1>1, <2>1, <3>1, <3>2, <3>3 DEF PoolOK
  <2>2. CASE y.pool = <<>>
    <3>1. Len(<<>>) = 0
      OBVIOUS
    <3> QED
      BY <1>1, <2>2, <3>1 DEF PoolOK
  <2> QED
    BY <2>1, <2>2
<1>4. ~Inside(r) /\ ~Inside(r)'
  BY <1>1 DEF Inside
<1> QED
  BY <1>1, <1>2, <1>3, <1>4, OutsideMoves

(* A closed client, and the ends of a call that leave the clients alone.      *)
LEMMA LeavesInv ==
  ASSUME RequestInv, NEW r \in Requests, SendNil(r) \/ NotSent(r) \/ GiveUp(r)
  PROVE  RequestInv'
<1>1. /\ req[r].pc \in {"send", "wait"} /\ UNCHANGED <<identIndex, actionIndex, proxies, clients>>
      /\ UNCHANGED <<file, verifyRecords, setup, initialRefresh, due, crashed, scanned>>
  BY DEF SendNil, NotSent, GiveUp, refresherVars, ownerVars, dueVars, cacheVars
<1>2. ClientsKept /\ RepliesKept
  BY <1>1, ClientsStay
<1>3. /\ req[r] \in RequestType /\ req[r].pool \in Seq(Nat) /\ req[r].todo \in Seq(Pids)
      /\ req \in [Requests -> RequestType]
  BY Types
<1>4. \E y \in RequestType :
         /\ req' = [req EXCEPT ![r] = y] /\ y.pc \in {"send", "done"}
         /\ y.pc = "send" => req[r].pc = "send"
         /\ \/ y.todo = req[r].todo /\ req[r].pool # <<>> /\ y.pool = Tail(req[r].pool)
            \/ y.todo = <<>> /\ y.pool = <<>>
  <2>1. CASE SendNil(r)
    <3>1. req[r].pool # <<>> /\ req[r].pc = "send" /\ req' = [req EXCEPT ![r].pool = Tail(req[r].pool)]
      BY <2>1 DEF SendNil
    <3>2. Tail(req[r].pool) \in Seq(Nat)
      BY <1>3, <3>1
    <3>3. PICK y : y = [req[r] EXCEPT !.pool = Tail(req[r].pool)]
      OBVIOUS
    <3>4. y \in RequestType /\ y.pc = "send" /\ y.todo = req[r].todo /\ y.pool = Tail(req[r].pool)
      BY <1>3, <3>1, <3>2, <3>3 DEF RequestType
    <3>5. req' = [req EXCEPT ![r] = y]
      BY <1>3, <3>1, <3>3
    <3> QED
      BY <3>1, <3>4, <3>5
  <2>2. CASE NotSent(r) \/ GiveUp(r)
    <3>1. req' = [req EXCEPT ![r] = Done]
      BY <2>2 DEF NotSent, GiveUp
    <3>2. Done \in RequestType /\ Done.pc = "done" /\ Done.todo = <<>> /\ Done.pool = <<>>
      <4>1. <<>> \in Seq(Nat) /\ <<>> \in Seq(Pids)
        OBVIOUS
      <4> QED
        BY <4>1 DEF Done, RequestType, RequestPcs
    <3> QED
      BY <3>1, <3>2
  <2> QED
    BY <2>1, <2>2
<1>5. PICK y \in RequestType :
         /\ req' = [req EXCEPT ![r] = y] /\ y.pc \in {"send", "done"}
         /\ y.pc = "send" => req[r].pc = "send"
         /\ \/ y.todo = req[r].todo /\ req[r].pool # <<>> /\ y.pool = Tail(req[r].pool)
            \/ y.todo = <<>> /\ y.pool = <<>>
  BY <1>4
<1>6. Relations' /\ OnlyMoves(r) /\ req'[r] = y
  BY <1>1, <1>2, <1>5, PoolMoves
<1>7. CountInv'
  <2>1. \A q \in Requests :
          /\ req'[q].pc = "wait" => req[q].pc = "wait" /\ Head(req'[q].pool) = Head(req[q].pool)
          /\ req[q].pc \in {"wait", "done"} => req'[q].pc \in {"wait", "done"}
    BY <1>1, <1>5, <1>6 DEF OnlyMoves
  <2> QED
    BY <1>2, <2>1, CountKept DEF ClientsKept
<1> QED
  BY <1>1, <1>6, <1>7, TrustStays, Whole

(* The client a request is about to use, or waits for.                       *)
LEMMA PoolHead ==
  ASSUME RequestInv, NEW r \in Requests, req[r].pool # <<>>
  PROVE  /\ Head(req[r].pool) \in DOMAIN clients /\ DOMAIN clients = 1..Len(clients)
         /\ clients[Head(req[r].pool)] \in AnyClient
<1>1. req[r].pool \in Seq(Nat)
  BY Types
<1>2. 1 \in 1..Len(req[r].pool) /\ Head(req[r].pool) = req[r].pool[1]
  BY <1>1
<1>3. req[r].pool[1] \in 1..Len(clients)
  BY <1>2 DEF RequestInv, PoolInv
<1> QED
  BY <1>2, <1>3, Types

(* A client that keeps what it was made of and its open replies.             *)
LEMMA ClientGoesOn ==
  ASSUME RequestInv, NEW c \in DOMAIN clients, NEW x \in AnyClient,
         clients' = [clients EXCEPT ![c] = x],
         x.rec = clients[c].rec, x.verified = clients[c].verified,
         clients[c].isClosed => x.isClosed, x.openReplies = clients[c].openReplies,
         \A k \in Closers : x.closer[k] = "retrieve" => x.spIdent # NoIdent
  PROVE  ClientsKept /\ RepliesKept /\ TrustInv'
<1>1. /\ ClientsKept /\ Len(clients') = Len(clients)
      /\ clients'[c] = x /\ \A d \in 1..Len(clients) : d # c => clients'[d] = clients[d]
  BY ClientChanges
<1>2. RepliesKept
  BY <1>1 DEF RepliesKept
<1>3. TrustInv'
  <2>1. ASSUME NEW d \in 1..Len(clients)
        PROVE  /\ Trusted(clients'[d])
               /\ \A k \in Closers : clients'[d].closer[k] = "retrieve" => clients'[d].spIdent # NoIdent
    BY <1>1, Types DEF RequestInv, TrustInv, Trusted
  <2> QED
    BY <1>1, <2>1 DEF TrustInv
<1> QED
  BY <1>1, <1>2, <1>3

(* A client whose sendM is taken or released.                                *)
LEMMA SendMChanges ==
  ASSUME RequestInv, NEW c \in DOMAIN clients, NEW m \in Requests \cup {Free},
         clients' = [clients EXCEPT ![c].sendM = m]
  PROVE  ClientsKept /\ RepliesKept /\ TrustInv'
<1>1. clients[c] \in AnyClient /\ clients \in Seq(AnyClient) /\ c \in 1..Len(clients)
  BY Types
<1>2. PICK x : x = [clients[c] EXCEPT !.sendM = m]
  OBVIOUS
<1>3. /\ x \in AnyClient /\ x.rec = clients[c].rec /\ x.verified = clients[c].verified
      /\ x.isClosed = clients[c].isClosed /\ x.openReplies = clients[c].openReplies
      /\ x.closer = clients[c].closer /\ x.spIdent = clients[c].spIdent
  BY <1>1, <1>2 DEF AnyClient
<1>4. clients' = [clients EXCEPT ![c] = x]
  BY <1>1, <1>2
<1>5. \A k \in Closers : x.closer[k] = "retrieve" => x.spIdent # NoIdent
  BY <1>1, <1>3 DEF RequestInv, TrustInv
<1>6. clients[c].isClosed => x.isClosed
  BY <1>3
<1> QED
  BY <1>3, <1>4, <1>5, <1>6, ClientGoesOn

(* A client whose open replies change, and whose sendM may.                  *)
LEMMA RepliesChange ==
  ASSUME RequestInv, NEW c \in DOMAIN clients, NEW n \in Int, NEW m \in Requests \cup {Free},
         clients' = [clients EXCEPT ![c].openReplies = n, ![c].sendM = m]
  PROVE  /\ ClientsKept /\ TrustInv' /\ Len(clients') = Len(clients)
         /\ clients'[c].openReplies = n
         /\ \A d \in 1..Len(clients) : d # c => clients'[d] = clients[d]
<1>1. clients[c] \in AnyClient /\ DOMAIN clients = 1..Len(clients) /\ clients \in Seq(AnyClient)
  BY Types
<1>2. PICK x : x = [clients[c] EXCEPT !.openReplies = n, !.sendM = m]
  OBVIOUS
<1>3. /\ x \in AnyClient /\ x.rec = clients[c].rec /\ x.verified = clients[c].verified
      /\ x.isClosed = clients[c].isClosed /\ x.openReplies = n
      /\ x.closer = clients[c].closer /\ x.spIdent = clients[c].spIdent
  BY <1>1, <1>2 DEF AnyClient
<1>4. clients' = [clients EXCEPT ![c] = x]
  BY <1>1, <1>2 DEF AnyClient
<1>5. /\ ClientsKept /\ Len(clients') = Len(clients)
      /\ clients'[c] = x /\ \A d \in 1..Len(clients) : d # c => clients'[d] = clients[d]
  <2>1. /\ x \in AnyClient /\ x.rec = clients[c].rec /\ x.verified = clients[c].verified
        /\ clients[c].isClosed => x.isClosed
    BY <1>3
  <2> QED
    BY <1>4, <2>1, ClientChanges
<1>6. TrustInv'
  <2>1. ASSUME NEW d \in 1..Len(clients)
        PROVE  /\ Trusted(clients'[d])
               /\ \A k \in Closers : clients'[d].closer[k] = "retrieve" => clients'[d].spIdent # NoIdent
    BY <1>3, <1>5 DEF RequestInv, TrustInv, Trusted
  <2> QED
    BY <1>5, <2>1 DEF TrustInv
<1> QED
  BY <1>3, <1>5, <1>6

(* A request that stays outside GetClient and keeps its todo and its pool,   *)
(* while its client changes.                                                 *)
LEMMA StaysOutside ==
  ASSUME RequestInv, NEW r \in Requests, NEW pc \in RequestPcs, Goto(r, pc),
         UNCHANGED <<identIndex, actionIndex, proxies>>, ClientsKept,
         req[r].pc \in {"send", "sending"}, pc \in {"sending", "wait"}, req[r].pool # <<>>
  PROVE  /\ Relations' /\ OnlyMoves(r) /\ req'[r].pc = pc
         /\ req'[r].todo = req[r].todo /\ req'[r].pool = req[r].pool
<1>1. /\ OnlyMoves(r) /\ req'[r].pc = pc
      /\ req'[r].todo = req[r].todo /\ req'[r].pool = req[r].pool
  BY GotoFacts
<1>2. TodoOK(r)'
  <2>1. HeldKept
    BY HeldExists DEF HeldKept
  <2> QED
    BY <1>1, <2>1, TodoKept
<1>3. PoolOK(r)'
  BY <1>1, PoolKept
<1>4. ~Inside(r) /\ ~Inside(r)'
  BY <1>1 DEF Inside
<1> QED
  BY <1>1, <1>2, <1>3, <1>4, OutsideMoves

(* sendM is taken.                                                           *)
LEMMA SendLockInv ==
  ASSUME RequestInv, NEW r \in Requests, SendLock(r)
  PROVE  RequestInv'
<1>1. /\ req[r].pc = "send" /\ req[r].pool # <<>> /\ UNCHANGED <<identIndex, actionIndex, proxies>>
      /\ UNCHANGED <<file, verifyRecords, setup, initialRefresh, due, crashed, scanned>>
  BY DEF SendLock, refresherVars, ownerVars, dueVars, cacheVars
<1>2. PICK c \in DOMAIN clients : c = Head(req[r].pool)
  BY <1>1, PoolHead
<1>3. ClientsKept /\ RepliesKept /\ TrustInv'
  BY <1>2, SendMChanges DEF SendLock
<1>4. Relations' /\ OnlyMoves(r) /\ req'[r].pc = "sending"
  <2>1. Goto(r, "sending") /\ "sending" \in RequestPcs
    BY DEF SendLock, RequestPcs
  <2> QED
    BY <1>1, <1>3, <2>1, StaysOutside
<1>5. CountInv'
  <2>1. \A q \in Requests :
          /\ req'[q].pc = "wait" => req[q].pc = "wait" /\ Head(req'[q].pool) = Head(req[q].pool)
          /\ req[q].pc \in {"wait", "done"} => req'[q].pc \in {"wait", "done"}
    BY <1>1, <1>4 DEF OnlyMoves
  <2> QED
    BY <1>3, <2>1, CountKept DEF ClientsKept
<1> QED
  BY <1>1, <1>3, <1>4, <1>5, Whole

(* An error of Send: sendM is released, and the next client is tried.        *)
LEMMA SendFailsInv ==
  ASSUME RequestInv, NEW r \in Requests, SendFails(r)
  PROVE  RequestInv'
<1>1. /\ req[r].pc = "sending" /\ UNCHANGED <<identIndex, actionIndex, proxies>>
      /\ UNCHANGED <<file, verifyRecords, setup, initialRefresh, due, crashed, scanned>>
  BY DEF SendFails, refresherVars, ownerVars, dueVars, cacheVars
<1>2. req[r].pool # <<>>
  BY <1>1 DEF RequestInv, PoolInv
<1>3. PICK c \in DOMAIN clients : c = Head(req[r].pool)
  BY <1>2, PoolHead
<1>4. ClientsKept /\ RepliesKept /\ TrustInv'
  <2>1. clients' = [clients EXCEPT ![c].sendM = Free]
    BY <1>3 DEF SendFails
  <2> QED
    BY <2>1, SendMChanges
<1>5. req[r] \in RequestType /\ req[r].pool \in Seq(Nat) /\ req \in [Requests -> RequestType]
  BY Types
<1>6. Tail(req[r].pool) \in Seq(Nat)
  BY <1>2, <1>5
<1>7. PICK y : y = [req[r] EXCEPT !.pc = "send", !.pool = Tail(req[r].pool)]
  OBVIOUS
<1>8. y \in RequestType /\ y.pc = "send" /\ y.todo = req[r].todo /\ y.pool = Tail(req[r].pool)
  BY <1>5, <1>6, <1>7 DEF RequestType, RequestPcs
<1>9. req' = [req EXCEPT ![r] = y]
  BY <1>5, <1>7 DEF SendFails, RequestType
<1>10. Relations' /\ OnlyMoves(r) /\ req'[r] = y
  BY <1>1, <1>2, <1>4, <1>8, <1>9, PoolMoves
<1>11. CountInv'
  <2>1. \A q \in Requests :
          /\ req'[q].pc = "wait" => req[q].pc = "wait" /\ Head(req'[q].pool) = Head(req[q].pool)
          /\ req[q].pc \in {"wait", "done"} => req'[q].pc \in {"wait", "done"}
    BY <1>1, <1>8, <1>10 DEF OnlyMoves
  <2> QED
    BY <1>4, <2>1, CountKept DEF ClientsKept
<1> QED
  BY <1>1, <1>4, <1>10, <1>11, Whole

(* Send: one more waits, and one more has sent.                              *)
LEMMA SendInv ==
  ASSUME RequestInv, NEW r \in Requests, Send(r)
  PROVE  RequestInv'
<1>1. /\ req[r].pc = "sending" /\ UNCHANGED <<identIndex, actionIndex, proxies>>
      /\ UNCHANGED <<file, verifyRecords, setup, initialRefresh, due, crashed, scanned>>
  BY DEF Send, refresherVars, ownerVars, dueVars, cacheVars
<1>2. req[r].pool # <<>>
  BY <1>1 DEF RequestInv, PoolInv
<1>3. PICK c \in DOMAIN clients : c = Head(req[r].pool) /\ clients[c] \in AnyClient /\ c \in 1..Len(clients)
  BY <1>2, PoolHead
<1>4. PICK n \in Int : n = clients[c].openReplies
  BY <1>3 DEF AnyClient
<1>5. /\ ClientsKept /\ TrustInv' /\ Len(clients') = Len(clients)
      /\ clients'[c].openReplies = n + 1
      /\ \A d \in 1..Len(clients) : d # c => clients'[d] = clients[d]
  <2>1. clients' = [clients EXCEPT ![c].openReplies = n + 1, ![c].sendM = Free] /\ n + 1 \in Int
    BY <1>3, <1>4, Types DEF Send
  <2> QED
    BY <2>1, RepliesChange
<1>6. /\ Relations' /\ OnlyMoves(r) /\ req'[r].pc = "wait"
      /\ req'[r].todo = req[r].todo /\ req'[r].pool = req[r].pool
  <2>1. Goto(r, "wait") /\ "wait" \in RequestPcs
    BY DEF Send, RequestPcs
  <2> QED
    BY <1>1, <1>2, <1>5, <2>1, StaysOutside
<1>7. Sent' = Sent \cup {r} /\ r \notin Sent
  BY <1>1, <1>6 DEF Sent, OnlyMoves
<1>8. Waiting(c)' = Waiting(c) \cup {r} /\ r \notin Waiting(c) /\ \A d : d # c => Waiting(d)' = Waiting(d)
  BY <1>1, <1>3, <1>6 DEF Waiting, OnlyMoves
<1>9. CountInv'
  <2>1. Cardinality(Sent') = Cardinality(Sent) + 1 /\ Cardinality(Sent) \in Nat
    BY <1>7, WaitingFinite, FS_AddElement
  <2>2. Cardinality(Waiting(c)') = Cardinality(Waiting(c)) + 1 /\ Cardinality(Waiting(c)) \in Nat
    BY ZenonT(30), <1>8, WaitingFinite, FS_AddElement
  <2>3. ASSUME NEW d \in 1..Len(clients)
        PROVE  Cardinality(Waiting(d)') <= clients'[d].openReplies /\ clients'[d].openReplies <= Cardinality(Sent')
    <3>1. /\ Cardinality(Waiting(d)) <= clients[d].openReplies /\ clients[d].openReplies <= Cardinality(Sent)
          /\ clients[d].openReplies \in Int
      BY Types DEF RequestInv, CountInv, AnyClient
    <3>2. CASE d = c
      BY <1>4, <1>5, <2>1, <2>2, <3>1, <3>2
    <3>3. CASE d # c
      BY <1>5, <1>8, <2>1, <3>1, <3>3
    <3> QED
      BY <3>2, <3>3
  <2> QED
    BY <1>5, <2>3 DEF CountInv
<1> QED
  BY <1>1, <1>5, <1>6, <1>9, Whole

(* A reply: one less waits.                                                  *)
LEMMA RepliedInv ==
  ASSUME RequestInv, NEW r \in Requests, Replied(r)
  PROVE  RequestInv'
<1>1. /\ req[r].pc = "wait" /\ UNCHANGED <<identIndex, actionIndex, proxies>>
      /\ UNCHANGED <<file, verifyRecords, setup, initialRefresh, due, crashed, scanned>>
  BY DEF Replied, refresherVars, ownerVars, dueVars, cacheVars
<1>2. req[r].pool # <<>>
  BY <1>1 DEF RequestInv, PoolInv
<1>3. PICK c \in DOMAIN clients : c = Head(req[r].pool) /\ clients[c] \in AnyClient /\ c \in 1..Len(clients)
  BY <1>2, PoolHead
<1>4. PICK n \in Int : n = clients[c].openReplies
  BY <1>3 DEF AnyClient
<1>5. /\ ClientsKept /\ TrustInv' /\ Len(clients') = Len(clients)
      /\ clients'[c].openReplies = n - 1
      /\ \A d \in 1..Len(clients) : d # c => clients'[d] = clients[d]
  <2>1. clients' = [clients EXCEPT ![c].openReplies = n - 1] /\ n - 1 \in Int
    BY <1>3, <1>4 DEF Replied
  <2>2. PICK m \in Requests \cup {Free} : m = clients[c].sendM
    BY <1>3 DEF AnyClient
  <2>3. clients' = [clients EXCEPT ![c].openReplies = n - 1, ![c].sendM = m]
    BY <1>3, <2>1, <2>2, Types DEF AnyClient
  <2> QED
    BY <2>1, <2>3, RepliesChange
<1>6. Relations' /\ OnlyMoves(r) /\ req'[r] = Done
  <2>1. Done \in RequestType /\ Done.pc = "done" /\ Done.todo = <<>> /\ Done.pool = <<>>
    <3>1. <<>> \in Seq(Nat) /\ <<>> \in Seq(Pids)
      OBVIOUS
    <3> QED
      BY <3>1 DEF Done, RequestType, RequestPcs
  <2>2. req' = [req EXCEPT ![r] = Done]
    BY DEF Replied
  <2> QED
    BY <1>1, <1>5, <2>1, <2>2, PoolMoves
<1>7. req'[r].pc = "done"
  BY <1>6 DEF Done
<1>8. Sent' = Sent
  BY <1>1, <1>6, <1>7 DEF Sent, OnlyMoves
<1>9. Waiting(c)' = Waiting(c) \ {r} /\ r \in Waiting(c) /\ \A d : d # c => Waiting(d)' = Waiting(d)
  BY <1>1, <1>3, <1>6, <1>7 DEF Waiting, OnlyMoves
<1>10. CountInv'
  <2>1. Cardinality(Sent) \in Nat
    BY WaitingFinite
  <2>2. Cardinality(Waiting(c)') = Cardinality(Waiting(c)) - 1 /\ Cardinality(Waiting(c)) \in Nat
    BY <1>9, WaitingFinite, FS_RemoveElement
  <2>3. ASSUME NEW d \in 1..Len(clients)
        PROVE  Cardinality(Waiting(d)') <= clients'[d].openReplies /\ clients'[d].openReplies <= Cardinality(Sent')
    <3>1. /\ Cardinality(Waiting(d)) <= clients[d].openReplies /\ clients[d].openReplies <= Cardinality(Sent)
          /\ clients[d].openReplies \in Int
      BY Types DEF RequestInv, CountInv, AnyClient
    <3>2. CASE d = c
      BY <1>4, <1>5, <1>8, <2>1, <2>2, <3>1, <3>2
    <3>3. CASE d # c
      BY <1>5, <1>8, <1>9, <3>1, <3>3
    <3> QED
      BY <3>2, <3>3
  <2> QED
    BY <1>5, <2>3 DEF CountInv
<1> QED
  BY <1>1, <1>5, <1>6, <1>10, Whole

-----------------------------------------------------------------------------
(* Client.Close *)

(* The goroutine k in Close of client c goes on.                             *)
LEMMA CloserMoves ==
  ASSUME RequestInv, NEW c \in DOMAIN clients, NEW k \in Closers, NEW pc \in CloserPcs,
         pc = "retrieve" => clients[c].spIdent # NoIdent
  PROVE  /\ clients[c] \in AnyClient /\ clients \in Seq(AnyClient)
         /\ \E f \in [Closers -> CloserPcs] :
              /\ f = [clients[c].closer EXCEPT ![k] = pc]
              /\ \A j \in Closers : f[j] = "retrieve" => clients[c].spIdent # NoIdent
<1>1. clients[c] \in AnyClient /\ clients \in Seq(AnyClient) /\ c \in 1..Len(clients)
  BY Types
<1>2. clients[c].closer \in [Closers -> CloserPcs]
  BY <1>1 DEF AnyClient
<1>3. \A j \in Closers : clients[c].closer[j] = "retrieve" => clients[c].spIdent # NoIdent
  BY <1>1 DEF RequestInv, TrustInv
<1>4. PICK f : f = [clients[c].closer EXCEPT ![k] = pc]
  OBVIOUS
<1>5. f \in [Closers -> CloserPcs] /\ \A j \in Closers : j # k => f[j] = clients[c].closer[j]
  BY <1>2, <1>4
<1>6. f[k] = pc
  BY <1>2, <1>4
<1>7. \A j \in Closers : f[j] = "retrieve" => clients[c].spIdent # NoIdent
  BY <1>3, <1>5, <1>6
<1> QED
  BY <1>1, <1>4, <1>5, <1>7

LEMMA ClosingKeeps ==
  ASSUME RequestInv, NEW c \in DOMAIN clients, NEW k \in Closers, NEW pc \in CloserPcs,
         Closing(c, k, pc), pc = "retrieve" => clients[c].spIdent # NoIdent
  PROVE  ClientsKept /\ RepliesKept /\ TrustInv'
<1>1. clients[c] \in AnyClient /\ clients \in Seq(AnyClient)
  BY Types
<1>2. PICK f \in [Closers -> CloserPcs] :
        /\ f = [clients[c].closer EXCEPT ![k] = pc]
        /\ \A j \in Closers : f[j] = "retrieve" => clients[c].spIdent # NoIdent
  BY CloserMoves
<1>3. PICK x : x = [clients[c] EXCEPT !.closer = f]
  OBVIOUS
<1>4. /\ x \in AnyClient /\ x.rec = clients[c].rec /\ x.verified = clients[c].verified
      /\ x.isClosed = clients[c].isClosed /\ x.openReplies = clients[c].openReplies
      /\ x.closer = f /\ x.spIdent = clients[c].spIdent
  BY <1>1, <1>2, <1>3 DEF AnyClient
<1>5. clients' = [clients EXCEPT ![c] = x]
  BY <1>1, <1>2, <1>3 DEF Closing
<1>6. clients[c].isClosed => x.isClosed
  BY <1>4
<1>7. \A j \in Closers : x.closer[j] = "retrieve" => x.spIdent # NoIdent
  BY <1>2, <1>4
<1> QED
  BY <1>4, <1>5, <1>6, <1>7, ClientGoesOn

(* Requests stay where they are, and proxies lose their client at most.      *)
LEMMA ProxiesLose ==
  ASSUME RequestInv, UNCHANGED <<identIndex, actionIndex, req>>, ClientsKept,
         DOMAIN proxies' = DOMAIN proxies, proxies' \in [DOMAIN proxies -> ProxyType],
         \A p \in DOMAIN proxies :
           /\ proxies'[p].rec = proxies[p].rec /\ proxies'[p].verified = proxies[p].verified
           /\ proxies'[p].clientM = proxies[p].clientM
           /\ proxies'[p].client \in {proxies[p].client, NoClient}
  PROVE  Relations'
<1>1. CacheTypes'
  BY DEF RequestInv, CacheTypes
<1>2. IndexInv'
  BY DEF RequestInv, IndexInv
<1>3. CallTypes'
  BY Types DEF CallTypes, ClientsKept
<1>4. TodoInv'
  <2>1. HeldKept
    BY HeldExists DEF HeldKept
  <2>2. \A q \in Requests : TodoOK(q)'
    BY <2>1, TodoKept
  <2> QED
    BY <2>2 DEF TodoInv, TodoOK
<1>5. PoolInv'
  <2>1. \A q \in Requests : req[q].pc \in {"sending", "wait"} => req[q].pool # <<>>
    BY DEF RequestInv, PoolInv
  <2>2. \A q \in Requests : PoolOK(q)'
    BY <2>1, PoolKept
  <2> QED
    BY <2>2 DEF PoolInv, PoolOK
<1>6. LinkInv'
  <2>1. \A p \in DOMAIN proxies : LinkOK(p)'
    BY LinkKept
  <2> QED
    BY <2>1 DEF LinkInv, LinkOK
<1>7. LockInv'
  <2>1. \A q \in Requests : Inside(q)' <=> Inside(q)
    BY DEF Inside
  <2> QED
    BY <2>1, HeldExists, LockStays
<1>8. DialInv'
  <2>1. ASSUME NEW q \in Requests PROVE DialOK(q)'
    <3>1. req[q].pc = "dial" => Proxy(q) \in DOMAIN proxies
      BY AskedProxy DEF Inside
    <3> QED
      BY <3>1, DialKept
  <2> QED
    BY <2>1 DEF DialInv, DialOK
<1> QED
  BY <1>1, <1>2, <1>3, <1>4, <1>5, <1>6, <1>7, <1>8 DEF Relations

LEMMA CountStays ==
  ASSUME RequestInv, UNCHANGED req, ClientsKept, RepliesKept
  PROVE  CountInv'
  BY CountKept DEF ClientsKept

(* Close retrieves the proxy, with a refresh if one is due.                  *)
LEMMA CloseRefreshInv ==
  ASSUME RequestInv, NEW c \in DOMAIN clients, NEW k \in Closers, CloseRefresh(c, k)
  PROVE  RequestInv'
<1>1. UNCHANGED <<file, verifyRecords, setup, req, crashed>>
  BY DEF CloseRefresh, refresherVars, ownerVars
<1>2. ClientsKept /\ RepliesKept /\ TrustInv'
  <2>1. \E pc \in CloserPcs : Closing(c, k, pc) /\ (pc = "retrieve" => clients[c].spIdent # NoIdent)
    BY DEF CloseRefresh, CloserPcs
  <2> QED
    BY <2>1, ClosingKeeps
<1>3. Refresh \/ UNCHANGED <<cacheVars, proxies>>
  BY DEF CloseRefresh, ReactiveRefresh
<1>4. Relations' /\ scanned' \in [recs : Files, verify : BOOLEAN]
  <2>1. \A q \in Requests : Inside(q)' <=> Inside(q)
    BY <1>1 DEF Inside
  <2>2. req' \in [Requests -> RequestType]
    BY <1>1, Types
  <2> QED
    BY <1>1, <1>2, <1>3, <2>1, <2>2, RefreshKeeps
<1>5. CountInv'
  BY <1>1, <1>2, CountStays
<1>6. initialRefresh' \in BOOLEAN /\ due' \in BOOLEAN
  BY DEF CloseRefresh, ReactiveRefresh, dueVars, RequestInv, FileTypes
<1>7. FileTypes'
  BY <1>1, <1>4, <1>6 DEF RequestInv, FileTypes
<1> QED
  BY <1>2, <1>4, <1>5, <1>7 DEF RequestInv, Relations

(* The proxy indexed under spIdent loses its client.                         *)
LEMMA UnlinkFacts ==
  ASSUME RequestInv, NEW c \in DOMAIN clients, NEW k \in Closers, CloseUnlink(c, k)
  PROVE  /\ DOMAIN proxies' = DOMAIN proxies /\ proxies' \in [DOMAIN proxies -> ProxyType]
         /\ \A p \in DOMAIN proxies :
              /\ proxies'[p].rec = proxies[p].rec /\ proxies'[p].verified = proxies[p].verified
              /\ proxies'[p].clientM = proxies[p].clientM
              /\ proxies'[p].client \in {proxies[p].client, NoClient}
<1>1. clients[c].spIdent \in Idents
  <2>1. clients[c] \in AnyClient /\ c \in 1..Len(clients)
    BY Types
  <2>2. clients[c].spIdent # NoIdent
    BY <2>1 DEF CloseUnlink, RequestInv, TrustInv
  <2> QED
    BY <2>1, <2>2 DEF AnyClient
<1>2. PICK sp : sp = identIndex[clients[c].spIdent]
  OBVIOUS
<1>3. sp = NoProxy \/ sp \in DOMAIN proxies
  BY <1>1, <1>2 DEF RequestInv, IndexInv
<1>4. proxies \in [DOMAIN proxies -> ProxyType]
  BY DEF RequestInv, CacheTypes
<1>5. CASE sp = NoProxy
  BY <1>2, <1>4, <1>5 DEF CloseUnlink
<1>6. CASE sp # NoProxy
  <2>1. sp \in DOMAIN proxies /\ proxies[sp] \in ProxyType
    BY <1>3, <1>4, <1>6
  <2>2. PICK x : x = [proxies[sp] EXCEPT !.client = NoClient]
    OBVIOUS
  <2>3. /\ x \in ProxyType /\ x.rec = proxies[sp].rec /\ x.verified = proxies[sp].verified
        /\ x.clientM = proxies[sp].clientM /\ x.client = NoClient
    BY <2>1, <2>2 DEF ProxyType, NoClient
  <2>4. proxies' = [proxies EXCEPT ![sp] = x]
    BY <1>2, <1>6, <2>1, <2>2 DEF CloseUnlink
  <2>5. /\ DOMAIN proxies' = DOMAIN proxies /\ proxies' \in [DOMAIN proxies -> ProxyType]
        /\ proxies'[sp] = x /\ \A p \in DOMAIN proxies : p # sp => proxies'[p] = proxies[p]
    BY <1>4, <2>1, <2>3, <2>4
  <2> QED
    BY <2>3, <2>5
<1> QED
  BY <1>5, <1>6

LEMMA CloseUnlinkInv ==
  ASSUME RequestInv, NEW c \in DOMAIN clients, NEW k \in Closers, CloseUnlink(c, k)
  PROVE  RequestInv'
<1>1. /\ UNCHANGED <<identIndex, actionIndex, req>>
      /\ UNCHANGED <<file, verifyRecords, setup, initialRefresh, due, crashed, scanned>>
  BY DEF CloseUnlink, refresherVars, ownerVars, dueVars, cacheVars
<1>2. ClientsKept /\ RepliesKept /\ TrustInv'
  <2>1. Closing(c, k, "lock") /\ "lock" \in CloserPcs
    BY DEF CloseUnlink, CloserPcs
  <2> QED
    BY <2>1, ClosingKeeps
<1>3. Relations'
  BY <1>1, <1>2, UnlinkFacts, ProxiesLose
<1>4. CountInv'
  BY <1>1, <1>2, CountStays
<1> QED
  BY <1>1, <1>2, <1>3, <1>4, Whole

(* closeConnection, and isClosed.                                            *)
LEMMA CloseRestInv ==
  ASSUME RequestInv, NEW c \in DOMAIN clients, NEW k \in Closers, CloseConnection(c, k) \/ CloseEnd(c, k)
  PROVE  RequestInv'
<1>1. /\ UNCHANGED <<identIndex, actionIndex, proxies, req>>
      /\ UNCHANGED <<file, verifyRecords, setup, initialRefresh, due, crashed, scanned>>
  BY DEF CloseConnection, CloseEnd, refresherVars, ownerVars, dueVars, cacheVars
<1>2. ClientsKept /\ RepliesKept /\ TrustInv'
  <2>1. CASE CloseConnection(c, k) /\ clients[c].isClosed
    <3>1. Closing(c, k, "end") /\ "end" \in CloserPcs
      BY <2>1 DEF CloseConnection, CloserPcs, Closing
    <3> QED
      BY <3>1, ClosingKeeps
  <2>2. CASE CloseConnection(c, k) /\ ~clients[c].isClosed
    <3>1. clients[c] \in AnyClient /\ clients \in Seq(AnyClient)
      BY Types
    <3>2. PICK f \in [Closers -> CloserPcs] :
            /\ f = [clients[c].closer EXCEPT ![k] = "mark"]
            /\ \A j \in Closers : f[j] = "retrieve" => clients[c].spIdent # NoIdent
      BY CloserMoves DEF CloserPcs
    <3>3. PICK x : x = [clients[c] EXCEPT !.closer = f, !.closedM = k, !.conn = FALSE]
      OBVIOUS
    <3>4. /\ x \in AnyClient /\ x.rec = clients[c].rec /\ x.verified = clients[c].verified
          /\ x.isClosed = clients[c].isClosed /\ x.openReplies = clients[c].openReplies
          /\ x.closer = f /\ x.spIdent = clients[c].spIdent
      BY <3>1, <3>2, <3>3 DEF AnyClient
    <3>5. clients' = [clients EXCEPT ![c] = x]
      BY <2>2, <3>1, <3>2, <3>3 DEF CloseConnection, AnyClient
    <3>6. clients[c].isClosed => x.isClosed
      BY <3>4
    <3>7. \A j \in Closers : x.closer[j] = "retrieve" => x.spIdent # NoIdent
      BY <3>2, <3>4
    <3> QED
      BY <3>4, <3>5, <3>6, <3>7, ClientGoesOn
  <2>3. CASE CloseEnd(c, k)
    <3>1. clients[c] \in AnyClient /\ clients \in Seq(AnyClient)
      BY Types
    <3>2. PICK f \in [Closers -> CloserPcs] :
            /\ f = [clients[c].closer EXCEPT ![k] = "end"]
            /\ \A j \in Closers : f[j] = "retrieve" => clients[c].spIdent # NoIdent
      BY CloserMoves DEF CloserPcs
    <3>3. PICK x : x = [clients[c] EXCEPT !.closer = f, !.closedM = Free, !.isClosed = TRUE]
      OBVIOUS
    <3>4. /\ x \in AnyClient /\ x.rec = clients[c].rec /\ x.verified = clients[c].verified
          /\ x.isClosed = TRUE /\ x.openReplies = clients[c].openReplies
          /\ x.closer = f /\ x.spIdent = clients[c].spIdent
      BY <3>1, <3>2, <3>3 DEF AnyClient
    <3>5. clients' = [clients EXCEPT ![c] = x]
      BY <2>3, <3>1, <3>2, <3>3 DEF CloseEnd, AnyClient
    <3>6. clients[c].isClosed => x.isClosed
      BY <3>4
    <3>7. \A j \in Closers : x.closer[j] = "retrieve" => x.spIdent # NoIdent
      BY <3>2, <3>4
    <3> QED
      BY <3>4, <3>5, <3>6, <3>7, ClientGoesOn
  <2> QED
    BY <2>1, <2>2, <2>3
<1>3. Relations'
  BY <1>1, <1>2, ProxiesLose DEF RequestInv, CacheTypes
<1>4. CountInv'
  BY <1>1, <1>2, CountStays
<1> QED
  BY <1>1, <1>2, <1>3, <1>4, Whole

-----------------------------------------------------------------------------
(* The invariant holds *)

LEMMA RequestInit == Init => RequestInv
<1> SUFFICES ASSUME Init PROVE RequestInv
  OBVIOUS
<1>1. setup \in Setups /\ setup.files \subseteq Files
  BY SetupsAssumption DEF Init
<1>2. PICK f \in Files : f = file
  BY <1>1 DEF Init
<1>3. /\ identIndex = IdentIndex(f, TRUE, 1) /\ actionIndex = ActionIndex(f, TRUE, 1)
      /\ verifyRecords = TRUE /\ scanned = [recs |-> f, verify |-> TRUE]
      /\ initialRefresh = FALSE /\ due = FALSE /\ crashed = FALSE
      /\ req = [r \in Requests |-> Idle] /\ clients = <<>>
  BY <1>2 DEF Init
<1>4. PICK new : new = Indexed(identIndex, actionIndex)
  OBVIOUS
<1>5. /\ identIndex \in [Idents -> Pids] /\ actionIndex \in [Actions -> Seq(Pids)]
      /\ \A p \in new : OfRefresh(f, TRUE, 1, p)
      /\ \A i \in Idents : identIndex[i] = NoProxy \/ identIndex[i] \in new
      /\ \A a \in Actions : \A k \in 1..Len(actionIndex[a]) :
           actionIndex[a][k] \in new /\ Provides(f[actionIndex[a][k][2]], a)
  <2>1. PICK v \in BOOLEAN, n \in Nat : v = TRUE /\ n = 1
    OBVIOUS
  <2>2. identIndex = IdentIndex(f, v, n) /\ actionIndex = ActionIndex(f, v, n)
    BY <1>3, <2>1
  <2>3. /\ identIndex \in [Idents -> Pids] /\ actionIndex \in [Actions -> Seq(Pids)]
        /\ \A p \in new : OfRefresh(f, v, n, p)
        /\ \A i \in Idents : identIndex[i] = NoProxy \/ identIndex[i] \in new
        /\ \A a \in Actions : \A k \in 1..Len(actionIndex[a]) :
             actionIndex[a][k] \in new /\ Provides(f[actionIndex[a][k][2]], a)
    BY <1>4, <2>2, NewIndexed
  <2> QED
    BY <2>1, <2>3
<1>6. proxies = [p \in new |-> NewProxy(f[p[2]])]
  BY <1>2, <1>4 DEF Init
<1>7. ASSUME NEW p \in new
      PROVE  /\ proxies[p] \in ProxyType /\ proxies[p].rec = f[p[2]] /\ Trusted(proxies[p])
             /\ proxies[p].client = NoClient /\ proxies[p].clientM = Free
  <2>1. OfRefresh(f, TRUE, 1, p) /\ f \in Seq(Announcement)
    BY <1>5, ScanTable
  <2>2. PICK rec \in Announcement : rec = f[p[2]] /\ rec.kind = "good"
    BY <2>1 DEF OfRefresh
  <2>3. proxies[p] = [rec |-> rec, verified |-> TRUE, client |-> NoClient, clientM |-> Free]
    BY <1>3, <1>6, <2>2 DEF NewProxy
  <2>4. [rec |-> rec, verified |-> TRUE, client |-> NoClient, clientM |-> Free] \in ProxyType
    BY DEF ProxyType, NoClient
  <2> QED
    BY <2>2, <2>3, <2>4 DEF Trusted
<1>8. FileTypes
  BY <1>1, <1>2, <1>3 DEF FileTypes
<1>9. CacheTypes
  <2>1. DOMAIN proxies = new /\ new \subseteq Pids
    BY <1>5, <1>6 DEF OfRefresh
  <2>2. proxies \in [new -> ProxyType]
    BY <1>6, <1>7
  <2> QED
    BY <1>5, <2>1, <2>2 DEF CacheTypes
<1>10. DOMAIN proxies = new
  BY <1>6
<1>11. \A r \in Requests : /\ req[r] \in RequestType /\ req[r].pc = "idle"
                           /\ Len(req[r].todo) = 0 /\ Len(req[r].pool) = 0
  <2>1. <<>> \in Seq(Nat) /\ <<>> \in Seq(Pids) /\ Len(<<>>) = 0
    OBVIOUS
  <2>2. Idle \in RequestType /\ Idle.pc = "idle" /\ Idle.todo = <<>> /\ Idle.pool = <<>>
    BY <2>1 DEF Idle, RequestType, RequestPcs
  <2> QED
    BY <1>3, <2>1, <2>2
<1>12. clients \in Seq(AnyClient) /\ Len(clients) = 0
  BY <1>3
<1>13. CallTypes
  <2>1. req \in [Requests -> RequestType]
    BY <1>3, <1>11
  <2> QED
    BY <1>12, <2>1, ClientsAssumption DEF CallTypes
<1>14. TodoInv /\ PoolInv /\ DialInv
  BY <1>11 DEF TodoInv, PoolInv, DialInv
<1>15. IndexInv
  <2>1. \A i \in Idents : identIndex[i] = NoProxy \/ identIndex[i] \in DOMAIN proxies
    BY <1>5, <1>10
  <2>2. ASSUME NEW a \in Actions, NEW k \in 1..Len(actionIndex[a])
        PROVE  /\ actionIndex[a][k] \in DOMAIN proxies
               /\ Provides(proxies[actionIndex[a][k]].rec, a)
               /\ actionIndex[a][k][1] = 1
    <3>1. PICK p \in new : p = actionIndex[a][k]
      BY <1>5
    <3>2. OfRefresh(f, TRUE, 1, p) /\ Provides(f[p[2]], a)
      BY <1>5, <3>1
    <3>3. proxies[p].rec = f[p[2]] /\ p \in DOMAIN proxies /\ p[1] = 1
      BY <1>7, <1>10, <3>2 DEF OfRefresh
    <3> QED
      BY <3>1, <3>2, <3>3
  <2>3. ASSUME NEW a \in Actions, NEW k \in 1..Len(actionIndex[a])
        PROVE  actionIndex[a][k][1] = actionIndex[a][1][1]
    <3>1. actionIndex[a] \in Seq(Pids)
      BY <1>5
    <3>2. 1 \in 1..Len(actionIndex[a])
      BY <3>1
    <3> QED
      BY <2>2, <3>2
  <2> QED
    BY <2>1, <2>2, <2>3 DEF IndexInv
<1>16. LinkInv
  BY <1>7, <1>10 DEF LinkInv
<1>17. TrustInv /\ CountInv
  BY <1>12 DEF TrustInv, CountInv
<1>18. LockInv
  BY <1>7, <1>10, <1>11, RequestsAssumption DEF LockInv, Inside
<1> QED
  BY <1>8, <1>9, <1>13, <1>14, <1>15, <1>16, <1>17, <1>18 DEF RequestInv

(* The others: they change neither the cache nor requests nor clients.       *)
LEMMA OthersKeepRequests ==
  ASSUME RequestInv, UNCHANGED <<cacheVars, proxies, req, clients>>,
         file' \in Files \cup {Missing}, verifyRecords' \in BOOLEAN, UNCHANGED setup,
         initialRefresh' \in BOOLEAN, due' \in BOOLEAN, crashed' \in BOOLEAN
  PROVE  RequestInv'
<1>1. UNCHANGED <<identIndex, actionIndex, scanned, proxies, req, clients>>
  BY DEF cacheVars
<1>2. FileTypes'
  BY <1>1 DEF RequestInv, FileTypes
<1> QED
  BY <1>1, <1>2, RequestFrames DEF RequestInv

(* The steps of the refresher but its refresh.                               *)
RefresherMoves(o) ==
  \/ RunClaim(o) \/ StopBegin(o) \/ OwnerStep(o)
  \/ LoopSelect(o) \/ LoopPanics(o) \/ LoopTick(o) \/ LoopDone(o)

LEMMA RefresherMovesKeep ==
  ASSUME RequestInv, NEW o \in Owners, RefresherMoves(o)
  PROVE  RequestInv' /\ UNCHANGED proxies
<1>1. file \in Files \cup {Missing} /\ {verifyRecords, initialRefresh, due, crashed} \subseteq BOOLEAN
  BY DEF RequestInv, FileTypes
<1>2. CASE RunClaim(o) \/ StopBegin(o)
  BY <1>1, <1>2, OthersKeepRequests DEF RunClaim, StopBegin, elsewhere, dueVars
<1>3. CASE RunContext(o) \/ RunStart(o)
  BY <1>1, <1>3, OthersKeepRequests DEF RunContext, RunStart, elsewhere, dueVars
<1>4. CASE StopCancel(o) \/ StopPanics(o) \/ StopWait(o) \/ StopEnd(o)
  BY <1>1, <1>4, OthersKeepRequests
     DEF StopCancel, StopPanics, StopWait, StopEnd, elsewhere, dueVars, refresherVars, ownerVars
<1>5. CASE LoopSelect(o) \/ LoopPanics(o) \/ LoopDone(o)
  BY <1>1, <1>5, OthersKeepRequests
     DEF LoopSelect, LoopPanics, LoopDone, elsewhere, dueVars, refresherVars, ownerVars
<1>6. CASE LoopTick(o)
  BY <1>1, <1>6, OthersKeepRequests DEF LoopTick, ownerVars
<1> QED
  BY <1>2, <1>3, <1>4, <1>5, <1>6 DEF RefresherMoves, OwnerStep

(* Steps that touch neither the cache nor requests nor clients, the          *)
(* refresher's aside.                                                        *)
LEMMA EnvironmentKeeps ==
  ASSUME RequestInv,
         \/ \E f \in Files \cup {Missing} : Announce(f)
         \/ DisableRecordVerification \/ EnableRecordVerification \/ Tick \/ ParentCancels
         \/ \E r \in Requests : CheckClosedPanics(r)
  PROVE  RequestInv' /\ UNCHANGED proxies
<1>1. file \in Files \cup {Missing} /\ {verifyRecords, initialRefresh, due, crashed} \subseteq BOOLEAN
  BY DEF RequestInv, FileTypes
<1>2. ASSUME NEW f \in Files \cup {Missing}, Announce(f) PROVE RequestInv' /\ UNCHANGED proxies
  BY <1>1, <1>2, OthersKeepRequests DEF Announce, dueVars, refresherVars, ownerVars
<1>3. CASE DisableRecordVerification \/ EnableRecordVerification
  BY <1>1, <1>3, OthersKeepRequests
     DEF DisableRecordVerification, EnableRecordVerification, SetVerify, dueVars, refresherVars, ownerVars
<1>4. CASE Tick
  BY <1>1, <1>4, OthersKeepRequests DEF Tick, refresherVars, ownerVars
<1>5. CASE ParentCancels
  BY <1>1, <1>5, OthersKeepRequests DEF ParentCancels, elsewhere, dueVars, ownerVars
<1>6. ASSUME NEW r \in Requests, CheckClosedPanics(r) PROVE RequestInv' /\ UNCHANGED proxies
  BY <1>1, <1>6, OthersKeepRequests DEF CheckClosedPanics, dueVars, refresherVars, ownerVars
<1> QED
  BY <1>2, <1>3, <1>4, <1>5, <1>6

(* GetClient ends with an error in three ways.                               *)
LEMMA ThreeFailures ==
  ASSUME RequestInv, NEW r \in Requests, ParseFails(r) \/ DialFails(r) \/ BindNil(r)
  PROVE  Inside(r) /\ \E client \in {ClientOf(r), NoClient} : GetClientFails(r, client)
  BY DEF ParseFails, DialFails, BindNil, Inside

(* Every step preserves the invariant.                                       *)
LEMMA RequestsStep == RequestInv /\ [Next]_vars => RequestInv'
<1> SUFFICES ASSUME RequestInv, [Next]_vars PROVE RequestInv'
  OBVIOUS
<1>1. ASSUME NEW o \in Owners, RunClaim(o) \/ StopBegin(o) \/ OwnerStep(o) \/ LoopStep(o)
      PROVE  RequestInv'
  BY <1>1, LoopRefreshKeeps, RefresherMovesKeep DEF LoopStep, RefresherMoves
<1>2. ASSUME NEW r \in Requests, GetStep(r) \/ DialStep(r) PROVE RequestInv'
  <2>1. CASE ParseFails(r) \/ DialFails(r) \/ BindNil(r)
    BY <2>1, ThreeFailures, GetClientFailsInv
  <2>2. CASE CheckClosedPanics(r)
    BY <2>2, EnvironmentKeeps
  <2> QED
    BY <1>2, <2>1, <2>2, GetClientInv, CheckClosedInv, DialOkInv, BindInv
       DEF GetStep, DialStep
<1>3. ASSUME NEW r \in Requests, CallStep(r) PROVE RequestInv'
  BY <1>2, <1>3, SearchInv, SearchByActionInv, SortInv, SendLockInv, SendInv, SendFailsInv,
     LeavesInv, RepliedInv DEF CallStep, RequestStep, SendStep
<1>4. ASSUME NEW c \in DOMAIN clients, NEW k \in Closers, CloseStep(c, k) PROVE RequestInv'
  BY <1>4, CloseRefreshInv, CloseUnlinkInv, CloseRestInv DEF CloseStep
<1>5. CASE UNCHANGED vars
  BY <1>5, RequestFrames DEF vars, cacheVars, refresherVars, ownerVars, dueVars, RequestInv
<1> QED
  BY <1>1, <1>3, <1>4, <1>5, EnvironmentKeeps DEF Next, CallStep

(* It holds of every reachable state.                                        *)
LEMMA RequestInvariant == Spec => []RequestInv
  BY RequestInit, RequestsStep, PTL DEF Spec

-----------------------------------------------------------------------------
(* sendM *)

(* It is held by a request inside its Send on that client, by no other.      *)
SendMInv ==
  \A c \in 1..Len(clients) : \A r \in Requests :
    clients[c].sendM = r => req[r].pc = "sending" /\ Head(req[r].pool) = c

(* Nobody takes sendM of a client, and nobody leaves Send.                   *)
SendMKept ==
  \A c \in 1..Len(clients') :
    \/ clients'[c].sendM = Free
    \/ c \in 1..Len(clients) /\ clients'[c].sendM = clients[c].sendM

SendersStay == \A q \in Requests : req[q].pc = "sending" => req'[q] = req[q]

LEMMA SendMStays ==
  ASSUME SendMInv, SendMKept, SendersStay
  PROVE  SendMInv'
<1>1. ASSUME NEW c \in 1..Len(clients'), NEW q \in Requests, clients'[c].sendM = q
      PROVE  req'[q].pc = "sending" /\ Head(req'[q].pool) = c
  <2>1. q # Free
    BY RequestsAssumption
  <2>2. c \in 1..Len(clients) /\ clients[c].sendM = q
    BY <1>1, <2>1 DEF SendMKept
  <2>3. req[q].pc = "sending" /\ Head(req[q].pool) = c
    BY <2>2 DEF SendMInv
  <2> QED
    BY <2>3 DEF SendersStay
<1> QED
  BY <1>1 DEF SendMInv

(* A client that changes and keeps its sendM.                                *)
LEMMA OneClientKeepsSendM ==
  ASSUME RequestInv, NEW c \in DOMAIN clients, NEW x, x.sendM = clients[c].sendM,
         clients' = [clients EXCEPT ![c] = x]
  PROVE  SendMKept
<1>1. clients \in Seq(AnyClient) /\ DOMAIN clients = 1..Len(clients)
  BY Types
<1>2. Len(clients') = Len(clients) /\ \A d \in 1..Len(clients) : d # c => clients'[d] = clients[d]
  BY <1>1
<1>3. clients'[c] = x
  BY <1>1
<1> QED
  BY <1>1, <1>2, <1>3 DEF SendMKept

LEMMA NoClientKeepsSendM == RequestInv /\ UNCHANGED clients => SendMKept
  BY DEF SendMKept

(* Requests stay where they are but for one.                                 *)
LEMMA OtherCallsStay ==
  ASSUME RequestInv, NEW r \in Requests, CallStep(r)
  PROVE  \A q \in Requests \ {r} : req'[q] = req[q]
<1>1. req \in [Requests -> RequestType]
  BY Types
<1>2. CASE Search(r) \/ SearchByAction(r) \/ Sort(r)
  BY <1>1, <1>2 DEF Search, SearchByAction, Sort, Goto
<1>3. CASE GetClient(r) \/ CheckClosed(r) \/ CheckClosedPanics(r) \/ DialOk(r) \/ Bind(r)
  BY <1>1, <1>3 DEF GetClient, CheckClosed, CheckClosedPanics, DialOk, Bind, Goto
<1>4. CASE ParseFails(r) \/ DialFails(r) \/ BindNil(r)
  BY <1>1, <1>4 DEF ParseFails, DialFails, BindNil, GetClientFails
<1>5. CASE SendLock(r) \/ SendNil(r) \/ Send(r) \/ SendFails(r)
  BY <1>1, <1>5 DEF SendLock, SendNil, Send, SendFails, Goto
<1>6. CASE NotSent(r) \/ Replied(r) \/ GiveUp(r)
  BY <1>1, <1>6 DEF NotSent, Replied, GiveUp
<1> QED
  BY <1>2, <1>3, <1>4, <1>5, <1>6 DEF CallStep, RequestStep, GetStep, DialStep, SendStep

(* Only these steps touch the clients; the ones of a call but Send.          *)
LEMMA BindKeepsSendM ==
  ASSUME RequestInv, NEW r \in Requests, Bind(r)
  PROVE  SendMKept
<1>1. Inside(r) /\ ClientOf(r) # NoClient
  BY DEF Bind, Inside
<1>2. Proxy(r) \in DOMAIN proxies
  BY <1>1, AskedProxy
<1>3. PICK c \in 1..Len(clients) : c = ClientOf(r)
  BY <1>1, <1>2 DEF RequestInv, LinkInv, ClientOf
<1>4. clients[c] \in AnyClient /\ c \in DOMAIN clients /\ clients \in Seq(AnyClient)
  BY Types
<1>5. PICK x : x = [clients[c] EXCEPT !.spIdent = proxies[Proxy(r)].rec.ident]
  OBVIOUS
<1>6. x.sendM = clients[c].sendM
  BY <1>4, <1>5 DEF AnyClient
<1>7. clients' = [clients EXCEPT ![c] = x]
  BY <1>3, <1>4, <1>5 DEF Bind
<1> QED
  BY <1>4, <1>6, <1>7, OneClientKeepsSendM

LEMMA DialKeepsSendM ==
  ASSUME RequestInv, NEW r \in Requests, DialOk(r)
  PROVE  SendMKept
<1>1. clients \in Seq(AnyClient) /\ Len(clients) \in Nat
  BY Types
<1>2. PICK new : new = NewClient(proxies[Proxy(r)])
  OBVIOUS
<1>3. new.sendM = Free
  BY <1>2 DEF NewClient
<1>4. clients' = Append(clients, new)
  BY <1>2 DEF DialOk
<1>5. PICK n \in Nat : n = Len(clients)
  BY <1>1
<1>6. /\ Len(clients') = n + 1 /\ clients'[n + 1] = new
      /\ \A d \in 1..n : clients'[d] = clients[d]
  BY <1>1, <1>4, <1>5
<1>7. ASSUME NEW d \in 1..(n + 1)
      PROVE  clients'[d].sendM = Free \/ (d \in 1..Len(clients) /\ clients'[d].sendM = clients[d].sendM)
  <2>1. CASE d \in 1..n
    BY <1>5, <1>6, <2>1
  <2>2. CASE d = n + 1
    BY <1>3, <1>6, <2>2
  <2> QED
    BY <1>5, <2>1, <2>2
<1> QED
  BY <1>6, <1>7 DEF SendMKept

LEMMA RepliedKeepsSendM ==
  ASSUME RequestInv, NEW r \in Requests, Replied(r)
  PROVE  SendMKept
<1>1. req[r].pool # <<>>
  BY DEF Replied, RequestInv, PoolInv
<1>2. PICK c \in DOMAIN clients : c = Head(req[r].pool) /\ clients[c] \in AnyClient
  BY <1>1, PoolHead
<1>3. PICK x : x = [clients[c] EXCEPT !.openReplies = clients[c].openReplies - 1]
  OBVIOUS
<1>4. x.sendM = clients[c].sendM
  BY <1>2, <1>3 DEF AnyClient
<1>5. clients' = [clients EXCEPT ![c] = x]
  BY <1>2, <1>3, Types DEF Replied
<1> QED
  BY <1>4, <1>5, OneClientKeepsSendM

LEMMA CloseKeepsSendM ==
  ASSUME RequestInv, NEW c \in DOMAIN clients, NEW k \in Closers, CloseStep(c, k)
  PROVE  SendMKept /\ UNCHANGED req
<1>1. clients[c] \in AnyClient /\ clients \in Seq(AnyClient)
  BY Types
<1>2. UNCHANGED req
  BY DEF CloseStep, CloseRefresh, CloseUnlink, CloseConnection, CloseEnd
<1>3. ASSUME NEW pc \in CloserPcs, Closing(c, k, pc) PROVE SendMKept
  <2>1. PICK x : x = [clients[c] EXCEPT !.closer[k] = pc]
    OBVIOUS
  <2>2. x.sendM = clients[c].sendM
    BY <1>1, <2>1 DEF AnyClient
  <2>3. clients' = [clients EXCEPT ![c] = x]
    BY <1>1, <1>3, <2>1 DEF Closing
  <2> QED
    BY <2>2, <2>3, OneClientKeepsSendM
<1>4. CASE CloseRefresh(c, k) \/ CloseUnlink(c, k)
  BY <1>3, <1>4 DEF CloseRefresh, CloseUnlink, CloserPcs
<1>5. CASE CloseConnection(c, k) /\ clients[c].isClosed
  BY <1>3, <1>5 DEF CloseConnection, Closing, CloserPcs
<1>6. CASE CloseConnection(c, k) /\ ~clients[c].isClosed
  <2>1. PICK x : x = [clients[c] EXCEPT !.closer[k] = "mark", !.closedM = k, !.conn = FALSE]
    OBVIOUS
  <2>2. x.sendM = clients[c].sendM
    BY <1>1, <2>1 DEF AnyClient
  <2>3. clients' = [clients EXCEPT ![c] = x]
    BY <1>1, <1>6, <2>1 DEF CloseConnection, AnyClient
  <2> QED
    BY <1>2, <2>2, <2>3, OneClientKeepsSendM
<1>7. CASE CloseEnd(c, k)
  <2>1. PICK x : x = [clients[c] EXCEPT !.closer[k] = "end", !.closedM = Free, !.isClosed = TRUE]
    OBVIOUS
  <2>2. x.sendM = clients[c].sendM
    BY <1>1, <2>1 DEF AnyClient
  <2>3. clients' = [clients EXCEPT ![c] = x]
    BY <1>1, <1>7, <2>1 DEF CloseEnd, AnyClient
  <2> QED
    BY <1>2, <2>2, <2>3, OneClientKeepsSendM
<1> QED
  BY <1>2, <1>4, <1>5, <1>6, <1>7 DEF CloseStep

(* Send takes sendM of the client it was free of, and gives it back.         *)
LEMMA SendStepsKeepLock ==
  ASSUME RequestInv, SendMInv, NEW r \in Requests, SendLock(r) \/ SendStep(r)
  PROVE  SendMInv'
<1>1. req[r].pool # <<>> /\ req[r].pc \in {"send", "sending"} /\ (SendStep(r) <=> req[r].pc = "sending")
  BY DEF SendLock, SendStep, Send, SendFails, RequestInv, PoolInv
<1>2. PICK c \in DOMAIN clients : c = Head(req[r].pool) /\ clients[c] \in AnyClient
  BY <1>1, PoolHead
<1>3. clients \in Seq(AnyClient) /\ DOMAIN clients = 1..Len(clients) /\ req \in [Requests -> RequestType]
  BY Types
<1>4. \A q \in Requests \ {r} : req'[q] = req[q]
  BY OtherCallsStay DEF CallStep, RequestStep, SendStep
<1>5. /\ Len(clients') = Len(clients)
      /\ \A d \in 1..Len(clients) : d # c => clients'[d] = clients[d]
      /\ SendLock(r) => clients'[c].sendM = r /\ req'[r].pc = "sending" /\ req'[r].pool = req[r].pool
      /\ SendStep(r) => clients'[c].sendM = Free
  <2>1. CASE SendLock(r)
    <3>1. PICK x : x = [clients[c] EXCEPT !.sendM = r]
      OBVIOUS
    <3>2. x.sendM = r
      BY <1>2, <3>1 DEF AnyClient
    <3>3. clients' = [clients EXCEPT ![c] = x]
      BY <1>2, <2>1, <3>1 DEF SendLock
    <3>4. Goto(r, "sending") /\ "sending" \in RequestPcs /\ ~SendStep(r)
      BY <1>1, <2>1 DEF SendLock, RequestPcs
    <3>5. req'[r].pc = "sending" /\ req'[r].pool = req[r].pool
      BY <3>4, GotoFacts
    <3> QED
      BY <1>3, <3>2, <3>3, <3>4, <3>5
  <2>2. CASE Send(r)
    <3>1. PICK x : x = [clients[c] EXCEPT !.openReplies = clients[c].openReplies + 1, !.sendM = Free]
      OBVIOUS
    <3>2. x.sendM = Free
      BY <1>2, <3>1 DEF AnyClient
    <3>3. clients' = [clients EXCEPT ![c] = x]
      BY <1>2, <1>3, <2>2, <3>1 DEF Send, AnyClient
    <3>4. ~SendLock(r)
      BY <2>2 DEF SendLock, Send
    <3> QED
      BY <1>3, <3>2, <3>3, <3>4
  <2>3. CASE SendFails(r)
    <3>1. PICK x : x = [clients[c] EXCEPT !.sendM = Free]
      OBVIOUS
    <3>2. x.sendM = Free
      BY <1>2, <3>1 DEF AnyClient
    <3>3. clients' = [clients EXCEPT ![c] = x]
      BY <1>2, <2>3, <3>1 DEF SendFails
    <3>4. ~SendLock(r)
      BY <2>3 DEF SendLock, SendFails
    <3> QED
      BY <1>3, <3>2, <3>3, <3>4
  <2> QED
    BY <2>1, <2>2, <2>3 DEF SendStep
<1>6. ASSUME NEW d \in 1..Len(clients'), NEW q \in Requests, clients'[d].sendM = q
      PROVE  req'[q].pc = "sending" /\ Head(req'[q].pool) = d
  <2>1. q # Free
    BY RequestsAssumption
  <2>2. CASE d = c
    BY <1>2, <1>5, <1>6, <2>1, <2>2
  <2>3. CASE d # c
    <3>1. d \in 1..Len(clients) /\ clients[d].sendM = q
      BY <1>5, <1>6, <2>3
    <3>2. req[q].pc = "sending" /\ Head(req[q].pool) = d
      BY <3>1 DEF SendMInv
    <3>3. q # r
      BY <1>2, <2>3, <3>2
    <3> QED
      BY <1>4, <3>2, <3>3
  <2> QED
    BY <2>2, <2>3
<1> QED
  BY <1>6 DEF SendMInv

(* Every step preserves it.                                                  *)
LEMMA SendMStep == RequestInv /\ SendMInv /\ [Next]_vars => SendMInv'
<1> SUFFICES ASSUME RequestInv, SendMInv, [Next]_vars PROVE SendMInv'
  OBVIOUS
<1>1. CASE UNCHANGED <<req, clients>>
  BY <1>1 DEF SendMInv
<1>2. ASSUME NEW r \in Requests, CallStep(r) PROVE SendMInv'
  <2>1. CASE SendLock(r) \/ SendStep(r)
    BY <2>1, SendStepsKeepLock
  <2>2. CASE ~SendLock(r) /\ ~SendStep(r)
    <3>1. SendMKept
      <4>1. CASE UNCHANGED clients
        BY <4>1, NoClientKeepsSendM
      <4>2. CASE Bind(r) \/ DialOk(r) \/ Replied(r)
        BY <4>2, BindKeepsSendM, DialKeepsSendM, RepliedKeepsSendM
      <4>3. CASE Search(r) \/ SearchByAction(r) \/ Sort(r) \/ GetClient(r) \/ CheckClosed(r)
        BY <4>1, <4>3 DEF Search, SearchByAction, Sort, GetClient, CheckClosed
      <4>4. CASE CheckClosedPanics(r) \/ ParseFails(r) \/ DialFails(r) \/ BindNil(r)
        BY <4>1, <4>4 DEF CheckClosedPanics, ParseFails, DialFails, BindNil, GetClientFails
      <4>5. CASE SendNil(r) \/ NotSent(r) \/ GiveUp(r)
        BY <4>1, <4>5 DEF SendNil, NotSent, GiveUp
      <4> QED
        BY <1>2, <2>2, <4>2, <4>3, <4>4, <4>5 DEF CallStep, RequestStep, GetStep, DialStep
    <3>2. req[r].pc # "sending"
      <4>1. CASE Search(r) \/ SearchByAction(r) \/ Sort(r) \/ GetClient(r) \/ CheckClosed(r)
        BY <4>1 DEF Search, SearchByAction, Sort, GetClient, CheckClosed
      <4>2. CASE CheckClosedPanics(r) \/ ParseFails(r) \/ DialFails(r) \/ BindNil(r)
        BY <4>2 DEF CheckClosedPanics, ParseFails, DialFails, BindNil
      <4>3. CASE Bind(r) \/ DialOk(r) \/ Replied(r) \/ SendNil(r) \/ NotSent(r) \/ GiveUp(r)
        BY <4>3 DEF Bind, DialOk, Replied, SendNil, NotSent, GiveUp
      <4> QED
        BY <1>2, <2>2, <4>1, <4>2, <4>3 DEF CallStep, RequestStep, GetStep, DialStep
    <3>3. SendersStay
      BY <1>2, <3>2, OtherCallsStay DEF SendersStay
    <3> QED
      BY <3>1, <3>3, SendMStays
  <2> QED
    BY <2>1, <2>2
<1>3. ASSUME NEW c \in DOMAIN clients, NEW k \in Closers, CloseStep(c, k) PROVE SendMInv'
  BY <1>3, CloseKeepsSendM, SendMStays DEF SendersStay
<1>4. ASSUME NEW o \in Owners, RunClaim(o) \/ StopBegin(o) \/ OwnerStep(o) \/ LoopStep(o)
      PROVE  SendMInv'
  <2>1. CASE RunClaim(o) \/ StopBegin(o) \/ OwnerStep(o)
    BY <1>1, <2>1 DEF RunClaim, StopBegin, OwnerStep, RunContext, RunStart, StopCancel, StopPanics,
                      StopWait, StopEnd, elsewhere
  <2>2. CASE LoopStep(o)
    BY <1>1, <2>2 DEF LoopStep, LoopRefresh, LoopSelect, LoopPanics, LoopTick, LoopDone, elsewhere
  <2> QED
    BY <1>4, <2>1, <2>2
<1>5. CASE \/ \E f \in Files \cup {Missing} : Announce(f)
           \/ DisableRecordVerification \/ EnableRecordVerification \/ Tick \/ ParentCancels
  BY <1>1, <1>5 DEF Announce, DisableRecordVerification, EnableRecordVerification, SetVerify,
                    Tick, ParentCancels, elsewhere
<1>6. CASE UNCHANGED vars
  BY <1>1, <1>6 DEF vars
<1> QED
  BY <1>2, <1>3, <1>4, <1>5, <1>6 DEF Next, CallStep

(* It holds of every reachable state.                                        *)
LEMMA SendMInvariant == Spec => []SendMInv
<1>1. Init => SendMInv
  BY DEF Init, SendMInv
<1> QED
  BY <1>1, SendMStep, RequestInvariant, PTL DEF Spec

-----------------------------------------------------------------------------
(* What it means *)

(* For any number of requests, proxies and clients, whatever is refreshed,   *)
(* closed or dialled again in between: MakeJSONRequest hands its message     *)
(* only to services that announced the action it asks for, in announcements  *)
(* that validated unless verification was off when they were read.           *)
THEOREM OnlyProvidersAreAsked == Spec => []RequestsReachProviders
<1>1. RequestInv => RequestsReachProviders
  <2> SUFFICES ASSUME RequestInv, NEW r \in Requests, NEW c \in Range(req[r].pool)
               PROVE  /\ \E n \in clients[c].rec.provides : ToLower[n] = ToLower[Wanted[r]]
                      /\ clients[c].verified => clients[c].rec.kind = "good"
    BY DEF RequestsReachProviders
  <2>1. req[r].pool \in Seq(Nat)
    BY Types
  <2>2. PICK k \in 1..Len(req[r].pool) : c = req[r].pool[k]
    BY <2>1 DEF Range
  <2>3. c \in 1..Len(clients) /\ Provides(clients[c].rec, ToLower[Wanted[r]])
    BY <2>2 DEF RequestInv, PoolInv
  <2>4. Trusted(clients[c])
    BY <2>3 DEF RequestInv, TrustInv
  <2> QED
    BY <2>3, <2>4 DEF Provides, Trusted
<1> QED
  BY <1>1, RequestInvariant, PTL

(* Nothing dangles, clientM of a proxy is held by the request inside its     *)
(* GetClient and by no other, sendM of a client by the one inside its Send,  *)
(* and the open replies of a client are at most the requests there are.      *)
THEOREM TypeCorrect == Spec => []TypeOK
<1>1. RequestInv => ProxyTypes
  <2> SUFFICES ASSUME RequestInv PROVE ProxyTypes
    OBVIOUS
  <2>1. Indexed(identIndex, actionIndex) \subseteq DOMAIN proxies
    <3> SUFFICES ASSUME NEW p \in Indexed(identIndex, actionIndex) PROVE p \in DOMAIN proxies
      OBVIOUS
    <3>1. CASE p \in Range(identIndex) \ {NoProxy}
      BY <3>1 DEF Range, RequestInv, CacheTypes, IndexInv
    <3>2. ASSUME NEW a \in Actions, p \in Range(actionIndex[a]) PROVE p \in DOMAIN proxies
      <4>1. actionIndex[a] \in Seq(Pids)
        BY DEF RequestInv, CacheTypes
      <4>2. PICK k \in 1..Len(actionIndex[a]) : p = actionIndex[a][k]
        BY <3>2, <4>1 DEF Range
      <4> QED
        BY <4>2 DEF RequestInv, IndexInv
    <3> QED
      BY <3>1, <3>2 DEF Indexed
  <2>2. ASSUME NEW p \in DOMAIN proxies
        PROVE  /\ proxies[p].rec \in Announcement
               /\ proxies[p].client \in DOMAIN clients \cup {NoClient}
               /\ proxies[p].clientM \in {Free} \cup
                    {r \in Requests : req[r].pc \in {"isClosed", "dial", "bind"} /\ Proxy(r) = p}
    <3>1. proxies[p].rec \in Announcement /\ proxies[p].clientM \in Requests \cup {Free}
      BY Types DEF ProxyType
    <3>2. proxies[p].client \in DOMAIN clients \cup {NoClient}
      BY Types DEF RequestInv, LinkInv
    <3>3. ASSUME NEW r \in Requests, proxies[p].clientM = r
          PROVE  req[r].pc \in {"isClosed", "dial", "bind"} /\ Proxy(r) = p
      BY <3>3 DEF RequestInv, LockInv, Inside
    <3> QED
      BY <3>1, <3>2, <3>3
  <2> QED
    BY <2>1, <2>2, HeldExists DEF ProxyTypes
<1>2. RequestInv /\ SendMInv => ClientTypes
  <2> SUFFICES ASSUME RequestInv, SendMInv PROVE ClientTypes
    OBVIOUS
  <2>1. ASSUME NEW r \in Requests PROVE req[r].pc \in RequestPcs /\ Range(req[r].pool) \subseteq DOMAIN clients
    <3>1. req[r].pc \in RequestPcs /\ req[r].pool \in Seq(Nat) /\ DOMAIN clients = 1..Len(clients)
      BY Types
    <3>2. \A k \in 1..Len(req[r].pool) : req[r].pool[k] \in DOMAIN clients
      BY <3>1 DEF RequestInv, PoolInv
    <3> QED
      BY <3>1, <3>2 DEF Range
  <2>2. ASSUME NEW c \in 1..Len(clients) PROVE clients[c] \in ClientType
    <3>1. PICK n \in Int : n = clients[c].openReplies
      BY Types DEF AnyClient
    <3>2. Cardinality(Waiting(c)) <= n /\ n <= Cardinality(Sent)
      BY <3>1 DEF RequestInv, CountInv
    <3>3. /\ Cardinality(Waiting(c)) \in Nat /\ Cardinality(Sent) \in Nat
          /\ Cardinality(Sent) <= Cardinality(Requests) /\ Cardinality(Requests) \in Nat
      <4>1. Sent \subseteq Requests /\ IsFiniteSet(Requests)
        BY RequestsAssumption DEF Sent
      <4> QED
        BY <4>1, WaitingFinite, FS_Subset, FS_CardinalityType
    <3>4. n \in 0..Cardinality(Requests)
      BY <3>2, <3>3
    <3>5. clients[c] \in AnyClient
      BY Types
    <3> QED
      BY <3>1, <3>4, <3>5 DEF AnyClient, ClientType
  <2>3. Range(clients) \subseteq ClientType
    BY <2>2, Types DEF Range
  <2>4. ASSUME NEW c \in DOMAIN clients
        PROVE  clients[c].sendM \in {Free} \cup
                 {r \in Requests : req[r].pc = "sending" /\ Head(req[r].pool) = c}
    <3>1. clients[c] \in AnyClient /\ c \in 1..Len(clients)
      BY Types
    <3>2. clients[c].sendM \in Requests \cup {Free}
      BY <3>1 DEF AnyClient
    <3>3. \A r \in Requests : clients[c].sendM = r => req[r].pc = "sending" /\ Head(req[r].pool) = c
      BY <3>1 DEF SendMInv
    <3> QED
      BY <3>2, <3>3
  <2> QED
    BY <2>1, <2>3, <2>4, Types DEF ClientTypes
<1>3. RequestInv /\ SendMInv /\ RefresherInv => TypeOK
  BY <1>1, <1>2 DEF TypeOK, RequestInv, RefresherInv
<1> QED
  BY <1>3, RequestInvariant, SendMInvariant, RefresherInvariant, PTL

(* What a step makes of the client of a proxy.                               *)
Keeps(p) ==
  LET old == proxies[p].client  new == proxies'[p].client
  IN  (old # NoClient /\ new \notin {old, NoClient}) => clients[old].isClosed

(* The proxy a request asks, when it is the only one that changes.           *)
LEMMA OneProxyChanges ==
  ASSUME RequestInv, NEW r \in Requests, req[r].todo # <<>>,
         \/ GetClient(r) \/ Bind(r) \/ DialOk(r)
         \/ \E client \in {ClientOf(r), NoClient} : GetClientFails(r, client)
  PROVE  \A p \in DOMAIN proxies : Keeps(p)
<1>1. PICK p0 \in DOMAIN proxies : p0 = Proxy(r) /\ proxies[p0] \in ProxyType
  BY AskedProxy
<1>2. proxies \in [DOMAIN proxies -> ProxyType]
  BY DEF RequestInv, CacheTypes
<1>3. ASSUME GetClient(r) \/ Bind(r)
      PROVE  \A p \in DOMAIN proxies : proxies'[p].client = proxies[p].client
  <2>1. \E m : proxies' = [proxies EXCEPT ![p0].clientM = m]
    BY <1>1, <1>3 DEF GetClient, Bind
  <2>2. PICK m : proxies' = [proxies EXCEPT ![p0].clientM = m]
    BY <2>1
  <2>3. PICK x : x = [proxies[p0] EXCEPT !.clientM = m]
    OBVIOUS
  <2>4. x.client = proxies[p0].client
    BY <1>1, <2>3 DEF ProxyType
  <2>5. proxies' = [proxies EXCEPT ![p0] = x]
    BY <1>2, <2>2, <2>3
  <2> QED
    BY <1>2, <2>4, <2>5
<1>4. ASSUME DialOk(r) PROVE \A p \in DOMAIN proxies : Keeps(p)
  <2>1. /\ proxies' = [proxies EXCEPT ![p0].client = Len(clients) + 1]
        /\ req[r].pc = "dial"
    BY <1>1, <1>4 DEF DialOk
  <2>2. \A p \in DOMAIN proxies : p # p0 => proxies'[p] = proxies[p]
    BY <1>2, <2>1
  <2>3. proxies[p0].client = NoClient \/ clients[proxies[p0].client].isClosed
    BY <1>1, <2>1 DEF RequestInv, DialInv, ClientOf
  <2>4. ASSUME NEW p \in DOMAIN proxies PROVE Keeps(p)
    <3>1. CASE p = p0
      BY <2>3, <3>1 DEF Keeps
    <3>2. CASE p # p0
      BY <2>2, <3>2 DEF Keeps
    <3> QED
      BY <3>1, <3>2
  <2> QED
    BY <2>4
<1>5. ASSUME NEW client \in {ClientOf(r), NoClient}, GetClientFails(r, client)
      PROVE  \A p \in DOMAIN proxies : Keeps(p)
  <2>1. proxies' = [proxies EXCEPT ![p0].client = client, ![p0].clientM = Free]
    BY <1>1, <1>5 DEF GetClientFails
  <2>2. PICK x : x = [proxies[p0] EXCEPT !.client = client, !.clientM = Free]
    OBVIOUS
  <2>3. x.client = client
    BY <1>1, <2>2 DEF ProxyType
  <2>4. proxies' = [proxies EXCEPT ![p0] = x]
    BY <1>1, <1>2, <2>1, <2>2 DEF ProxyType
  <2>5. proxies'[p0].client = client /\ \A p \in DOMAIN proxies : p # p0 => proxies'[p] = proxies[p]
    BY <1>2, <2>3, <2>4
  <2>6. client \in {proxies[p0].client, NoClient}
    BY <1>1 DEF ClientOf
  <2>7. ASSUME NEW p \in DOMAIN proxies PROVE Keeps(p)
    <3>1. CASE p = p0
      BY <2>5, <2>6, <3>1 DEF Keeps
    <3>2. CASE p # p0
      BY <2>5, <3>2 DEF Keeps
    <3> QED
      BY <3>1, <3>2
  <2> QED
    BY <2>7
<1> QED
  BY <1>3, <1>4, <1>5 DEF Keeps

(* A step of the cache, the requests or a closer, proxy by proxy.            *)
LEMMA StepKeeps ==
  ASSUME RequestInv, Next, NEW p \in DOMAIN proxies \cap DOMAIN proxies'
  PROVE  Keeps(p)
<1>1. CASE UNCHANGED proxies
  BY <1>1 DEF Keeps
<1>2. CASE Refresh
  <2>1. proxies'[p] = proxies[p] \/ proxies'[p].client = NoClient
    BY <1>2, RefreshFacts
  <2> QED
    BY <2>1 DEF Keeps
<1>3. ASSUME NEW o \in Owners, RunClaim(o) \/ StopBegin(o) \/ OwnerStep(o) \/ LoopStep(o)
      PROVE  Keeps(p)
  <2>1. CASE LoopRefresh(o)
    BY <1>2, <2>1 DEF LoopRefresh
  <2>2. CASE RefresherMoves(o)
    BY <1>1, <2>2, RefresherMovesKeep
  <2> QED
    BY <1>3, <2>1, <2>2 DEF LoopStep, RefresherMoves
<1>4. ASSUME NEW r \in Requests, GetStep(r) \/ DialStep(r) PROVE Keeps(p)
  <2>1. CASE CheckClosed(r) \/ CheckClosedPanics(r)
    BY <1>1, <2>1 DEF CheckClosed, CheckClosedPanics
  <2>2. CASE GetClient(r)
    BY <2>2, OneProxyChanges DEF GetClient
  <2>3. CASE DialOk(r) \/ Bind(r)
    <3>1. req[r].todo # <<>>
      BY <2>3, AskedProxy DEF DialOk, Bind, Inside
    <3> QED
      BY <2>3, <3>1, OneProxyChanges
  <2>4. CASE ParseFails(r) \/ DialFails(r) \/ BindNil(r)
    <3>1. req[r].todo # <<>>
      BY <2>4, ThreeFailures, AskedProxy
    <3> QED
      BY <2>4, <3>1, ThreeFailures, OneProxyChanges
  <2> QED
    BY <1>4, <2>1, <2>2, <2>3, <2>4 DEF GetStep, DialStep
<1>5. ASSUME NEW r \in Requests, CallStep(r) PROVE Keeps(p)
  <2>1. CASE Search(r)
    BY <1>1, <1>2, <2>1 DEF Search, ReactiveRefresh
  <2>2. CASE SearchByAction(r) \/ Sort(r)
    BY <1>1, <2>2 DEF SearchByAction, Sort
  <2>3. CASE SendLock(r) \/ SendNil(r) \/ Send(r) \/ SendFails(r)
    BY <1>1, <2>3 DEF SendLock, SendNil, Send, SendFails
  <2>4. CASE NotSent(r) \/ Replied(r) \/ GiveUp(r)
    BY <1>1, <2>4 DEF NotSent, Replied, GiveUp
  <2> QED
    BY <1>4, <1>5, <2>1, <2>2, <2>3, <2>4 DEF CallStep, RequestStep, SendStep
<1>6. ASSUME NEW c \in DOMAIN clients, NEW k \in Closers, CloseStep(c, k) PROVE Keeps(p)
  <2>1. CASE CloseRefresh(c, k)
    BY <1>1, <1>2, <2>1 DEF CloseRefresh, ReactiveRefresh
  <2>2. CASE CloseUnlink(c, k)
    <3>1. proxies'[p].client \in {proxies[p].client, NoClient}
      BY <2>2, UnlinkFacts
    <3> QED
      BY <3>1 DEF Keeps
  <2>3. CASE CloseConnection(c, k) \/ CloseEnd(c, k)
    BY <1>1, <2>3 DEF CloseConnection, CloseEnd
  <2> QED
    BY <1>6, <2>1, <2>2, <2>3 DEF CloseStep
<1> QED
  BY <1>1, <1>3, <1>5, <1>6, EnvironmentKeeps DEF Next, CallStep

(* However many requests ask the same proxy at the same time, and whatever   *)
(* Close takes away meanwhile: GetClient gives a proxy a new client only     *)
(* when it has none or a closed one.                                         *)
THEOREM OpenClientsStay == Spec => OpenClientsAreKept
<1>1. RequestInv /\ [Next]_vars =>
        [\A p \in DOMAIN proxies \cap DOMAIN proxies' :
           LET old == proxies[p].client  new == proxies'[p].client
           IN  (old # NoClient /\ new \notin {old, NoClient}) => clients[old].isClosed]_vars
  BY StepKeeps DEF Keeps
<1> QED
  BY <1>1, RequestInvariant, PTL DEF Spec, OpenClientsAreKept

-----------------------------------------------------------------------------
(* The indexes and the file they were read from *)

(* The indexes are those of the file last scanned, and their proxies are of  *)
(* its announcements.                                                        *)
MatchInv ==
  \E n \in Nat :
    /\ identIndex = IdentIndex(scanned.recs, scanned.verify, n)
    /\ actionIndex = ActionIndex(scanned.recs, scanned.verify, n)
    /\ \A p \in Indexed(identIndex, actionIndex) :
         p \in DOMAIN proxies /\ proxies[p].rec = scanned.recs[p[2]]

(* No proxy is lost or becomes one of another announcement.                  *)
RecordsKept ==
  \A p \in DOMAIN proxies : p \in DOMAIN proxies' /\ proxies'[p].rec = proxies[p].rec

(* What is true of all proxies but the one a request asks, and of that one.  *)
LEMMA RecordsStay ==
  ASSUME RequestInv, NEW r \in Requests, req[r].todo # <<>>,
         \/ GetClient(r) \/ Bind(r) \/ DialOk(r)
         \/ \E client \in {ClientOf(r), NoClient} : GetClientFails(r, client)
  PROVE  RecordsKept /\ UNCHANGED cacheVars
<1>1. PICK p0 \in DOMAIN proxies : p0 = Proxy(r) /\ proxies[p0] \in ProxyType
  BY AskedProxy
<1>2. proxies \in [DOMAIN proxies -> ProxyType]
  BY DEF RequestInv, CacheTypes
<1>3. ASSUME NEW x, x.rec = proxies[p0].rec, proxies' = [proxies EXCEPT ![p0] = x] PROVE RecordsKept
  BY <1>2, <1>3 DEF RecordsKept
<1>4. CASE GetClient(r) \/ Bind(r)
  <2>1. \E m : proxies' = [proxies EXCEPT ![p0].clientM = m]
    BY <1>1, <1>4 DEF GetClient, Bind
  <2>2. PICK m : proxies' = [proxies EXCEPT ![p0].clientM = m]
    BY <2>1
  <2>3. PICK x : x = [proxies[p0] EXCEPT !.clientM = m]
    OBVIOUS
  <2>4. x.rec = proxies[p0].rec
    BY <1>1, <2>3 DEF ProxyType
  <2>5. proxies' = [proxies EXCEPT ![p0] = x]
    BY <1>2, <2>2, <2>3
  <2> QED
    BY <1>3, <1>4, <2>4, <2>5 DEF GetClient, Bind
<1>5. CASE DialOk(r)
  <2>1. PICK x : x = [proxies[p0] EXCEPT !.client = Len(clients) + 1]
    OBVIOUS
  <2>2. x.rec = proxies[p0].rec
    BY <1>1, <2>1 DEF ProxyType
  <2>3. proxies' = [proxies EXCEPT ![p0] = x]
    BY <1>1, <1>2, <1>5, <2>1 DEF DialOk
  <2> QED
    BY <1>3, <1>5, <2>2, <2>3 DEF DialOk
<1>6. ASSUME NEW client \in {ClientOf(r), NoClient}, GetClientFails(r, client)
      PROVE  RecordsKept /\ UNCHANGED cacheVars
  <2>1. proxies' = [proxies EXCEPT ![p0].client = client, ![p0].clientM = Free]
    BY <1>1, <1>6 DEF GetClientFails
  <2>2. PICK x : x = [proxies[p0] EXCEPT !.client = client, !.clientM = Free]
    OBVIOUS
  <2>3. x.rec = proxies[p0].rec
    BY <1>1, <2>2 DEF ProxyType
  <2>4. proxies' = [proxies EXCEPT ![p0] = x]
    BY <1>1, <1>2, <2>1, <2>2 DEF ProxyType
  <2> QED
    BY <1>3, <1>6, <2>3, <2>4 DEF GetClientFails
<1> QED
  BY <1>4, <1>5, <1>6

(* A step refreshes the cache or leaves it as it is.                         *)
LEMMA StepRefreshes ==
  ASSUME RequestInv, Next
  PROVE  Refresh \/ (RecordsKept /\ UNCHANGED cacheVars)
<1>1. UNCHANGED proxies => RecordsKept
  BY DEF RecordsKept
<1>2. CASE \/ \E f \in Files \cup {Missing} : Announce(f)
           \/ DisableRecordVerification \/ EnableRecordVerification \/ Tick \/ ParentCancels
  BY <1>1, <1>2 DEF Announce, DisableRecordVerification, EnableRecordVerification, SetVerify,
                    Tick, ParentCancels, elsewhere
<1>3. ASSUME NEW o \in Owners, RunClaim(o) \/ StopBegin(o) \/ OwnerStep(o) \/ LoopStep(o)
      PROVE  Refresh \/ (RecordsKept /\ UNCHANGED cacheVars)
  <2>1. CASE LoopRefresh(o)
    BY <2>1 DEF LoopRefresh
  <2>2. CASE RunClaim(o) \/ StopBegin(o) \/ OwnerStep(o)
    BY <1>1, <2>2 DEF RunClaim, StopBegin, OwnerStep, RunContext, RunStart, StopCancel, StopPanics,
                      StopWait, StopEnd, elsewhere
  <2>3. CASE LoopSelect(o) \/ LoopPanics(o) \/ LoopTick(o) \/ LoopDone(o)
    BY <1>1, <2>3 DEF LoopSelect, LoopPanics, LoopTick, LoopDone, elsewhere
  <2> QED
    BY <1>3, <2>1, <2>2, <2>3 DEF LoopStep
<1>4. ASSUME NEW r \in Requests, GetStep(r) \/ DialStep(r) PROVE Refresh \/ (RecordsKept /\ UNCHANGED cacheVars)
  <2>1. CASE CheckClosed(r) \/ CheckClosedPanics(r)
    BY <1>1, <2>1 DEF CheckClosed, CheckClosedPanics
  <2>2. CASE GetClient(r)
    BY <2>2, RecordsStay DEF GetClient
  <2>3. CASE DialOk(r) \/ Bind(r)
    <3>1. req[r].todo # <<>>
      BY <2>3, AskedProxy DEF DialOk, Bind, Inside
    <3> QED
      BY <2>3, <3>1, RecordsStay
  <2>4. CASE ParseFails(r) \/ DialFails(r) \/ BindNil(r)
    <3>1. req[r].todo # <<>>
      BY <2>4, ThreeFailures, AskedProxy
    <3> QED
      BY <2>4, <3>1, ThreeFailures, RecordsStay
  <2> QED
    BY <1>4, <2>1, <2>2, <2>3, <2>4 DEF GetStep, DialStep
<1>5. ASSUME NEW r \in Requests, CallStep(r)
      PROVE  Refresh \/ (RecordsKept /\ UNCHANGED cacheVars)
  <2>1. CASE Search(r)
    BY <1>1, <2>1 DEF Search, ReactiveRefresh
  <2>2. CASE SearchByAction(r) \/ Sort(r)
    BY <1>1, <2>2 DEF SearchByAction, Sort
  <2>3. CASE SendLock(r) \/ SendNil(r) \/ Send(r) \/ SendFails(r)
    BY <1>1, <2>3 DEF SendLock, SendNil, Send, SendFails
  <2>4. CASE NotSent(r) \/ Replied(r) \/ GiveUp(r)
    BY <1>1, <2>4 DEF NotSent, Replied, GiveUp
  <2> QED
    BY <1>4, <1>5, <2>1, <2>2, <2>3, <2>4 DEF CallStep, RequestStep, SendStep
<1>6. ASSUME NEW c \in DOMAIN clients, NEW k \in Closers, CloseStep(c, k)
      PROVE  Refresh \/ (RecordsKept /\ UNCHANGED cacheVars)
  <2>1. CASE CloseRefresh(c, k)
    BY <1>1, <2>1 DEF CloseRefresh, ReactiveRefresh
  <2>2. CASE CloseUnlink(c, k)
    <3>1. RecordsKept
      BY <2>2, UnlinkFacts DEF RecordsKept
    <3> QED
      BY <2>2, <3>1 DEF CloseUnlink
  <2>3. CASE CloseConnection(c, k) \/ CloseEnd(c, k)
    BY <1>1, <2>3 DEF CloseConnection, CloseEnd
  <2> QED
    BY <1>6, <2>1, <2>2, <2>3 DEF CloseStep
<1> QED
  BY <1>2, <1>3, <1>5, <1>6 DEF Next, CallStep

(* A refresh makes the indexes of the file it reads.                         *)
LEMMA RefreshMatches ==
  ASSUME RequestInv, MatchInv, Refresh
  PROVE  MatchInv'
<1>1. CASE file = Missing
  <2>1. UNCHANGED <<cacheVars, proxies>>
    BY <1>1 DEF Refresh
  <2> QED
    BY <2>1 DEF MatchInv, cacheVars
<1>2. CASE file # Missing
  <2>1. file \in Files /\ verifyRecords \in BOOLEAN
    BY <1>2 DEF RequestInv, FileTypes
  <2>2. PICK n : n = CHOOSE k \in 1..(Cardinality(Requests) + 1) : \A p \in Held : p[1] # k
    OBVIOUS
  <2>3. n \in 1..(Cardinality(Requests) + 1) /\ \A p \in Held : p[1] # n
    BY <2>2, FreeNumber
  <2>4. n \in Nat
    BY <2>3
  <2>5. PICK f \in Files, v \in BOOLEAN : f = file /\ v = verifyRecords
    BY <2>1
  <2>6. /\ identIndex' = IdentIndex(f, v, n) /\ actionIndex' = ActionIndex(f, v, n)
        /\ proxies' = [p \in Held \cup Indexed(identIndex', actionIndex') |->
                         IF p \in Held THEN proxies[p] ELSE NewProxy(f[p[2]])]
        /\ scanned' = [recs |-> f, verify |-> v]
    BY <1>2, <2>2, <2>5 DEF Refresh
  <2>7. PICK new : new = Indexed(identIndex', actionIndex')
    OBVIOUS
  <2>8. \A p \in new : OfRefresh(f, v, n, p)
    BY <2>4, <2>6, <2>7, NewIndexed
  <2>9. ASSUME NEW p \in new PROVE p \in DOMAIN proxies' /\ proxies'[p].rec = f[p[2]]
    <3>1. p \notin Held
      BY <2>3, <2>8 DEF OfRefresh
    <3>2. p \in DOMAIN proxies' /\ proxies'[p] = NewProxy(f[p[2]])
      BY <2>6, <2>7, <3>1
    <3> QED
      BY <3>2 DEF NewProxy
  <2>10. scanned'.recs = f /\ scanned'.verify = v
    BY <2>6
  <2> QED
    BY <2>4, <2>6, <2>7, <2>9, <2>10 DEF MatchInv
<1> QED
  BY <1>1, <1>2

LEMMA MatchStep == RequestInv /\ MatchInv /\ [Next]_vars => MatchInv'
<1> SUFFICES ASSUME RequestInv, MatchInv, [Next]_vars PROVE MatchInv'
  OBVIOUS
<1>1. CASE Refresh
  BY <1>1, RefreshMatches
<1>2. CASE RecordsKept /\ UNCHANGED cacheVars
  <2>1. PICK n \in Nat :
          /\ identIndex = IdentIndex(scanned.recs, scanned.verify, n)
          /\ actionIndex = ActionIndex(scanned.recs, scanned.verify, n)
          /\ \A p \in Indexed(identIndex, actionIndex) :
               p \in DOMAIN proxies /\ proxies[p].rec = scanned.recs[p[2]]
    BY DEF MatchInv
  <2>2. identIndex' = identIndex /\ actionIndex' = actionIndex /\ scanned' = scanned
    BY <1>2 DEF cacheVars
  <2>3. \A p \in Indexed(identIndex, actionIndex) :
               p \in DOMAIN proxies' /\ proxies'[p].rec = scanned.recs[p[2]]
    BY <1>2, <2>1 DEF RecordsKept
  <2> QED
    BY <2>1, <2>2, <2>3 DEF MatchInv
<1>3. CASE UNCHANGED vars
  BY <1>2, <1>3 DEF vars, RecordsKept
<1> QED
  BY <1>1, <1>2, <1>3, StepRefreshes

LEMMA MatchInit == Init => MatchInv
<1> SUFFICES ASSUME Init PROVE MatchInv
  OBVIOUS
<1>1. scanned.recs = file /\ scanned.verify = TRUE
  BY DEF Init
<1>2. identIndex = IdentIndex(file, TRUE, 1) /\ actionIndex = ActionIndex(file, TRUE, 1) /\ 1 \in Nat
  BY DEF Init
<1>3. ASSUME NEW p \in Indexed(identIndex, actionIndex)
      PROVE  p \in DOMAIN proxies /\ proxies[p].rec = file[p[2]]
  <2>1. p \in DOMAIN proxies /\ proxies[p] = NewProxy(file[p[2]])
    BY DEF Init
  <2> QED
    BY <2>1 DEF NewProxy
<1> QED
  BY <1>1, <1>2, <1>3 DEF MatchInv

LEMMA MatchMeans == RequestInv /\ MatchInv => IndexesMatchFile
<1> SUFFICES ASSUME RequestInv, MatchInv PROVE IndexesMatchFile
  OBVIOUS
<1>1. scanned \in [recs : Files, verify : BOOLEAN]
  BY DEF RequestInv, FileTypes
<1>2. PICK f \in Files, v \in BOOLEAN : f = scanned.recs /\ v = scanned.verify
  BY <1>1
<1>3. PICK n \in Nat :
        /\ identIndex = IdentIndex(f, v, n) /\ actionIndex = ActionIndex(f, v, n)
        /\ \A p \in Indexed(identIndex, actionIndex) :
             p \in DOMAIN proxies /\ proxies[p].rec = f[p[2]]
  BY <1>2 DEF MatchInv
<1>4. f \in Seq(Announcement)
  BY ScanTable
<1>5. PICK scan \in ScanType(f) : scan = Scans[f][v] /\ scan = DoScan(f, v)
  <2>1. Scans[f][v] = DoScan(f, v)
    BY DEF Scans
  <2> QED
    BY <2>1, ScanTable
<1>6. /\ \A i \in Idents : scan.identIndex[i] = ByIdent(f, v, i)
      /\ \A a \in Actions : \A p \in DOMAIN f :
           Cardinality({k \in DOMAIN scan.actionIndex[a] : scan.actionIndex[a][k] = p}) = ByAction(f, v, a, p)
      /\ \A a \in Actions : \A j, k \in DOMAIN scan.actionIndex[a] :
           j < k => scan.actionIndex[a][j] <= scan.actionIndex[a][k]
  <2>1. ExactIndexes(f, v, DoScan(f, v))
    BY <1>4, ScanIsExact
  <2>2. ExactIndexes(f, v, scan)
    BY <1>5, <2>1
  <2> QED
    BY <2>2 DEF ExactIndexes
<1>7. PICK e : e = Expected[f][v]
  OBVIOUS
<1>8. e = [ident  |-> [i \in Idents |-> ByIdent(f, v, i)],
           action |-> [a \in Actions |-> [p \in DOMAIN f |-> ByAction(f, v, a, p)]]]
  BY <1>7 DEF Expected
<1>9. /\ \A i \in Idents : e.ident[i] = ByIdent(f, v, i)
      /\ \A a \in Actions : \A p \in DOMAIN f : e.action[a][p] = ByAction(f, v, a, p)
  BY <1>8
<1>10. ASSUME NEW i \in Idents PROVE identIndex[i][2] = e.ident[i]
  <2>1. PICK p : p = scan.identIndex[i]
    OBVIOUS
  <2>2. identIndex[i] = IF p = 0 THEN NoProxy ELSE <<n, p>>
    BY <1>3, <1>5, <2>1 DEF IdentIndex
  <2>3. identIndex[i][2] = p
    <3>1. CASE p = 0
      BY <2>2, <3>1 DEF NoProxy
    <3>2. CASE p # 0
      BY <2>2, <3>2
    <3> QED
      BY <3>1, <3>2
  <2> QED
    BY <1>6, <1>9, <2>1, <2>3
<1>11. ASSUME NEW a \in Actions
       PROVE  /\ DOMAIN actionIndex[a] = DOMAIN scan.actionIndex[a]
              /\ \A k \in DOMAIN actionIndex[a] : actionIndex[a][k][2] = scan.actionIndex[a][k]
  <2>1. actionIndex[a] = [k \in DOMAIN scan.actionIndex[a] |-> <<n, scan.actionIndex[a][k]>>]
    BY <1>3, <1>5 DEF ActionIndex
  <2> QED
    BY <2>1
<1>12. ASSUME NEW a \in Actions, NEW p \in DOMAIN f
       PROVE  Cardinality({k \in DOMAIN actionIndex[a] : actionIndex[a][k][2] = p}) = e.action[a][p]
  <2>1. {k \in DOMAIN actionIndex[a] : actionIndex[a][k][2] = p}
          = {k \in DOMAIN scan.actionIndex[a] : scan.actionIndex[a][k] = p}
    BY <1>11
  <2> QED
    BY <1>6, <1>9, <2>1
<1>13. ASSUME NEW a \in Actions, NEW j \in DOMAIN actionIndex[a], NEW k \in DOMAIN actionIndex[a], j < k
       PROVE  actionIndex[a][j][2] <= actionIndex[a][k][2]
  BY <1>6, <1>11, <1>13
<1>14. PICK new : new = Indexed(identIndex, actionIndex)
  OBVIOUS
<1>15. \A p \in new : OfRefresh(f, v, n, p)
  BY <1>3, <1>14, NewIndexed
<1>16. \A p, q \in new : p[1] = q[1]
  BY <1>15 DEF OfRefresh
<1>17. \A p \in new : proxies[p].rec = f[p[2]]
  BY <1>3, <1>14
<1> QED
  BY <1>2, <1>7, <1>10, <1>12, <1>13, <1>14, <1>16, <1>17 DEF IndexesMatchFile

(* In every reachable state the indexes are those that the reference         *)
(* definition gives for the file last scanned - who refreshed, how often,    *)
(* and what requests and closing clients did to the proxies meanwhile does   *)
(* not matter - and every proxy in them is of its own announcement and of    *)
(* that one scan (DoScan, storeNoLock, removeNoLock).                        *)
THEOREM IndexesAreExact == Spec => []IndexesMatchFile
<1>1. Spec => []MatchInv
  BY MatchInit, MatchStep, RequestInvariant, PTL DEF Spec
<1> QED
  BY <1>1, MatchMeans, RequestInvariant, PTL

=============================================================================
