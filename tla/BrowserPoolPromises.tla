------------------------- MODULE BrowserPoolPromises -------------------------
(***************************************************************************)
(* What the pool's owners, its callers and its closer may rely on, for     *)
(* every pool: the ceiling on browser processes, the finality of           *)
(* retirement, the promises of BrowserLeases, wakeups that are not lost    *)
(* and a close() that leaves nothing behind.                               *)
(***************************************************************************)
EXTENDS BrowserPoolProofs

-----------------------------------------------------------------------------
(* What a step may make of a slot.                                         *)

\* A slot in service is worn by a step: it may retire, and it never recovers.
Wears(s, t) ==
    /\ t.state # "closing"
    /\ s.state = "retiring" => t.state = "retiring"
    /\ s.reason \in HardReasons => t.reason \in HardReasons
    /\ t.state = "ready" => s.state = "ready" /\ t.reason = s.reason

\* A slot that closes forgets why it retired.
Forgotten(s) == s.state = "closing" /\ s.reason = "none"

\* A step leaves a slot alone, wears it, takes it out of service, goes on closing
\* it, or fills it with the browser of a launch.
Fate(b) ==
    \/ slot'[b] = slot[b] /\ (b \in slots => b \in slots')
    \/ b \in slots \cap slots' /\ Wears(slot[b], slot'[b])
    \/ b \notin slots' /\ Forgotten(slot'[b])
    \/ /\ b \notin slots \cup slots'
       /\ slot'[b].state = slot[b].state
       /\ slot'[b].reason = slot[b].reason
    \/ b \notin slots \cup slots' /\ slot'[b] = NewSlot

\* _mark_retiring_unlocked wears a slot in service.
LEMMA MarkRetiringWears ==
    ASSUME NEW s \in SlotRecord, s.state # "closing", NEW why \in SoftReasons \cup HardReasons
    PROVE  Wears(s, MarkRetiring(s, why)) /\ MarkRetiring(s, why).state = "retiring"
BY DEF Wears, MarkRetiring, SlotRecord, SoftReasons, HardReasons

\* Wear adds up.
LEMMA WearAddsUp ==
    ASSUME NEW s, NEW t, NEW u, Wears(s, t), Wears(t, u) PROVE Wears(s, u)
BY DEF Wears

\* Retirement for wear, which follows an update of the counters of a slot.
LEMMA RecycleWears ==
    ASSUME NEW s \in SlotRecord, s.state # "closing",
           NEW t \in SlotRecord, t.state = s.state, t.reason = s.reason
    PROVE  Wears(s, t) /\ Wears(s, MarkRetiring(t, RecycleReason(t)))
<1>1. Wears(s, t)
  BY DEF Wears
<1>2. Wears(t, MarkRetiring(t, RecycleReason(t)))
  BY MarkRetiringWears, RecycleReasonType
<1> QED BY <1>1, <1>2, WearAddsUp

\* _refresh_recycling_unlocked wears a slot in service; a slot it leaves ready has a
\* live browser that is not due for recycling.
LEMMA RefreshWears ==
    ASSUME NEW s \in SlotRecord, s.state # "closing"
    PROVE  /\ Wears(s, Refresh(s))
           /\ Refresh(s).state = "ready" => s.browser = "connected" /\ ~ShouldRecycle(Refresh(s))
           /\ Refresh(s).reason \notin HardReasons => s.browser = "connected"
<1> DEFINE t == IF s.browser # "connected" THEN MarkRetiring(s, "disconnected") ELSE s
<1>1. t \in SlotRecord
  BY MarkRetiringType DEF HardReasons
<1>2. Wears(s, t)
  BY MarkRetiringWears, RecycleWears DEF HardReasons
<1>3. s.browser # "connected" => t.state = "retiring" /\ t.reason \in HardReasons
  BY DEF MarkRetiring, SlotRecord, HardReasons, SoftReasons
<1>4. Wears(t, MarkRetiring(t, RecycleReason(t)))
      /\ MarkRetiring(t, RecycleReason(t)).state = "retiring"
  BY <1>1, <1>2, MarkRetiringWears, RecycleReasonType DEF Wears
<1>5. Wears(t, t)
  BY <1>2 DEF Wears
<1>6. Refresh(s) = IF t.state = "ready" /\ ShouldRecycle(t)
                   THEN MarkRetiring(t, RecycleReason(t)) ELSE t
  BY DEF Refresh
<1> HIDE DEF t
<1>7. Wears(t, Refresh(s))
  BY <1>4, <1>5, <1>6
<1>8. Wears(s, Refresh(s))
  BY <1>2, <1>7, WearAddsUp
<1>9. Refresh(s).state = "ready" => t.state = "ready" /\ ~ShouldRecycle(Refresh(s))
  BY <1>4, <1>6
<1>10. Refresh(s).reason \notin HardReasons => t.reason \notin HardReasons
  BY <1>7 DEF Wears
<1> QED BY <1>3, <1>8, <1>9, <1>10

\* _reserve_slot_unlocked wears a slot in service, and condemns none.
LEMMA ReserveWears ==
    ASSUME NEW s \in SlotRecord, s.state # "closing"
    PROVE  /\ Wears(s, Reserve(s))
           /\ s.reason \notin HardReasons => Reserve(s).reason \notin HardReasons
<1> DEFINE t == [s EXCEPT !.active = @ + 1, !.uses = IF @ < MaxUses THEN @ + 1 ELSE @]
<1>1. t \in SlotRecord
  <2>1. (IF s.uses < MaxUses THEN s.uses + 1 ELSE s.uses) \in 0 .. MaxUses
    BY SlotBounds DEF SlotRecord
  <2>2. s.active + 1 \in Int
    BY DEF SlotRecord
  <2> QED BY <2>1, <2>2 DEF SlotRecord
<1>2. t.state = s.state /\ t.reason = s.reason
  BY DEF SlotRecord
<1>3. s.reason \notin HardReasons => MarkRetiring(t, RecycleReason(t)).reason \notin HardReasons
  BY <1>1, <1>2, RecycleReasonType DEF MarkRetiring, SlotRecord, SoftReasons, HardReasons
<1>4. Wears(s, t) /\ Wears(s, MarkRetiring(t, RecycleReason(t)))
  BY <1>1, <1>2, RecycleWears
<1> QED BY <1>2, <1>3, <1>4 DEF Reserve

\* _release_slot wears a slot in service.
LEMMA ReleasedWears ==
    ASSUME NEW s \in SlotRecord, s.state # "closing",
           NEW why \in {"none", "error", "disconnected"}
    PROVE  Wears(s, Released(s, why))
<1> DEFINE t == [s EXCEPT !.active = @ - 1]
<1>1. t \in SlotRecord /\ t.state = s.state /\ t.reason = s.reason
  BY DEF SlotRecord
<1>2. Wears(s, t) /\ Wears(s, MarkRetiring(t, RecycleReason(t)))
  BY <1>1, RecycleWears
<1>3. why # "none" => Wears(t, MarkRetiring(t, why))
  BY <1>1, MarkRetiringWears DEF HardReasons
<1>4. why # "none" => Wears(s, MarkRetiring(t, why))
  BY <1>2, <1>3, WearAddsUp
<1> QED BY <1>2, <1>4 DEF Released

\* What the operators of a step make of the slots of a well-owned pool.
LEMMA SlotsWear ==
    ASSUME PoolInvariant
    PROVE  /\ \A b \in Browsers : Forgotten(Closing(slot[b])) /\ Forgotten(DroppedSlot)
           /\ \A b \in slots : \A why \in {"disconnected", "error", "shutdown"} :
                  Wears(slot[b], MarkRetiring(slot[b], why))
           /\ \A b \in Reaped : Forgotten(RefreshedSlot[b])
           /\ \A b \in InService :
                  /\ Wears(slot[b], RefreshedSlot[b])
                  /\ RefreshedSlot[b].state = "ready" =>
                         slot[b].browser = "connected" /\ ~ShouldRecycle(RefreshedSlot[b])
                  /\ RefreshedSlot[b].reason \notin HardReasons => slot[b].browser = "connected"
           /\ \A b \in Browsers \ slots : RefreshedSlot[b] = slot[b]
           /\ Reaped \subseteq slots /\ InService = slots \ Reaped
<1> USE DEF PoolInvariant, TypeOK, BrowserTypes, PoolTypes
<1>1. \A b \in slots : b \in Browsers /\ slot[b] \in SlotRecord /\ slot[b].state # "closing"
  BY DEF Ownership, SingleOwner
<1>2. \A b \in Browsers : Forgotten(Closing(slot[b])) /\ Forgotten(DroppedSlot)
  BY DEF Forgotten, Closing, DroppedSlot, NewSlot, SlotRecord
<1>3. \A b \in slots : \A why \in {"disconnected", "error", "shutdown"} :
          Wears(slot[b], MarkRetiring(slot[b], why))
  BY <1>1, MarkRetiringWears DEF HardReasons
<1>4. Reaped \subseteq slots /\ InService = slots \ Reaped
  BY DEF Reaped, InService
<1>5. \A b \in Reaped : RefreshedSlot[b] = Closing(slot[b])
  BY <1>1, <1>4 DEF RefreshedSlot
<1>6. \A b \in InService : RefreshedSlot[b] = Refresh(slot[b])
  BY <1>1, <1>4 DEF RefreshedSlot
<1>7. \A b \in Browsers \ slots : RefreshedSlot[b] = slot[b]
  BY <1>4 DEF RefreshedSlot
<1>8. \A b \in slots :
          /\ Wears(slot[b], Refresh(slot[b]))
          /\ Refresh(slot[b]).state = "ready" =>
                 slot[b].browser = "connected" /\ ~ShouldRecycle(Refresh(slot[b]))
          /\ Refresh(slot[b]).reason \notin HardReasons => slot[b].browser = "connected"
  BY <1>1, RefreshWears
<1> QED BY <1>1, <1>2, <1>3, <1>4, <1>5, <1>6, <1>7, <1>8

\* The refresh of a critical section decides the fate of every slot.
LEMMA FateRefresh ==
    ASSUME PoolInvariant, NEW due, RefreshOwners(due), slot' = RefreshedSlot
    PROVE  \A b \in Browsers : Fate(b)
BY SlotsWear DEF RefreshOwners, Fate

\* Leasing and returning a context wears slots and closes idle retired ones.
LEMMA FateRequest ==
    ASSUME PoolInvariant, Request PROVE \A b \in Browsers : Fate(b)
<1> USE DEF PoolInvariant, TypeOK, BrowserTypes, PoolTypes
<1>1. ASSUME NEW r \in Requests, NEW b \in Browsers, Serves(b) \/ ServesAsFallback(b),
             Grant(r, b)
      PROVE  \A c \in Browsers : Fate(c)
  <2>1. PICK due \in SUBSET Retryable : RefreshOwners(due)
    BY <1>1 DEF Grant
  <2>2. b \in InService
    BY <1>1 DEF Serves, ServesAsFallback
  <2>3. RefreshedSlot \in [Browsers -> SlotRecord]
    BY RefreshedSlotType
  <2>4. Wears(slot[b], RefreshedSlot[b])
    BY <2>2, SlotsWear
  <2>5. Wears(slot[b], Reserve(RefreshedSlot[b]))
    BY <2>3, <2>4, ReserveWears, WearAddsUp DEF Wears
  <2>6. /\ slot'[b] = Reserve(RefreshedSlot[b])
        /\ \A c \in Browsers \ {b} : slot'[c] = RefreshedSlot[c]
    BY <1>1, <2>3 DEF Grant
  <2>7. slots' = InService
    BY <2>1 DEF RefreshOwners
  <2> QED BY <2>2, <2>5, <2>6, <2>7, SlotsWear DEF Fate
<1>2. ASSUME NEW r \in Requests,
             (\E b \in Browsers : AcquireLaunch(r, b)) \/ AcquireAfterFailure(r) \/ AcquireWait(r)
      PROVE  \A b \in Browsers : Fate(b)
  <2>1. slot' = RefreshedSlot /\ \E due \in SUBSET Retryable : RefreshOwners(due)
    BY <1>2 DEF AcquireLaunch, AcquireAfterFailure, AcquireWait
  <2> QED BY <2>1, FateRefresh
<1>3. ASSUME NEW r \in Requests, ReleaseSlot(r) PROVE \A b \in Browsers : Fate(b)
  <2>1. PICK b \in slots : b = held[r] /\ b \in Browsers
    BY <1>3 DEF ReleaseSlot, LeasesTracked, Holding, LeaseKeepsBrowser
  <2> DEFINE s == Released(slot[b], discard[r])
             last == s.state = "retiring" /\ s.active = 0
  <2>2. /\ slot' = [slot EXCEPT ![b] = IF last THEN Closing(s) ELSE s]
        /\ slots' = IF last THEN slots \ {b} ELSE slots
    BY <1>3, <2>1 DEF ReleaseSlot
  <2>3. s \in SlotRecord /\ Wears(slot[b], s)
    BY <2>1, ReleasedType, ReleasedWears DEF Ownership, SingleOwner, RequestTypes
  <2>4. Forgotten(Closing(s))
    BY <2>3 DEF Forgotten, Closing, SlotRecord
  <2> HIDE DEF s, last
  <2> QED BY <2>1, <2>2, <2>3, <2>4 DEF Fate
<1>4. ASSUME NEW r \in Requests,
             \/ BeginTransient(r)
             \/ BeginPersistent(r)
             \/ AcquireRejected(r)
             \/ AcquireTimeout(r)
             \/ OpenContext(r)
             \/ \E why \in {"none", "error", "disconnected"} : StartFinalizer(r, why)
             \/ ReleasePersistent(r)
             \/ AccountingTaskDone(r)
             \/ NotifyPoolWaiters(r)
      PROVE  \A b \in Browsers : Fate(b)
  <2>1. slot' = slot /\ slots' = slots
    BY <1>4 DEF BeginTransient, BeginPersistent, AcquireRejected, AcquireTimeout, OpenContext,
         StartFinalizer, ReleasePersistent, AccountingTaskDone, NotifyPoolWaiters, browserVars,
         ownerVars
  <2> QED BY <2>1 DEF Fate
<1> QED BY <1>1, <1>2, <1>3, <1>4
        DEF Request, Acquire, Account, AcquireHealthy, AcquireSoftRetiring

\* The world, launches and startups wear slots, fill them and close them.
LEMMA FateLaunches ==
    ASSUME PoolInvariant, World \/ Launch \/ Startup PROVE \A b \in Browsers : Fate(b)
<1> USE DEF Fate, PoolInvariant, Ownership, SingleOwner, TypeOK, BrowserTypes, PoolTypes,
            browserVars, ownerVars
<1>1. ASSUME NEW b \in Browsers, FactoryReturns(b) PROVE \A c \in Browsers : Fate(c)
  BY <1>1 DEF FactoryReturns, LaunchesTracked
<1>2. ASSUME NEW b \in Browsers, FactoryRaises(b) PROVE \A c \in Browsers : Fate(c)
  BY <1>2 DEF FactoryRaises
<1>3. ASSUME NEW b \in Browsers, BrowserDisconnects(b) \/ BrowserAges(b)
      PROVE  \A c \in Browsers : Fate(c)
  <2>1. b \in slots /\ slots' = slots /\ \A c \in Browsers \ {b} : slot'[c] = slot[c]
    BY <1>3 DEF BrowserDisconnects, BrowserAges
  <2>2. slot'[b].state = slot[b].state /\ slot'[b].reason = slot[b].reason
    BY <1>3 DEF BrowserDisconnects, BrowserAges, SlotRecord
  <2> QED BY <2>1, <2>2 DEF Wears
<1>4. ASSUME NEW b \in Browsers, LaunchTimesOut(b) \/ LaunchFails(b)
      PROVE  \A c \in Browsers : Fate(c)
  BY <1>4 DEF LaunchTimesOut, LaunchFails
<1>5. ASSUME NEW b \in Browsers, LaunchSucceeds(b) PROVE \A c \in Browsers : Fate(c)
  <2>1. b \notin slots
    BY <1>5 DEF LaunchSucceeds, Supervised
  <2> QED BY <1>5, <2>1, SlotsWear DEF LaunchSucceeds
<1>6. ASSUME NEW b \in Browsers, AbandonedLaunchEnds(b) PROVE \A c \in Browsers : Fate(c)
  BY <1>6, SlotsWear DEF AbandonedLaunchEnds
<1>7. ASSUME NEW new \in SUBSET Browsers, StartBegins(new) PROVE \A c \in Browsers : Fate(c)
  BY <1>7 DEF StartBegins
<1>8. CASE \/ StartCallersCancel
           \/ StartupUnwinds
           \/ StartupSucceeds
           \/ StartupFinishes
           \/ StartupCancelledInHandoff
           \/ StartupCancelledInRecovery
           \/ StartupCancelledLaunching
  BY <1>8 DEF StartCallersCancel, StartupUnwinds, StartupSucceeds, StartupFinishes,
       StartupCancelledInHandoff, StartupCancelledInRecovery, StartupCancelledLaunching
<1>9. CASE StartupFails
  BY <1>9, SlotsWear DEF StartupFails, StartupTracked
<1>10. CASE RegisterStartedSlots
  BY <1>10, SlotsWear DEF RegisterStartedSlots, StartupTracked
<1>11. CASE RecoverCancelledStart
  <2>1. \A b \in Browsers \ slots : slot[b].active = 0
    BY OutOfService DEF LeasesTracked, Accounting
  <2> QED BY <1>11, <2>1, SlotsWear DEF RecoverCancelledStart, StartTypes
<1> QED BY <1>1, <1>2, <1>3, <1>4, <1>5, <1>6, <1>7, <1>8, <1>9, <1>10, <1>11
        DEF World, Launch, Startup, StartupStep

\* Maintenance, closes and the shutdown close slots and retire them.
LEMMA FateUpkeep ==
    ASSUME PoolInvariant, Upkeep \/ Shutdown \/ UNCHANGED vars
    PROVE  \A b \in Browsers : Fate(b)
<1> USE DEF PoolInvariant, Ownership, SingleOwner, TypeOK, BrowserTypes, PoolTypes,
            browserVars, ownerVars
<1>1. ASSUME NEW due \in SUBSET Browsers,
             RefreshPool(due) \/ \E new \in SUBSET Browsers : Maintain(due, new)
      PROVE  \A b \in Browsers : Fate(b)
  BY <1>1, FateRefresh DEF RefreshPool, Maintain
<1> USE DEF Fate
<1>2. ASSUME NEW b \in Browsers, NEW new \in SUBSET Browsers, CloseSlotSucceeds(b, new)
      PROVE  \A c \in Browsers : Fate(c)
  BY <1>2, SlotsWear DEF CloseSlotSucceeds
<1>3. ASSUME NEW b \in Browsers, NEW new \in SUBSET Browsers, CloseSlotFails(b, new)
      PROVE  \A c \in Browsers : Fate(c)
  <2>1. b \notin slots \cup slots' /\ \A c \in Browsers \ {b} : slot'[c] = slot[c]
    BY <1>3 DEF CloseSlotFails
  <2>2. slot'[b].state = slot[b].state /\ slot'[b].reason = slot[b].reason
    BY <1>3 DEF CloseSlotFails, SlotRecord
  <2> QED BY <1>3, <2>1, <2>2 DEF CloseSlotFails
<1>4. ASSUME NEW b \in Browsers, PhysicalCloseFinishes(b) PROVE \A c \in Browsers : Fate(c)
  <2>1. b \notin slots \cup slots' /\ \A c \in Browsers \ {b} : slot'[c] = slot[c]
    BY <1>4 DEF PhysicalCloseFinishes
  <2>2. slot'[b].state = slot[b].state /\ slot'[b].reason = slot[b].reason
    BY <1>4 DEF PhysicalCloseFinishes, SlotRecord
  <2> QED BY <1>4, <2>1, <2>2 DEF PhysicalCloseFinishes
<1>5. ASSUME NEW b \in Browsers, ReconcileLatePhysicalClose(b)
      PROVE  \A c \in Browsers : Fate(c)
  BY <1>5, SlotsWear DEF ReconcileLatePhysicalClose
<1>6. CASE Quiesce \/ CloseBegins
  <2>1. PICK retried : ShutDownSlots(retried)
    BY <1>6 DEF Quiesce, CloseBegins
  <2> QED BY <2>1, SlotsWear DEF ShutDownSlots, Idle
<1>7. CASE CloserStep \/ CloseCancelled \/ UNCHANGED vars
  BY <1>7 DEF CloserStep, CloseSeesStartupEnd, CloseChecksDrain, CloseGathers, CloseCancelled,
       vars
<1> QED BY <1>1, <1>2, <1>3, <1>4, <1>5, <1>6, <1>7 DEF Upkeep, CloseSlot, Shutdown

\* Every step of the pool decides the fate of a slot in one of those ways.
LEMMA FateNext == ASSUME PoolInvariant, [Next]_vars PROVE \A b \in Browsers : Fate(b)
BY FateRequest, FateLaunches, FateUpkeep DEF Next

-----------------------------------------------------------------------------
(* Retirement is final.                                                    *)

\* No step brings a retired browser back, or reprieves a condemned one.
LEMMA RetirementStep ==
    ASSUME PoolInvariant, [Next]_vars
    PROVE  \A b \in slots \cap slots' :
               /\ slot[b].state = "retiring" => slot'[b].state = "retiring"
               /\ slot[b].reason \in HardReasons => slot'[b].reason \in HardReasons
<1>1. \A b \in slots : b \in Browsers
  BY DEF PoolInvariant, TypeOK, PoolTypes
<1> QED BY <1>1, FateNext DEF Fate, Wears

\* A retired browser never returns to service, and one condemned by a crash, an error
\* or a shutdown stays condemned (_mark_retiring_unlocked, pool.py:1165).
THEOREM RetirementHolds == Spec => RetirementIsFinal
<1>1. PoolInvariant /\ [Next]_vars =>
          [\A b \in slots \cap slots' :
             /\ slot[b].state = "retiring" => slot'[b].state = "retiring"
             /\ slot[b].reason \in HardReasons => slot'[b].reason \in HardReasons]_vars
  BY RetirementStep
<1> QED BY <1>1, PoolInvariantHolds, PTL DEF Spec, RetirementIsFinal

-----------------------------------------------------------------------------
(* Contexts are leased on live browsers nothing has condemned.             *)

\* A reason belongs to a slot in service that has retired.
ReasonsTracked ==
    /\ \A b \in Browsers : slot[b].state = "ready" => slot[b].reason = "none"
    /\ \A b \in Browsers \ slots : slot[b].reason = "none"

\* A slot is given its reason when it retires and loses it when it closes.
LEMMA ReasonsNext == PoolInvariant /\ ReasonsTracked /\ [Next]_vars => ReasonsTracked'
<1> SUFFICES ASSUME PoolInvariant, ReasonsTracked, [Next]_vars PROVE ReasonsTracked'
  OBVIOUS
<1>1. \A b \in Browsers : Fate(b)
  BY FateNext
<1>2. NewSlot.reason = "none"
  BY DEF NewSlot
<1>3. ASSUME NEW b \in Browsers
      PROVE  /\ slot'[b].state = "ready" => slot'[b].reason = "none"
             /\ b \notin slots' => slot'[b].reason = "none"
  BY <1>1, <1>2 DEF Fate, Wears, Forgotten, ReasonsTracked
<1> QED BY <1>3 DEF ReasonsTracked

\* The reasons are tracked in every reachable state.
LEMMA ReasonsHold == Spec => []ReasonsTracked
<1>1. Init => ReasonsTracked
  <2>1. DroppedSlot.state = "closing" /\ DroppedSlot.reason = "none"
    BY DEF DroppedSlot, NewSlot
  <2> QED BY <2>1 DEF Init, ReasonsTracked
<1> QED BY <1>1, ReasonsNext, PoolInvariantHolds, PTL DEF Spec

\* A browser that serves a request is live, uncondemned, and stays so in the lease.
LEMMA ServedBrowsers ==
    ASSUME PoolInvariant, ReasonsTracked, NEW b \in Browsers, Serves(b) \/ ServesAsFallback(b)
    PROVE  /\ b \in slots /\ b \in InService
           /\ slot[b].browser = "connected"
           /\ slot[b].reason \notin HardReasons
           /\ RefreshedSlot[b].reason \notin HardReasons
           /\ slot[b].active < MaxContexts
<1> USE DEF PoolInvariant, TypeOK, PoolTypes
<1>1. b \in InService /\ b \in slots
  BY SlotsWear DEF Serves, ServesAsFallback
<1>2. /\ Wears(slot[b], RefreshedSlot[b])
      /\ RefreshedSlot[b].state = "ready" => slot[b].browser = "connected"
      /\ RefreshedSlot[b].reason \notin HardReasons => slot[b].browser = "connected"
  BY <1>1, SlotsWear
<1>3. RefreshedSlot[b].active < MaxContexts
  BY DEF Serves, ServesAsFallback, HealthyAvailable, SoftRetiringAvailable
<1>4. slot[b].active < MaxContexts
  BY <1>3, RefreshedSlotKeeps
<1>5. CASE Serves(b)
  <2>1. RefreshedSlot[b].state = "ready"
    BY <1>5 DEF Serves, HealthyAvailable
  <2>2. slot[b].state = "ready" /\ RefreshedSlot[b].reason = slot[b].reason
    BY <1>2, <2>1 DEF Wears
  <2>3. slot[b].reason = "none"
    BY <2>2 DEF ReasonsTracked
  <2> QED BY <1>1, <1>2, <1>4, <2>1, <2>2, <2>3 DEF HardReasons
<1>6. CASE ServesAsFallback(b)
  <2>1. RefreshedSlot[b].reason \in SoftReasons
    BY <1>6 DEF ServesAsFallback, SoftRetiringAvailable
  <2>2. RefreshedSlot[b].reason \notin HardReasons
    BY <2>1 DEF SoftReasons, HardReasons
  <2> QED BY <1>1, <1>2, <1>4, <2>2 DEF Wears
<1> QED BY <1>5, <1>6

\* The steps of a pool, seen from its reservations: a lease, a return, or neither.
LEMMA LeaseSteps ==
    ASSUME PoolInvariant, [Next]_vars
    PROVE  \/ held' = held
           \/ /\ ~closed
              /\ \E r \in Requests, b \in Browsers :
                    Acquiring(r) /\ (Serves(b) \/ ServesAsFallback(b)) /\ Grant(r, b)
           \/ \E r \in Requests : ReleaseSlot(r)
<1>1. CASE World \/ Launch \/ Startup \/ Upkeep \/ Shutdown \/ UNCHANGED vars
  BY <1>1, RequestsUntouched
<1>2. ASSUME NEW r \in Requests,
             \/ BeginTransient(r)
             \/ BeginPersistent(r)
             \/ \E b \in Browsers : AcquireLaunch(r, b)
             \/ AcquireRejected(r)
             \/ AcquireAfterFailure(r)
             \/ AcquireWait(r)
             \/ AcquireTimeout(r)
             \/ OpenContext(r)
             \/ \E why \in {"none", "error", "disconnected"} : StartFinalizer(r, why)
             \/ ReleasePersistent(r)
             \/ AccountingTaskDone(r)
             \/ NotifyPoolWaiters(r)
      PROVE  held' = held
  BY <1>2 DEF BeginTransient, BeginPersistent, AcquireLaunch, AcquireRejected,
       AcquireAfterFailure, AcquireWait, AcquireTimeout, AcquireRaises, OpenContext,
       StartFinalizer, ReleasePersistent, AccountingTaskDone, NotifyPoolWaiters
<1>3. ASSUME NEW r \in Requests, NEW b \in Browsers,
             AcquireHealthy(r, b) \/ AcquireSoftRetiring(r, b)
      PROVE  ~closed /\ Acquiring(r) /\ (Serves(b) \/ ServesAsFallback(b)) /\ Grant(r, b)
  BY <1>3 DEF AcquireHealthy, AcquireSoftRetiring
<1> QED BY <1>1, <1>2, <1>3 DEF Next, Request, Acquire, Account

\* A context is leased on a live browser that no failure has condemned, and never once
\* the pool is closed: _acquire_slot refreshes before it chooses.
THEOREM LeasesAreServedAlways == Spec => LeasesAreServed
<1>1. ASSUME PoolInvariant, ReasonsTracked, [Next]_vars,
             NEW r \in Requests, held[r] = NoBrowser, held'[r] # NoBrowser
      PROVE  /\ ~closed
             /\ slot[held'[r]].browser = "connected"
             /\ slot[held'[r]].reason \notin HardReasons
  <2> USE DEF PoolInvariant, TypeOK, RequestTypes
  <2>1. ASSUME NEW q \in Requests, NEW b \in Browsers, Grant(q, b) PROVE held'[r] = b
    BY <1>1, <2>1 DEF Grant
  <2>2. ASSUME NEW q \in Requests, ReleaseSlot(q) PROVE FALSE
    BY <1>1, <2>2 DEF ReleaseSlot
  <2> QED BY <1>1, <2>1, <2>2, LeaseSteps, ServedBrowsers
<1>2. PoolInvariant /\ ReasonsTracked /\ [Next]_vars =>
          [\A r \in Requests : held[r] = NoBrowser /\ held'[r] # NoBrowser =>
             /\ ~closed
             /\ slot[held'[r]].browser = "connected"
             /\ slot[held'[r]].reason \notin HardReasons]_vars
  BY <1>1
<1> QED BY <1>2, PoolInvariantHolds, ReasonsHold, PTL DEF Spec, LeasesAreServed

-----------------------------------------------------------------------------
(* The pool implements BrowserLeases.                                      *)

\* The values of the refinement mapping.
Serving == {b \in slots : slot[b].reason \notin HardReasons}
Condemned == {b \in slots : slot[b].reason \in HardReasons}

\* The browsers a step condemns, and those it takes out of service.
Spoiled == Serving \cap Condemned'
Leaving == slots \ slots'

\* In a step that brings no browser into service, the pool withdraws browsers.
LEMMA Withdrawal ==
    ASSUME PoolInvariant, [Next]_vars, slots' \subseteq slots,
           NEW bad, NEW gone, bad = Spoiled, gone = Leaving
    PROVE  Leases!Withdraw(bad, gone)
<1>1. \A b \in slots \cap slots' : b \in Condemned => b \in Condemned'
  BY RetirementStep DEF Condemned
<1>2. slots = Serving \cup Condemned /\ Serving \cap Condemned = {}
  BY DEF Serving, Condemned
<1>3. slots' = Serving' \cup Condemned' /\ Serving' \cap Condemned' = {}
  BY DEF Serving, Condemned
<1>4. PoolInvariant'
  BY PoolInvariantNext
<1>5. \A r \in Requests : held'[r] \notin Leaving
  BY <1>4, PoolAssumption
     DEF PoolInvariant, LeasesTracked, LeaseKeepsBrowser, TypeOK, PoolTypes, PoolAssumption, Leaving
<1>6. Spoiled \subseteq Serving /\ Leaving \subseteq Serving \cup Condemned
  BY <1>2 DEF Spoiled, Leaving
<1>7. Serving' = Serving \ (Spoiled \cup Leaving)
  BY <1>1, <1>2, <1>3 DEF Spoiled, Leaving
<1>8. Condemned' = (Condemned \cup Spoiled) \ Leaving
  BY <1>1, <1>2, <1>3 DEF Spoiled, Leaving
<1> QED BY <1>2, <1>5, <1>6, <1>7, <1>8 DEF Leases!Withdraw, Serving, Condemned

\* A launch or a startup that brings browsers into service brings uncondemned ones,
\* into an open pool.
LEMMA Admission ==
    ASSUME PoolInvariant, ReasonsTracked, NEW new \in SUBSET Browsers, new \cap slots = {},
           ~closed, slots' = slots \cup new, UNCHANGED <<slot, held, closed>>
    PROVE  Leases!Admit(new)
<1>1. \A b \in new : slot[b].reason \notin HardReasons
  BY DEF ReasonsTracked, HardReasons
<1>2. {b \in slots' : slot'[b].reason \notin HardReasons}
          = {b \in slots : slot[b].reason \notin HardReasons} \cup new
  BY <1>1
<1>3. {b \in slots' : slot'[b].reason \in HardReasons}
          = {b \in slots : slot[b].reason \in HardReasons}
  BY <1>1
<1> QED BY <1>2, <1>3 DEF Leases!Admit

\* Who brings browsers into service, and who closes the pool.
LEMMA ServiceSteps ==
    ASSUME PoolInvariant, [Next]_vars
    PROVE  \/ slots' \subseteq slots /\ closed' = closed
           \/ /\ ~closed
              /\ \E new \in SUBSET Browsers : new \cap slots = {} /\ slots' = slots \cup new
              /\ UNCHANGED <<slot, held, closed>>
           \/ UNCHANGED held /\ \E retried : ShutDownSlots(retried)
<1> USE DEF PoolInvariant, TypeOK, PoolTypes, StartTypes, ownerVars, requestVars, closeVars
<1>1. CASE World
  BY <1>1 DEF World, FactoryReturns, FactoryRaises, BrowserDisconnects, BrowserAges
<1>2. CASE Request
  <2>1. ASSUME NEW r \in Requests,
               \/ BeginTransient(r)
               \/ BeginPersistent(r)
               \/ AcquireRejected(r)
               \/ AcquireTimeout(r)
               \/ OpenContext(r)
               \/ \E why \in {"none", "error", "disconnected"} : StartFinalizer(r, why)
               \/ ReleasePersistent(r)
               \/ AccountingTaskDone(r)
               \/ NotifyPoolWaiters(r)
        PROVE  slots' = slots /\ closed' = closed
    BY <2>1 DEF BeginTransient, BeginPersistent, AcquireRejected, AcquireTimeout, OpenContext,
         StartFinalizer, ReleasePersistent, AccountingTaskDone, NotifyPoolWaiters
  <2>2. ASSUME NEW r \in Requests,
               \/ \E b \in Browsers : \/ Grant(r, b)
                                      \/ AcquireLaunch(r, b)
               \/ AcquireAfterFailure(r)
               \/ AcquireWait(r)
        PROVE  slots' \subseteq slots /\ closed' = closed
    BY <2>2 DEF Grant, AcquireLaunch, AcquireAfterFailure, AcquireWait, RefreshOwners, InService
  <2>3. ASSUME NEW r \in Requests, ReleaseSlot(r) PROVE slots' \subseteq slots /\ closed' = closed
    BY <2>3 DEF ReleaseSlot
  <2> QED BY <1>2, <2>1, <2>2, <2>3 DEF Request, Acquire, Account, AcquireHealthy,
             AcquireSoftRetiring
<1>3. CASE Launch
  <2>1. ASSUME NEW b \in Browsers, LaunchTimesOut(b) \/ LaunchFails(b) \/ AbandonedLaunchEnds(b)
        PROVE  slots' \subseteq slots /\ closed' = closed
    BY <2>1 DEF LaunchTimesOut, LaunchFails, AbandonedLaunchEnds
  <2>2. ASSUME NEW b \in Browsers, LaunchSucceeds(b), closed
        PROVE  slots' \subseteq slots /\ closed' = closed
    BY <2>2 DEF LaunchSucceeds
  <2>3. ASSUME NEW b \in Browsers, LaunchSucceeds(b), ~closed
        PROVE  {b} \cap slots = {} /\ slots' = slots \cup {b} /\ UNCHANGED <<slot, held, closed>>
    BY <2>3 DEF LaunchSucceeds, Supervised, Ownership, SingleOwner
  <2>4. ASSUME NEW b \in Browsers, LaunchSucceeds(b), ~closed
        PROVE  \E new \in SUBSET Browsers : new \cap slots = {} /\ slots' = slots \cup new
    <3>1. {b} \in SUBSET Browsers
      OBVIOUS
    <3> QED BY <2>3, <2>4, <3>1
  <2>5. PICK b \in Browsers : \/ LaunchTimesOut(b) \/ LaunchFails(b)
                             \/ LaunchSucceeds(b) \/ AbandonedLaunchEnds(b)
    BY <1>3 DEF Launch
  <2> QED BY <2>1, <2>2, <2>3, <2>4, <2>5
<1>4. CASE Startup
  <2>1. ASSUME NEW new \in SUBSET Browsers, StartBegins(new)
        PROVE  slots' \subseteq slots /\ closed' = closed
    BY <2>1 DEF StartBegins
  <2>2. CASE \/ StartCallersCancel
             \/ StartupUnwinds
             \/ StartupSucceeds
             \/ StartupFinishes
             \/ StartupCancelledInHandoff
             \/ StartupCancelledInRecovery
             \/ StartupCancelledLaunching
             \/ StartupFails
             \/ RecoverCancelledStart
    BY <2>2 DEF StartCallersCancel, StartupUnwinds, StartupSucceeds, StartupFinishes,
         StartupCancelledInHandoff, StartupCancelledInRecovery, StartupCancelledLaunching,
         StartupFails, RecoverCancelledStart
  <2>3. CASE RegisterStartedSlots /\ (closed \/ recovery)
    BY <2>3 DEF RegisterStartedSlots
  <2>4. CASE RegisterStartedSlots /\ ~(closed \/ recovery)
    <3>1. startup_tasks \in SUBSET Browsers /\ startup_tasks \cap slots = {}
      BY <2>4 DEF RegisterStartedSlots, Ownership, StartupTracked
    <3>2. slots' = slots \cup startup_tasks /\ UNCHANGED <<slot, held, closed>>
      BY <2>4 DEF RegisterStartedSlots
    <3> QED BY <2>4, <3>1, <3>2
  <2> QED BY <1>4, <2>1, <2>2, <2>3, <2>4 DEF Startup, StartupStep
<1>5. CASE Upkeep
  BY <1>5 DEF Upkeep, CloseSlot, RefreshPool, Maintain, CloseSlotSucceeds, CloseSlotFails,
       PhysicalCloseFinishes, ReconcileLatePhysicalClose, RefreshOwners, InService
<1>6. CASE Shutdown
  BY <1>6 DEF Shutdown, Quiesce, CloseBegins, CloserStep, CloseSeesStartupEnd,
       CloseChecksDrain, CloseGathers, CloseCancelled
<1>7. CASE UNCHANGED vars
  BY <1>7 DEF vars
<1> QED BY <1>1, <1>2, <1>3, <1>4, <1>5, <1>6, <1>7 DEF Next

\* BrowserLeases counts as the pool does.
LEMMA SameCardinality == \A S : Leases!Cardinality(S) = Cardinality(S)
BY DEF Leases!Cardinality, Cardinality, Leases!IsFiniteSet, IsFiniteSet

\* A grant is a Lease: the browser has room, and the refresh did not spoil it.
LEMMA GrantIsLease ==
    ASSUME PoolInvariant, ReasonsTracked, [Next]_vars, slots' \subseteq slots, ~closed,
           closed' = closed, NEW r \in Requests, NEW b \in Browsers, Acquiring(r),
           Serves(b) \/ ServesAsFallback(b), Grant(r, b),
           NEW bad, NEW gone, bad = Spoiled, gone = Leaving
    PROVE  Leases!Lease(r, b, bad, gone)
<1> USE DEF PoolInvariant, LeasesTracked, TypeOK, RequestTypes, BrowserTypes, PoolTypes
<1>1. held[r] = NoBrowser
  BY DEF Holding, Acquiring
<1>2. b \in slots /\ b \in InService /\ slot[b].reason \notin HardReasons
  BY ServedBrowsers
<1>3. slots' = InService
  BY DEF Grant, RefreshOwners
<1>4. slot'[b].reason \notin HardReasons
  <2>1. RefreshedSlot \in [Browsers -> SlotRecord]
    BY RefreshedSlotType
  <2>2. RefreshedSlot[b].state # "closing" /\ RefreshedSlot[b].reason \notin HardReasons
    BY <1>2, SlotsWear, ServedBrowsers DEF Wears
  <2>3. Reserve(RefreshedSlot[b]).reason \notin HardReasons
    BY <2>1, <2>2, ReserveWears
  <2> QED BY <2>1, <2>3 DEF Grant
<1>5. b \in Serving \ (bad \cup gone)
  BY <1>2, <1>3, <1>4 DEF Serving, Spoiled, Leaving, Condemned
<1>6. Leases!Cardinality({q \in Requests : held[q] = b}) < MaxContexts
  BY ServedBrowsers, SameCardinality DEF Accounting, SlotAccounting, Holders
<1>7. held' = [held EXCEPT ![r] = b]
  BY DEF Grant
<1> QED BY <1>1, <1>5, <1>6, <1>7, Withdrawal DEF Leases!Lease, Serving

\* A shutdown condemns every browser it leaves in service.
LEMMA ShutDownIsShut ==
    ASSUME PoolInvariant, [Next]_vars, UNCHANGED held, NEW retried, ShutDownSlots(retried),
           NEW gone, gone = Leaving
    PROVE  Leases!Shut(gone)
<1>1. slots' = slots \ Idle /\ closed' = TRUE
  BY DEF ShutDownSlots
<1>2. ASSUME NEW b \in slots' PROVE slot'[b].reason \in HardReasons
  <2>1. slot'[b] = MarkRetiring(slot[b], "shutdown") /\ slot[b] \in SlotRecord
        /\ slot[b].state # "closing"
    BY <1>1, <1>2 DEF ShutDownSlots, PoolInvariant, TypeOK, PoolTypes, BrowserTypes, Ownership,
         SingleOwner
  <2> QED BY <2>1 DEF MarkRetiring, SlotRecord, SoftReasons, HardReasons
<1>3. Condemned' = slots'
  BY <1>2 DEF Condemned
<1>4. PICK bad : bad = Serving \ gone
  OBVIOUS
<1>5. bad = Spoiled
  BY <1>3, <1>4 DEF Spoiled, Leaving, Serving
<1>6. Leases!Withdraw(bad, gone)
  BY <1>1, <1>5, Withdrawal
<1> QED BY <1>1, <1>4, <1>6 DEF Leases!Shut, Leases!Withdraw, Serving

\* Every step of the pool is a step of BrowserLeases, or leaves its variables alone.
LEMMA LeaseRefinementStep ==
    ASSUME PoolInvariant, ReasonsTracked, [Next]_vars PROVE Leases!Next
<1>1. PICK bad \in SUBSET Browsers, gone \in SUBSET Browsers : bad = Spoiled /\ gone = Leaving
  BY DEF Spoiled, Leaving, Serving, PoolInvariant, TypeOK, PoolTypes
<1>2. CASE slots' \subseteq slots /\ closed' = closed
  <2>1. Leases!Withdraw(bad, gone)
    BY <1>1, <1>2, Withdrawal
  <2>2. CASE held' = held
    <3>1. Leases!Retire(bad, gone)
      BY <1>2, <2>1, <2>2 DEF Leases!Retire
    <3> QED BY <3>1 DEF Leases!Next
  <2>3. ASSUME NEW r \in Requests, ReleaseSlot(r) PROVE Leases!Next
    <3>1. held[r] # NoBrowser /\ held' = [held EXCEPT ![r] = NoBrowser]
      BY <2>3 DEF ReleaseSlot, PoolInvariant, LeasesTracked, Holding
    <3>2. Leases!Return(r, bad, gone)
      BY <1>2, <2>1, <3>1 DEF Leases!Return
    <3> QED BY <3>2 DEF Leases!Next
  <2>4. ASSUME NEW r \in Requests, NEW b \in Browsers, ~closed, Acquiring(r),
               Serves(b) \/ ServesAsFallback(b), Grant(r, b)
        PROVE  Leases!Next
    <3>1. Leases!Lease(r, b, bad, gone)
      BY <1>1, <1>2, <2>4, GrantIsLease
    <3> QED BY <3>1 DEF Leases!Next
  <2> QED BY <2>2, <2>3, <2>4, LeaseSteps
<1>3. CASE /\ ~closed
           /\ \E new \in SUBSET Browsers : new \cap slots = {} /\ slots' = slots \cup new
           /\ UNCHANGED <<slot, held, closed>>
  BY <1>3, Admission DEF Leases!Next
<1>4. CASE UNCHANGED held /\ \E retried : ShutDownSlots(retried)
  <2>1. Leases!Shut(gone)
    BY <1>1, <1>4, ShutDownIsShut
  <2> QED BY <2>1 DEF Leases!Next
<1> QED BY <1>2, <1>3, <1>4, ServiceSteps

\* The pool with all its tasks implements BrowserLeases: whoever only sees leases sees
\* browsers that are admitted, leased, returned, condemned and withdrawn as it says.
THEOREM PoolImplementsLeases == Spec => ImplementsLeases
<1>1. Init => Leases!Init
  BY DEF Init, Leases!Init
<1>2. PoolInvariant /\ ReasonsTracked /\ [Next]_vars => [Leases!Next]_(Leases!leaseVars)
  BY LeaseRefinementStep
<1> QED BY <1>1, <1>2, PoolInvariantHolds, ReasonsHold, PTL DEF Spec, ImplementsLeases, Leases!Spec

-----------------------------------------------------------------------------
(* A slot that is not closing belongs to a launch or is in service.        *)

\* A slot is live from the return of its factory to its close, and all that time it
\* belongs to a launch or is in service.
LiveBrowsers ==
    /\ \A b \in Browsers : slot[b].state # "closing" =>
          b \in slots \cup create_tasks \cup create_watchers
    /\ \A b \in Browsers : factory[b] \in {"running", "raised"} => slot[b].state = "closing"

\* Launches take identifiers nothing refers to, whose slots are not live.
LEMMA LaunchesStartDead ==
    ASSUME PoolInvariant, LiveBrowsers, NEW new \in SUBSET Unused, StartCreateTasks(new)
    PROVE  /\ create_tasks \subseteq create_tasks'
           /\ \A b \in new : slot[b].state = "closing"
           /\ \A b \in Browsers \ new : factory'[b] = factory[b]
BY DEF PoolInvariant, TypeOK, BrowserTypes, LiveBrowsers, StartCreateTasks, Unused, Owned

\* A refresh closes the slots it takes out of service.
LEMMA LiveRefresh ==
    ASSUME PoolInvariant, LiveBrowsers, NEW due, RefreshOwners(due),
           \A b \in Browsers \ slots : slot'[b] = slot[b],
           \A b \in Reaped : slot'[b].state = "closing",
           NEW new \in SUBSET Unused, StartCreateTasks(new), UNCHANGED create_watchers
    PROVE  LiveBrowsers'
<1>1. \A b \in Browsers : b \in slots \ Reaped => b \in slots'
  BY DEF RefreshOwners, InService
<1>2. \A b \in slots : factory[b] \notin {"running", "raised"}
  BY DEF PoolInvariant, TypeOK, PoolTypes, Ownership, SingleOwner, LiveBrowsers
<1>3. \A b \in new : b \notin slots
  BY DEF Unused, Owned
<1> QED BY <1>1, <1>2, <1>3, LaunchesStartDead DEF LiveBrowsers

\* Requests close slots only when the last context of a retired one is released.
LEMMA LiveRequest == PoolInvariant /\ LiveBrowsers /\ Request => LiveBrowsers'
<1> SUFFICES ASSUME PoolInvariant, LiveBrowsers, Request PROVE LiveBrowsers'
  OBVIOUS
<1> USE DEF PoolInvariant, TypeOK, BrowserTypes, PoolTypes
<1>1. UNCHANGED <<factory, create_tasks>> => StartCreateTasks({})
  BY DEF StartCreateTasks
<1>2. \A due \in SUBSET Retryable : RefreshOwners(due) => slots' = InService
  BY DEF RefreshOwners
<1>3. ASSUME NEW r \in Requests, NEW b \in Browsers, Serves(b) \/ ServesAsFallback(b),
             Grant(r, b)
      PROVE  LiveBrowsers'
  <2>1. b \in slots /\ b \notin Reaped
    BY <1>3, SlotsWear DEF Serves, ServesAsFallback
  <2>2. /\ \A c \in Browsers \ {b} : slot'[c] = RefreshedSlot[c]
        /\ StartCreateTasks({}) /\ UNCHANGED create_watchers
        /\ \E due \in SUBSET Retryable : RefreshOwners(due)
    BY <1>1, <1>3, RefreshedSlotType DEF Grant
  <2> QED BY <2>1, <2>2, SlotsWear, LiveRefresh DEF Forgotten
<1>4. ASSUME NEW r \in Requests, NEW b \in Browsers, AcquireLaunch(r, b) PROVE LiveBrowsers'
  <2>1. /\ {b} \in SUBSET Unused /\ StartCreateTasks({b}) /\ slot' = RefreshedSlot
        /\ UNCHANGED create_watchers
        /\ \E due \in SUBSET Retryable : RefreshOwners(due)
    BY <1>4 DEF AcquireLaunch
  <2> QED BY <2>1, SlotsWear, LiveRefresh DEF Forgotten
<1>5. ASSUME NEW r \in Requests, AcquireAfterFailure(r) \/ AcquireWait(r) PROVE LiveBrowsers'
  <2>1. /\ StartCreateTasks({}) /\ slot' = RefreshedSlot
        /\ UNCHANGED create_watchers
        /\ \E due \in SUBSET Retryable : RefreshOwners(due)
    BY <1>1, <1>5 DEF AcquireAfterFailure, AcquireWait
  <2> QED BY <2>1, SlotsWear, LiveRefresh DEF Forgotten
<1>6. ASSUME NEW r \in Requests, ReleaseSlot(r) PROVE LiveBrowsers'
  <2>1. PICK b \in slots : b = held[r] /\ b \in Browsers
    BY <1>6 DEF ReleaseSlot, LeasesTracked, Holding, LeaseKeepsBrowser
  <2>2. /\ slots' \in {slots, slots \ {b}}
        /\ b \notin slots' => slot'[b].state = "closing"
    <3> DEFINE s == Released(slot[b], discard[r])
               last == s.state = "retiring" /\ s.active = 0
    <3>1. /\ slot' = [slot EXCEPT ![b] = IF last THEN Closing(s) ELSE s]
          /\ slots' = IF last THEN slots \ {b} ELSE slots
      BY <1>6, <2>1 DEF ReleaseSlot
    <3>2. Closing(s).state = "closing"
      BY <2>1, ReleasedType, ClosingKeeps DEF RequestTypes
    <3> HIDE DEF s, last
    <3> QED BY <2>1, <3>1, <3>2
  <2>3. /\ \A c \in Browsers \ {b} : slot'[c] = slot[c]
        /\ UNCHANGED <<factory, create_tasks, create_watchers>>
    BY <1>6, <2>1 DEF ReleaseSlot
  <2>4. factory[b] \notin {"running", "raised"}
    BY <2>1 DEF Ownership, SingleOwner, LiveBrowsers
  <2> QED BY <2>1, <2>2, <2>3, <2>4 DEF LiveBrowsers
<1>7. ASSUME NEW r \in Requests,
             \/ BeginTransient(r)
             \/ BeginPersistent(r)
             \/ AcquireRejected(r)
             \/ AcquireTimeout(r)
             \/ OpenContext(r)
             \/ \E why \in {"none", "error", "disconnected"} : StartFinalizer(r, why)
             \/ ReleasePersistent(r)
             \/ AccountingTaskDone(r)
             \/ NotifyPoolWaiters(r)
      PROVE  UNCHANGED <<browserVars, ownerVars>>
  BY <1>7 DEF BeginTransient, BeginPersistent, AcquireRejected, AcquireTimeout, OpenContext,
       StartFinalizer, ReleasePersistent, AccountingTaskDone, NotifyPoolWaiters
<1>8. UNCHANGED <<browserVars, ownerVars>> => LiveBrowsers'
  BY DEF LiveBrowsers, browserVars, ownerVars
<1> QED BY <1>3, <1>4, <1>5, <1>6, <1>7, <1>8
        DEF Request, Acquire, Account, AcquireHealthy, AcquireSoftRetiring

\* Launches and startups pass live browsers on or close them.
LEMMA LiveLaunches ==
    PoolInvariant /\ LiveBrowsers /\ (World \/ Launch \/ Startup) => LiveBrowsers'
<1> SUFFICES ASSUME PoolInvariant, LiveBrowsers, World \/ Launch \/ Startup PROVE LiveBrowsers'
  OBVIOUS
<1> USE DEF LiveBrowsers, PoolInvariant, Ownership, SingleOwner, LaunchesTracked, TypeOK,
            BrowserTypes, PoolTypes, browserVars, ownerVars
<1>1. \A b \in Browsers : Closing(slot[b]).state = "closing"
  BY ClosingKeeps
<1>2. ASSUME NEW b \in Browsers, FactoryReturns(b) PROVE LiveBrowsers'
  BY <1>2 DEF FactoryReturns
<1>3. ASSUME NEW b \in Browsers, FactoryRaises(b) PROVE LiveBrowsers'
  BY <1>3 DEF FactoryRaises
<1>4. ASSUME NEW b \in Browsers, BrowserDisconnects(b) \/ BrowserAges(b) PROVE LiveBrowsers'
  BY <1>4 DEF BrowserDisconnects, BrowserAges, SlotRecord
<1>5. ASSUME NEW b \in Browsers, LaunchTimesOut(b) PROVE LiveBrowsers'
  BY <1>5 DEF LaunchTimesOut
<1>6. ASSUME NEW b \in Browsers, LaunchFails(b) PROVE LiveBrowsers'
  BY <1>6 DEF LaunchFails
<1>7. ASSUME NEW b \in Browsers, LaunchSucceeds(b) PROVE LiveBrowsers'
  BY <1>1, <1>7 DEF LaunchSucceeds
<1>8. ASSUME NEW b \in Browsers, AbandonedLaunchEnds(b) PROVE LiveBrowsers'
  BY <1>1, <1>8 DEF AbandonedLaunchEnds
<1>9. ASSUME NEW new \in SUBSET Browsers, StartBegins(new) PROVE LiveBrowsers'
  <2>1. /\ new \in SUBSET Unused /\ StartCreateTasks(new)
        /\ UNCHANGED <<slot, slots, create_watchers>>
    BY <1>9 DEF StartBegins
  <2> QED BY <2>1, LaunchesStartDead
<1>10. CASE \/ StartCallersCancel
            \/ StartupUnwinds
            \/ StartupSucceeds
            \/ StartupFinishes
            \/ StartupCancelledInHandoff
            \/ StartupCancelledInRecovery
  BY <1>10 DEF StartCallersCancel, StartupUnwinds, StartupSucceeds, StartupFinishes,
       StartupCancelledInHandoff, StartupCancelledInRecovery
<1>11. CASE StartupCancelledLaunching
  BY <1>11 DEF StartupCancelledLaunching
<1>12. CASE StartupFails
  BY <1>1, <1>12 DEF StartupFails, StartTypes
<1>13. CASE RegisterStartedSlots
  BY <1>1, <1>13 DEF RegisterStartedSlots, StartTypes
<1>14. CASE RecoverCancelledStart
  <2>1. \A b \in Browsers :
            MarkRetiring(slot[b], "error").state = "closing" <=> slot[b].state = "closing"
    BY MarkRetiringKeeps
  <2> QED BY <1>1, <1>14, <2>1 DEF RecoverCancelledStart, StartupTracked
<1> QED BY <1>2, <1>3, <1>4, <1>5, <1>6, <1>7, <1>8, <1>9, <1>10, <1>11, <1>12, <1>13, <1>14
        DEF World, Launch, Startup, StartupStep

\* Maintenance closes the slots it takes out of service, and closes leave the others.
LEMMA LiveUpkeep ==
    PoolInvariant /\ LiveBrowsers /\ (Upkeep \/ Shutdown \/ UNCHANGED vars) => LiveBrowsers'
<1> SUFFICES ASSUME PoolInvariant, LiveBrowsers, Upkeep \/ Shutdown \/ UNCHANGED vars
             PROVE  LiveBrowsers'
  OBVIOUS
<1> USE DEF PoolInvariant, TypeOK, BrowserTypes, PoolTypes
<1>1. ASSUME NEW due \in SUBSET Browsers, RefreshPool(due) PROVE LiveBrowsers'
  <2>1. StartCreateTasks({})
    BY <1>1 DEF RefreshPool, StartCreateTasks
  <2> QED BY <1>1, <2>1, SlotsWear, LiveRefresh DEF RefreshPool, Forgotten
<1>2. ASSUME NEW due \in SUBSET Browsers, NEW new \in SUBSET Browsers, Maintain(due, new)
      PROVE  LiveBrowsers'
  BY <1>2, SlotsWear, LiveRefresh DEF Maintain, Forgotten
<1> USE DEF LiveBrowsers, Ownership, SingleOwner, LaunchesTracked, ownerVars, browserVars
<1>3. ASSUME NEW b \in Browsers, NEW new \in SUBSET Browsers, CloseSlotSucceeds(b, new)
      PROVE  LiveBrowsers'
  <2>1. slot'[b].state = "closing" /\ \A c \in Browsers \ {b} : slot'[c] = slot[c]
    BY <1>3 DEF CloseSlotSucceeds, DroppedSlot, NewSlot
  <2>2. new \in SUBSET Unused /\ StartCreateTasks(new) /\ UNCHANGED <<slots, create_watchers>>
    BY <1>3 DEF CloseSlotSucceeds
  <2> QED BY <2>1, <2>2, LaunchesStartDead
<1>4. ASSUME NEW b \in Browsers, NEW new \in SUBSET Browsers, CloseSlotFails(b, new)
      PROVE  LiveBrowsers'
  <2>1. \A c \in Browsers : slot'[c].state = slot[c].state
    BY <1>4 DEF CloseSlotFails, SlotRecord
  <2>2. new \in SUBSET Unused /\ StartCreateTasks(new) /\ UNCHANGED <<slots, create_watchers>>
    BY <1>4 DEF CloseSlotFails
  <2> QED BY <2>1, <2>2, LaunchesStartDead
<1>5. ASSUME NEW b \in Browsers, PhysicalCloseFinishes(b) PROVE LiveBrowsers'
  BY <1>5 DEF PhysicalCloseFinishes, SlotRecord
<1>6. ASSUME NEW b \in Browsers, ReconcileLatePhysicalClose(b) PROVE LiveBrowsers'
  BY <1>6 DEF ReconcileLatePhysicalClose, DroppedSlot, NewSlot
<1>7. CASE Quiesce \/ CloseBegins
  <2>1. (\E retried : ShutDownSlots(retried)) /\ UNCHANGED factory
    BY <1>7 DEF Quiesce, CloseBegins
  <2>2. \A b \in Browsers :
            /\ Closing(slot[b]).state = "closing"
            /\ MarkRetiring(slot[b], "shutdown").state = "closing" <=> slot[b].state = "closing"
    BY ClosingKeeps, MarkRetiringKeeps
  <2> QED BY <2>1, <2>2 DEF ShutDownSlots, Idle
<1>8. CASE CloserStep \/ CloseCancelled \/ UNCHANGED vars
  BY <1>8 DEF CloserStep, CloseSeesStartupEnd, CloseChecksDrain, CloseGathers, CloseCancelled,
       vars
<1> QED BY <1>1, <1>2, <1>3, <1>4, <1>5, <1>6, <1>7, <1>8 DEF Upkeep, CloseSlot, Shutdown

\* Live browsers stay tracked in every step.
LEMMA LiveNext == PoolInvariant /\ LiveBrowsers /\ [Next]_vars => LiveBrowsers'
BY LiveRequest, LiveLaunches, LiveUpkeep DEF Next

\* Live browsers are tracked in every reachable state.
LEMMA LiveHolds == Spec => []LiveBrowsers
<1>1. Init => LiveBrowsers
  <2>1. DroppedSlot.state = "closing"
    BY DEF DroppedSlot, NewSlot
  <2> QED BY <2>1 DEF Init, LiveBrowsers
<1> QED BY <1>1, LiveNext, PoolInvariantHolds, PTL DEF Spec

-----------------------------------------------------------------------------
(* The ceiling on browser generations.                                     *)

\* Sets of browsers are finite.
LEMMA FiniteBrowsers == \A S \in SUBSET Browsers : IsFiniteSet(S) /\ Cardinality(S) \in Nat
BY FS_Subset, FS_CardinalityType, PoolAssumption DEF PoolAssumption

\* The pool owns no more browsers than its five collections hold.
LEMMA CollectionsBound ==
    ASSUME NEW A \in SUBSET Browsers, NEW B \in SUBSET Browsers, NEW C \in SUBSET Browsers,
           NEW D \in SUBSET Browsers, NEW E \in SUBSET Browsers
    PROVE  Cardinality(A \cup B \cup C \cup D \cup E)
               <= Cardinality(A) + Cardinality(B) + Cardinality(C) + Cardinality(D) + Cardinality(E)
<1>1. ASSUME NEW S \in SUBSET Browsers, NEW T \in SUBSET Browsers
      PROVE  Cardinality(S \cup T) <= Cardinality(S) + Cardinality(T)
  <2>1. Cardinality(S \cup T) = Cardinality(S) + Cardinality(T) - Cardinality(S \cap T)
    BY FiniteBrowsers, FS_Union
  <2>2. S \cap T \in SUBSET Browsers
    OBVIOUS
  <2> QED BY <2>1, <2>2, FiniteBrowsers
<1>2. Cardinality(A \cup B) <= Cardinality(A) + Cardinality(B)
  BY <1>1
<1>3. Cardinality(A \cup B \cup C) <= Cardinality(A \cup B) + Cardinality(C)
  BY <1>1
<1>4. Cardinality(A \cup B \cup C \cup D) <= Cardinality(A \cup B \cup C) + Cardinality(D)
  BY <1>1
<1>5. Cardinality(A \cup B \cup C \cup D \cup E)
          <= Cardinality(A \cup B \cup C \cup D) + Cardinality(E)
  BY <1>1
<1>6. \A S \in {A, B, C, D, E, A \cup B, A \cup B \cup C, A \cup B \cup C \cup D,
               A \cup B \cup C \cup D \cup E} : Cardinality(S) \in Nat
  BY FiniteBrowsers
<1> QED BY <1>2, <1>3, <1>4, <1>5, <1>6

\* The count the pool compares with its limits is never less than what it owns.
LEMMA CountedGenerations ==
    ASSUME TypeOK
    PROVE  /\ PhysicalGenerations \in Nat
           /\ Cardinality(Owned) <= PhysicalGenerations
           /\ Cardinality(Owned) \in Nat
<1>1. \A S \in {slots, create_tasks, create_watchers, close_tasks, failed_close_slots, Owned} :
          S \in SUBSET Browsers /\ Cardinality(S) \in Nat
  BY FiniteBrowsers DEF TypeOK, PoolTypes, Owned
<1>2. Cardinality(Owned) <= Cardinality(slots) + Cardinality(create_tasks)
          + Cardinality(create_watchers) + Cardinality(close_tasks)
          + Cardinality(failed_close_slots)
  BY <1>1, CollectionsBound DEF Owned
<1> QED BY <1>1, <1>2 DEF PhysicalGenerations

\* A step that owns only what was owned, and what it launches.
LEMMA OwnedGrowth ==
    ASSUME TypeOK, NEW S \in SUBSET Browsers, NEW new \in SUBSET Browsers,
           Owned' \subseteq S \cup new
    PROVE  /\ Cardinality(Owned') <= Cardinality(S) + Cardinality(new)
           /\ Cardinality(Owned') \in Nat
<1>1. Cardinality(S \cup new) = Cardinality(S) + Cardinality(new) - Cardinality(S \cap new)
  BY FiniteBrowsers, FS_Union
<1>2. Cardinality(Owned') <= Cardinality(S \cup new)
  <2>1. IsFiniteSet(S \cup new)
    BY FiniteBrowsers
  <2> QED BY <2>1, FS_Subset
<1>3. \A T \in {S, new, S \cup new, S \cap new, Owned'} : Cardinality(T) \in Nat
  BY FiniteBrowsers
<1> QED BY <1>1, <1>2, <1>3

\* _replenish_unlocked launches nothing, or no more than POOL_MAX_BROWSERS leaves room for.
LEMMA ReplenishFits ==
    ASSUME TypeOK, NEW record, NEW serving \in SUBSET Browsers, NEW occupied \in Int,
           NEW new \in SUBSET Browsers,
           Cardinality(new) = ReplenishCount(record, serving, occupied)
    PROVE  new = {} \/ occupied + Cardinality(new) <= MaxBrowsers
<1> DEFINE healthy == {b \in serving : record[b].state = "ready" /\ ~ShouldRecycle(record[b])}
           missing == MinBrowsers - Cardinality(healthy) - Cardinality(create_tasks)
           room == MaxBrowsers - occupied
           wanted == IF missing < room THEN missing ELSE room
<1>1. Cardinality(new) = 0 \/ Cardinality(new) = wanted
  BY DEF ReplenishCount
<1>2. missing \in Int /\ room \in Int
  <2>1. Cardinality(healthy) \in Nat
    BY FiniteBrowsers
  <2>2. Cardinality(create_tasks) \in Nat
    BY FiniteBrowsers DEF TypeOK, PoolTypes
  <2> QED BY <2>1, <2>2, PoolAssumption DEF PoolAssumption
<1> HIDE DEF missing
<1>3. occupied + wanted <= MaxBrowsers
  BY <1>2, PoolAssumption DEF PoolAssumption
<1>4. Cardinality(new) = 0 => new = {}
  BY FiniteBrowsers, FS_EmptySet
<1> QED BY <1>1, <1>3, <1>4

\* The maintenance tick either launches nothing or stays within POOL_MAX_BROWSERS.
LEMMA MaintainFits ==
    ASSUME PoolInvariant, NEW due \in SUBSET Browsers, NEW new \in SUBSET Browsers,
           Maintain(due, new)
    PROVE  IF new = {} THEN Owned' \subseteq Owned ELSE Cardinality(Owned') <= MaxBrowsers
<1> USE DEF PoolInvariant
<1>1. Owned' \subseteq Owned \cup new
  BY SlotsWear DEF Maintain, RefreshOwners, Retryable, StartCreateTasks, Owned
<1>2. InService \in SUBSET Browsers /\ Owned \in SUBSET Browsers
  BY DEF InService, Owned, TypeOK, PoolTypes
<1>3. new = {} \/ PhysicalGenerations + Cardinality(new) <= MaxBrowsers
  BY <1>2, CountedGenerations, ReplenishFits DEF Maintain
<1>4. Cardinality(Owned') <= Cardinality(Owned) + Cardinality(new)
      /\ Cardinality(Owned') \in Nat /\ Cardinality(new) \in Nat
  BY <1>1, <1>2, OwnedGrowth, FiniteBrowsers
<1> QED BY <1>1, <1>3, <1>4, CountedGenerations, PoolAssumption DEF PoolAssumption

\* So does the end of a close: a browser that is gone no longer counts.
LEMMA CloseFits ==
    ASSUME PoolInvariant, NEW b \in Browsers, NEW new \in SUBSET Browsers,
           CloseSlotSucceeds(b, new) \/ CloseSlotFails(b, new)
    PROVE  IF new = {} THEN Owned' \subseteq Owned ELSE Cardinality(Owned') <= MaxBrowsers
<1> USE DEF PoolInvariant
<1>1. b \in close_tasks /\ Owned \in SUBSET Browsers /\ slots \in SUBSET Browsers
  BY DEF CloseSlotSucceeds, CloseSlotFails, Owned, TypeOK, PoolTypes
<1>2. CASE CloseSlotFails(b, new)
  <2>1. Owned' \subseteq Owned \cup new
    BY <1>2 DEF CloseSlotFails, StartCreateTasks, Owned
  <2>2. new = {} \/ PhysicalGenerations + Cardinality(new) <= MaxBrowsers
    BY <1>1, <1>2, CountedGenerations, ReplenishFits DEF CloseSlotFails
  <2>3. Cardinality(Owned') <= Cardinality(Owned) + Cardinality(new)
        /\ Cardinality(Owned') \in Nat /\ Cardinality(new) \in Nat
    BY <1>1, <2>1, OwnedGrowth, FiniteBrowsers
  <2> QED BY <2>1, <2>2, <2>3, CountedGenerations, PoolAssumption DEF PoolAssumption
<1>3. CASE CloseSlotSucceeds(b, new)
  <2> DEFINE rest == slots \cup create_tasks \cup create_watchers \cup (close_tasks \ {b})
                         \cup failed_close_slots
  <2>1. Owned' \subseteq rest \cup new /\ rest \subseteq Owned /\ rest \in SUBSET Browsers
    BY <1>1, <1>3 DEF CloseSlotSucceeds, StartCreateTasks, Owned
  <2>2. Cardinality(rest) <= PhysicalGenerations - 1
    <3>1. Cardinality(close_tasks \ {b}) = Cardinality(close_tasks) - 1
      BY <1>1, FiniteBrowsers, FS_RemoveElement DEF TypeOK, PoolTypes
    <3>2. Cardinality(rest) <= Cardinality(slots) + Cardinality(create_tasks)
              + Cardinality(create_watchers) + Cardinality(close_tasks \ {b})
              + Cardinality(failed_close_slots)
      BY CollectionsBound DEF TypeOK, PoolTypes
    <3>3. \A S \in {slots, create_tasks, create_watchers, close_tasks, failed_close_slots, rest} :
              Cardinality(S) \in Nat
      BY <2>1, FiniteBrowsers DEF TypeOK, PoolTypes
    <3> HIDE DEF rest
    <3> QED BY <3>1, <3>2, <3>3 DEF PhysicalGenerations
  <2>3. new = {} \/ PhysicalGenerations - 1 + Cardinality(new) <= MaxBrowsers
    BY <1>1, <1>3, CountedGenerations, ReplenishFits DEF CloseSlotSucceeds
  <2>4. Cardinality(Owned') <= Cardinality(rest) + Cardinality(new)
        /\ Cardinality(Owned') \in Nat /\ Cardinality(new) \in Nat /\ Cardinality(rest) \in Nat
    BY <2>1, OwnedGrowth, FiniteBrowsers
  <2> HIDE DEF rest
  <2> QED BY <2>1, <2>2, <2>3, <2>4, CountedGenerations, PoolAssumption DEF PoolAssumption
<1> QED BY <1>2, <1>3

\* Every other step but a launch somebody asked for owns only what was owned.
LEMMA OwnedNext ==
    ASSUME PoolInvariant, LiveBrowsers, [Next]_vars
    PROVE  \/ Owned' \subseteq Owned
           \/ \E r \in Requests, b \in Browsers : AcquireLaunch(r, b)
           \/ \E new \in SUBSET Browsers : StartBegins(new)
           \/ \E due, new \in SUBSET Browsers : Maintain(due, new) /\ new # {}
           \/ \E b \in Browsers, new \in SUBSET Browsers :
                 (CloseSlotSucceeds(b, new) \/ CloseSlotFails(b, new)) /\ new # {}
<1> USE DEF PoolInvariant, TypeOK, PoolTypes, Owned, ownerVars
<1>1. CASE World
  BY <1>1 DEF World, FactoryReturns, FactoryRaises, BrowserDisconnects, BrowserAges
<1>2. ASSUME NEW due, RefreshOwners(due), due \subseteq failed_close_slots,
             UNCHANGED <<create_tasks, create_watchers>>
      PROVE  Owned' \subseteq Owned
  BY <1>2, SlotsWear DEF RefreshOwners
<1>3. CASE Request
  <2>1. ASSUME NEW r \in Requests,
               \/ BeginTransient(r)
               \/ BeginPersistent(r)
               \/ AcquireRejected(r)
               \/ AcquireTimeout(r)
               \/ OpenContext(r)
               \/ \E why \in {"none", "error", "disconnected"} : StartFinalizer(r, why)
               \/ ReleasePersistent(r)
               \/ AccountingTaskDone(r)
               \/ NotifyPoolWaiters(r)
        PROVE  UNCHANGED ownerVars
    BY <2>1 DEF BeginTransient, BeginPersistent, AcquireRejected, AcquireTimeout, OpenContext,
         StartFinalizer, ReleasePersistent, AccountingTaskDone, NotifyPoolWaiters
  <2>2. ASSUME NEW r \in Requests,
               \/ \E b \in Browsers : Grant(r, b)
               \/ AcquireAfterFailure(r)
               \/ AcquireWait(r)
        PROVE  Owned' \subseteq Owned
    <3>1. UNCHANGED <<create_tasks, create_watchers>>
          /\ \E due \in SUBSET Retryable : RefreshOwners(due)
      BY <2>2 DEF Grant, AcquireAfterFailure, AcquireWait
    <3> QED BY <1>2, <3>1 DEF Retryable
  <2>3. ASSUME NEW r \in Requests, ReleaseSlot(r) PROVE Owned' \subseteq Owned
    <3>1. held[r] \in slots
      BY <2>3 DEF ReleaseSlot, LeasesTracked, Holding, LeaseKeepsBrowser
    <3> QED BY <2>3, <3>1 DEF ReleaseSlot
  <2> QED BY <1>3, <2>1, <2>2, <2>3 DEF Request, Acquire, Account, AcquireHealthy,
             AcquireSoftRetiring
<1>4. CASE Launch
  BY <1>4 DEF Launch, LaunchTimesOut, LaunchFails, LaunchSucceeds, AbandonedLaunchEnds, Supervised
<1>5. CASE Startup
  <2>1. \A b \in Browsers : slot[b].state # "closing" => b \in Owned
    BY DEF LiveBrowsers
  <2>2. CASE \/ StartCallersCancel
             \/ StartupUnwinds
             \/ StartupSucceeds
             \/ StartupFinishes
             \/ StartupCancelledInHandoff
             \/ StartupCancelledInRecovery
             \/ StartupCancelledLaunching
    BY <2>2 DEF StartCallersCancel, StartupUnwinds, StartupSucceeds, StartupFinishes,
         StartupCancelledInHandoff, StartupCancelledInRecovery, StartupCancelledLaunching
  <2>3. CASE StartupFails
    BY <2>1, <2>3 DEF StartupFails, StartTypes
  <2>4. CASE RegisterStartedSlots
    BY <2>1, <2>4 DEF RegisterStartedSlots, StartTypes, Ownership, StartupTracked
  <2>5. CASE RecoverCancelledStart
    BY <2>1, <2>5 DEF RecoverCancelledStart, StartTypes
  <2> QED BY <1>5, <2>2, <2>3, <2>4, <2>5 DEF Startup, StartupStep
<1>6. CASE Upkeep
  <2>1. ASSUME NEW due \in SUBSET Browsers, RefreshPool(due) PROVE Owned' \subseteq Owned
    BY <1>2, <2>1 DEF RefreshPool, Retryable
  <2>2. ASSUME NEW due \in SUBSET Browsers, NEW new \in SUBSET Browsers, Maintain(due, new)
        PROVE  new # {} \/ Owned' \subseteq Owned
    BY <2>2, MaintainFits
  <2>3. ASSUME NEW b \in Browsers, NEW new \in SUBSET Browsers,
               CloseSlotSucceeds(b, new) \/ CloseSlotFails(b, new)
        PROVE  new # {} \/ Owned' \subseteq Owned
    BY <2>3, CloseFits
  <2>4. ASSUME NEW b \in Browsers, PhysicalCloseFinishes(b) \/ ReconcileLatePhysicalClose(b)
        PROVE  Owned' \subseteq Owned
    BY <2>4 DEF PhysicalCloseFinishes, ReconcileLatePhysicalClose
  <2> HIDE DEF Owned, PoolInvariant
  <2> QED BY <1>6, <2>1, <2>2, <2>3, <2>4 DEF Upkeep, CloseSlot
<1>7. CASE Quiesce \/ CloseBegins
  BY <1>7 DEF Quiesce, CloseBegins, ShutDownSlots, Idle
<1>8. CASE CloserStep \/ CloseCancelled \/ UNCHANGED vars
  BY <1>8 DEF CloserStep, CloseSeesStartupEnd, CloseChecksDrain, CloseGathers, CloseCancelled,
       vars
<1> QED BY <1>1, <1>3, <1>4, <1>5, <1>6, <1>7, <1>8 DEF Next, Upkeep, Startup, Shutdown

\* Launches, browsers in service, browsers being closed and quarantined ones never exceed
\* twice POOL_MAX_BROWSERS, although three places launch and none counts the others'
\* launches twice (_start_once, _acquire_slot and _replenish_unlocked).
THEOREM CeilingHolds == Spec => []PhysicalCeiling
<1>1. Init => PhysicalCeiling
  <2> SUFFICES ASSUME Init PROVE PhysicalCeiling
    OBVIOUS
  <2>1. Owned = {}
    BY DEF Init, Owned
  <2> QED BY <2>1, FS_EmptySet, PoolAssumption DEF PhysicalCeiling, MaxPhysical, PoolAssumption
<1>2. PoolInvariant /\ LiveBrowsers /\ PhysicalCeiling /\ [Next]_vars => PhysicalCeiling'
  <2> SUFFICES ASSUME PoolInvariant, LiveBrowsers, PhysicalCeiling, [Next]_vars
               PROVE  Cardinality(Owned') <= MaxPhysical
    BY DEF PhysicalCeiling, MaxPhysical
  <2>1. MaxPhysical \in Nat /\ MaxBrowsers \in Nat /\ MinBrowsers \in Nat
        /\ MaxBrowsers <= MaxPhysical
    BY PoolAssumption DEF PoolAssumption, MaxPhysical
  <2>2. PoolInvariant' /\ TypeOK'
    BY PoolInvariantNext DEF PoolInvariant
  <2>3. Owned \in SUBSET Browsers /\ Owned' \in SUBSET Browsers
    BY <2>2 DEF PoolInvariant, TypeOK, PoolTypes, Owned
  <2>4. /\ Cardinality(Owned) \in Nat /\ PhysicalGenerations \in Nat
        /\ Cardinality(Owned) <= PhysicalGenerations
        /\ Cardinality(Owned') \in Nat
    BY <2>3, CountedGenerations, FiniteBrowsers DEF PoolInvariant
  <2>5. CASE Owned' \subseteq Owned
    <3>1. Cardinality(Owned') <= Cardinality(Owned)
      BY <2>3, <2>5, FiniteBrowsers, FS_Subset
    <3> QED BY <2>1, <2>4, <3>1 DEF PhysicalCeiling
  <2>6. ASSUME NEW r \in Requests, NEW b \in Browsers, AcquireLaunch(r, b)
        PROVE  Cardinality(Owned') <= MaxPhysical
    <3>1. Owned' \subseteq Owned \cup {b}
      BY <2>6, SlotsWear DEF AcquireLaunch, RefreshOwners, Retryable, StartCreateTasks, Owned
    <3>2. Cardinality({b}) = 1
      BY FS_Singleton
    <3>3. PhysicalGenerations < MaxPhysical
      BY <2>6 DEF AcquireLaunch, LaunchGateOpen
    <3>4. Cardinality(Owned') <= Cardinality(Owned) + 1
      BY <2>3, <3>1, <3>2, OwnedGrowth DEF PoolInvariant
    <3> QED BY <2>1, <2>4, <3>3, <3>4
  <2>7. ASSUME NEW new \in SUBSET Browsers, StartBegins(new)
        PROVE  Cardinality(Owned') <= MaxPhysical
    <3>1. Owned' \subseteq Owned \cup new
      BY <2>7 DEF StartBegins, StartCreateTasks, Owned
    <3>2. PhysicalGenerations + MinBrowsers <= MaxPhysical /\ Cardinality(new) = MinBrowsers
      BY <2>7 DEF StartBegins
    <3>3. Cardinality(Owned') <= Cardinality(Owned) + MinBrowsers
      BY <2>3, <3>1, <3>2, OwnedGrowth DEF PoolInvariant
    <3> QED BY <2>1, <2>4, <3>2, <3>3
  <2>8. Cardinality(Owned') <= MaxBrowsers => Cardinality(Owned') <= MaxPhysical
    BY <2>1, <2>4
  <2> QED BY <2>5, <2>6, <2>7, <2>8, OwnedNext, MaintainFits, CloseFits
<1> QED BY <1>1, <1>2, PoolInvariantHolds, LiveHolds, PTL DEF Spec

\* Three places launch browsers, and the end of a close through the second of them.
LEMMA LaunchSteps ==
    ASSUME [Next]_vars
    PROVE  \/ create_tasks' \subseteq create_tasks
           \/ \E r \in Requests, b \in Browsers : AcquireLaunch(r, b)
           \/ \E new \in SUBSET Browsers : StartBegins(new)
           \/ \E due, new \in SUBSET Browsers : Maintain(due, new)
           \/ \E b \in Browsers, new \in SUBSET Browsers :
                 CloseSlotSucceeds(b, new) \/ CloseSlotFails(b, new)
<1> USE DEF ownerVars
<1>1. CASE World
  BY <1>1 DEF World, FactoryReturns, FactoryRaises, BrowserDisconnects, BrowserAges
<1>2. CASE Request
  BY <1>2 DEF Request, Acquire, Account, AcquireHealthy, AcquireSoftRetiring, Grant,
       BeginTransient, BeginPersistent, AcquireRejected, AcquireTimeout, OpenContext,
       StartFinalizer, ReleasePersistent, AccountingTaskDone, NotifyPoolWaiters,
       AcquireAfterFailure, AcquireWait, ReleaseSlot
<1>3. CASE Launch
  BY <1>3 DEF Launch, LaunchTimesOut, LaunchFails, LaunchSucceeds, AbandonedLaunchEnds
<1>4. CASE Startup
  BY <1>4 DEF Startup, StartupStep, StartCallersCancel, StartupUnwinds, StartupSucceeds,
       StartupFinishes, StartupCancelledInHandoff, StartupCancelledInRecovery,
       StartupCancelledLaunching, StartupFails, RegisterStartedSlots, RecoverCancelledStart
<1>5. CASE Upkeep
  BY <1>5 DEF Upkeep, CloseSlot, RefreshPool, PhysicalCloseFinishes, ReconcileLatePhysicalClose
<1>6. CASE Shutdown \/ UNCHANGED vars
  BY <1>6 DEF Shutdown, Quiesce, CloseBegins, ShutDownSlots, CloserStep, CloseSeesStartupEnd,
       CloseChecksDrain, CloseGathers, CloseCancelled, vars
<1> QED BY <1>1, <1>2, <1>3, <1>4, <1>5, <1>6 DEF Next

\* A launch that no request and no start() asked for keeps the generations within
\* POOL_MAX_BROWSERS (_replenish_unlocked).
THEOREM BackgroundLaunchesAlwaysFit == Spec => BackgroundLaunchesFit
<1>1. ASSUME PoolInvariant, LiveBrowsers, [Next]_vars, ~(create_tasks' \subseteq create_tasks),
             launched' = launched, startup' = startup
      PROVE  Cardinality(Owned') <= MaxBrowsers
  <2>1. ASSUME NEW due \in SUBSET Browsers, NEW new \in SUBSET Browsers, Maintain(due, new)
        PROVE  Cardinality(Owned') <= MaxBrowsers
    <3>1. new # {}
      BY <1>1, <2>1 DEF Maintain, StartCreateTasks
    <3> QED BY <1>1, <2>1, <3>1, MaintainFits
  <2>2. ASSUME NEW b \in Browsers, NEW new \in SUBSET Browsers,
               CloseSlotSucceeds(b, new) \/ CloseSlotFails(b, new)
        PROVE  Cardinality(Owned') <= MaxBrowsers
    <3>1. new # {}
      BY <1>1, <2>2 DEF CloseSlotSucceeds, CloseSlotFails, StartCreateTasks
    <3> QED BY <1>1, <2>2, <3>1, CloseFits
  <2>3. ASSUME NEW r \in Requests, NEW b \in Browsers, AcquireLaunch(r, b) PROVE FALSE
    BY <1>1, <2>3 DEF AcquireLaunch
  <2>4. ASSUME NEW new \in SUBSET Browsers, StartBegins(new) PROVE FALSE
    BY <1>1, <2>4 DEF StartBegins, StartCreateTasks
  <2> QED BY <1>1, <2>1, <2>2, <2>3, <2>4, LaunchSteps
<1>2. PoolInvariant /\ LiveBrowsers /\ [Next]_vars =>
          [~(create_tasks' \subseteq create_tasks) /\ launched' = launched /\ startup' = startup
           => Cardinality(Owned') <= MaxBrowsers]_vars
  BY <1>1
<1> QED BY <1>2, PoolInvariantHolds, LiveHolds, PTL DEF Spec, BackgroundLaunchesFit

-----------------------------------------------------------------------------
(* close() leaves nothing behind.                                          *)

\* How far the caller of close() has come tells what is left in the pool.
ClosePhases ==
    /\ closer # "idle" => closed
    /\ closer \in {"gather", "done"} => slots \cup create_tasks \cup create_watchers = {}
    /\ closer = "done" => close_tasks = {}

\* A closed pool stays closed, takes in no browser, and schedules the close of none but
\* its own.
LEMMA ClosedSteps ==
    ASSUME PoolInvariant, LiveBrowsers, closed, [Next]_vars
    PROVE  /\ closed'
           /\ slots' \cup create_tasks' \cup create_watchers'
                  \subseteq slots \cup create_tasks \cup create_watchers
           /\ \/ CloseBegins
              \/ close_tasks' \subseteq close_tasks \cup slots \cup create_tasks
                                           \cup create_watchers
<1> USE DEF PoolInvariant, TypeOK, PoolTypes, StartTypes, ownerVars, closeVars
<1>1. CASE World
  BY <1>1 DEF World, FactoryReturns, FactoryRaises, BrowserDisconnects, BrowserAges
<1>2. CASE Request
  <2>1. ASSUME NEW r \in Requests,
               \/ BeginTransient(r)
               \/ BeginPersistent(r)
               \/ AcquireRejected(r)
               \/ AcquireTimeout(r)
               \/ OpenContext(r)
               \/ \E why \in {"none", "error", "disconnected"} : StartFinalizer(r, why)
               \/ ReleasePersistent(r)
               \/ AccountingTaskDone(r)
               \/ NotifyPoolWaiters(r)
        PROVE  UNCHANGED <<ownerVars, closed>>
    BY <2>1 DEF BeginTransient, BeginPersistent, AcquireRejected, AcquireTimeout, OpenContext,
         StartFinalizer, ReleasePersistent, AccountingTaskDone, NotifyPoolWaiters
  <2>2. ASSUME NEW r \in Requests,
               \/ \E b \in Browsers : \/ AcquireHealthy(r, b)
                                      \/ AcquireSoftRetiring(r, b)
                                      \/ AcquireLaunch(r, b)
               \/ AcquireAfterFailure(r)
               \/ AcquireWait(r)
        PROVE  FALSE
    BY <2>2 DEF AcquireHealthy, AcquireSoftRetiring, AcquireLaunch, AcquireAfterFailure,
         AcquireWait
  <2>3. ASSUME NEW r \in Requests, ReleaseSlot(r)
        PROVE  /\ UNCHANGED <<create_tasks, create_watchers, closed>>
               /\ slots' \subseteq slots /\ close_tasks' \subseteq close_tasks \cup slots
    <3>1. held[r] \in slots
      BY <2>3 DEF ReleaseSlot, LeasesTracked, Holding, LeaseKeepsBrowser
    <3> QED BY <2>3, <3>1 DEF ReleaseSlot
  <2> QED BY <1>2, <2>1, <2>2, <2>3 DEF Request, Acquire, Account
<1>3. CASE Launch
  BY <1>3 DEF Launch, LaunchTimesOut, LaunchFails, LaunchSucceeds, AbandonedLaunchEnds, Supervised
<1>4. CASE Startup
  <2>1. \A b \in Browsers :
            slot[b].state # "closing" => b \in slots \cup create_tasks \cup create_watchers
    BY DEF LiveBrowsers
  <2>2. ASSUME NEW new \in SUBSET Browsers, StartBegins(new) PROVE FALSE
    BY <2>2 DEF StartBegins
  <2>3. CASE \/ StartCallersCancel
             \/ StartupUnwinds
             \/ StartupSucceeds
             \/ StartupFinishes
             \/ StartupCancelledInHandoff
             \/ StartupCancelledInRecovery
             \/ StartupCancelledLaunching
    BY <2>3 DEF StartCallersCancel, StartupUnwinds, StartupSucceeds, StartupFinishes,
         StartupCancelledInHandoff, StartupCancelledInRecovery, StartupCancelledLaunching
  <2>4. CASE StartupFails
    BY <2>1, <2>4 DEF StartupFails
  <2>5. CASE RegisterStartedSlots
    BY <2>1, <2>5 DEF RegisterStartedSlots
  <2>6. CASE RecoverCancelledStart
    BY <2>1, <2>6 DEF RecoverCancelledStart
  <2> QED BY <1>4, <2>2, <2>3, <2>4, <2>5, <2>6 DEF Startup, StartupStep
<1>5. CASE Upkeep
  <2>1. ASSUME NEW b \in Browsers, NEW new \in SUBSET Browsers,
               CloseSlotSucceeds(b, new) \/ CloseSlotFails(b, new)
        PROVE  /\ UNCHANGED <<slots, create_watchers, closed>>
               /\ create_tasks' = create_tasks /\ close_tasks' \subseteq close_tasks
    <3>1. Cardinality(new) = 0
      BY <2>1 DEF CloseSlotSucceeds, CloseSlotFails, ReplenishCount
    <3>2. new = {}
      BY <3>1, FiniteBrowsers, FS_EmptySet
    <3> QED BY <2>1, <3>2 DEF CloseSlotSucceeds, CloseSlotFails, StartCreateTasks
  <2>2. ASSUME NEW due, RefreshPool(due) \/ \E new : Maintain(due, new) PROVE FALSE
    BY <2>2 DEF RefreshPool, Maintain
  <2>3. ASSUME NEW b \in Browsers, PhysicalCloseFinishes(b) \/ ReconcileLatePhysicalClose(b)
        PROVE  UNCHANGED <<slots, create_tasks, create_watchers, close_tasks, closed>>
    BY <2>3 DEF PhysicalCloseFinishes, ReconcileLatePhysicalClose
  <2> QED BY <1>5, <2>1, <2>2, <2>3 DEF Upkeep, CloseSlot
<1>6. CASE Shutdown \/ UNCHANGED vars
  BY <1>6 DEF Shutdown, Quiesce, CloseBegins, ShutDownSlots, Idle, CloserStep,
       CloseSeesStartupEnd, CloseChecksDrain, CloseGathers, CloseCancelled, vars
<1> QED BY <1>1, <1>2, <1>3, <1>4, <1>5, <1>6 DEF Next

\* Only close() moves its caller, and only quiesce() and close() close the pool.
LEMMA CloserSteps ==
    ASSUME [Next]_vars
    PROVE  \/ UNCHANGED <<closer, closed>>
           \/ Quiesce
           \/ CloseBegins
           \/ CloserStep
           \/ CloseCancelled
<1> USE DEF closeVars
<1>1. CASE World
  BY <1>1 DEF World, FactoryReturns, FactoryRaises, BrowserDisconnects, BrowserAges
<1>2. CASE Request
  BY <1>2 DEF Request, Acquire, Account, AcquireHealthy, AcquireSoftRetiring, Grant,
       AcquireLaunch, BeginTransient, BeginPersistent, AcquireRejected, AcquireTimeout,
       OpenContext, StartFinalizer, ReleasePersistent, AccountingTaskDone, NotifyPoolWaiters,
       AcquireAfterFailure, AcquireWait, ReleaseSlot
<1>3. CASE Launch
  BY <1>3 DEF Launch, LaunchTimesOut, LaunchFails, LaunchSucceeds, AbandonedLaunchEnds
<1>4. CASE Startup
  BY <1>4 DEF Startup, StartupStep, StartBegins, StartCallersCancel, StartupUnwinds,
       StartupSucceeds, StartupFinishes, StartupCancelledInHandoff, StartupCancelledInRecovery,
       StartupCancelledLaunching, StartupFails, RegisterStartedSlots, RecoverCancelledStart
<1>5. CASE Upkeep
  BY <1>5 DEF Upkeep, CloseSlot, RefreshPool, Maintain, CloseSlotSucceeds, CloseSlotFails,
       PhysicalCloseFinishes, ReconcileLatePhysicalClose
<1>6. CASE UNCHANGED vars
  BY <1>6 DEF vars
<1> QED BY <1>1, <1>2, <1>3, <1>4, <1>5, <1>6 DEF Next, Shutdown

\* The phases of close() stay true in every step.
LEMMA ClosePhasesNext ==
    PoolInvariant /\ LiveBrowsers /\ ClosePhases /\ [Next]_vars => ClosePhases'
<1> SUFFICES ASSUME PoolInvariant, LiveBrowsers, ClosePhases, [Next]_vars PROVE ClosePhases'
  OBVIOUS
<1> USE DEF ClosePhases
<1>1. CASE UNCHANGED <<closer, closed>>
  <2>1. CASE CloseBegins
    BY <2>1, <1>1 DEF CloseBegins
  <2>2. CASE ~CloseBegins
    BY <1>1, <2>2, ClosedSteps
  <2> QED BY <2>1, <2>2
<1>2. CASE Quiesce
  BY <1>2 DEF Quiesce, ShutDownSlots
<1>3. CASE CloseBegins
  BY <1>3 DEF CloseBegins, ShutDownSlots
<1>4. CASE CloserStep
  BY <1>4 DEF CloserStep, CloseSeesStartupEnd, CloseChecksDrain, CloseGathers, Drained, ownerVars
<1>5. CASE CloseCancelled
  BY <1>5 DEF CloseCancelled, ownerVars
<1> QED BY <1>1, <1>2, <1>3, <1>4, <1>5, CloserSteps

\* The phases of close() hold in every reachable state.
LEMMA ClosePhasesHold == Spec => []ClosePhases
<1>1. Init => ClosePhases
  BY DEF Init, ClosePhases
<1> QED BY <1>1, ClosePhasesNext, PoolInvariantHolds, LiveHolds, PTL DEF Spec

\* When close() returns, no launch, no browser in service and no running close is left,
\* whatever startup it cancelled and whatever launch arrived late.
THEOREM CloseLeavesNothing == Spec => []CloseReleasesBrowsers
<1>1. ClosePhases => CloseReleasesBrowsers
  BY DEF ClosePhases, CloseReleasesBrowsers
<1> QED BY <1>1, ClosePhasesHold, PTL

-----------------------------------------------------------------------------
(* Nobody sleeps through what it waits for.                                *)

\* A slot that invites a waiting request: it would serve it unless it turns out to be
\* worn, and a worn one that still has contexts would serve it as a fallback.
Inviting(s) == (s.state = "ready" /\ s.active < MaxContexts) \/ SoftRetiringAvailable(s)

\* NoLostWakeup as an inductive invariant: what a sleeping request does not see must not
\* become available by wear alone, which notifies nobody.
SleepersMissNothing ==
    \A r \in Waiting \ notified :
        /\ ~closed
        /\ r \notin outdated
        /\ \A b \in slots : ~Inviting(slot[b])

\* A refresh makes no slot inviting.
LEMMA RefreshInvites ==
    ASSUME NEW s \in SlotRecord, s.state # "closing", Inviting(Refresh(s)) PROVE Inviting(s)
<1>1. Refresh(s).active = s.active /\ s.active \in Int /\ MaxContexts \in Int
  BY RefreshKeeps, PoolAssumption DEF SlotRecord, PoolAssumption
<1>2. CASE Refresh(s).state = "ready" /\ Refresh(s).active < MaxContexts
  BY <1>1, <1>2, RefreshWears DEF Wears, Inviting
<1>3. CASE SoftRetiringAvailable(Refresh(s))
  <2>1. s.state \in {"ready", "retiring"} /\ s.active > 0 /\ s.active < MaxContexts
    BY <1>1, <1>3 DEF SoftRetiringAvailable, SlotRecord
  <2>2. Refresh(s).reason \notin HardReasons
    BY <1>3 DEF SoftRetiringAvailable, SoftReasons, HardReasons
  <2>3. s.browser = "connected"
    BY <2>2, RefreshWears
  <2>4. s.state = "retiring" => Refresh(s) = s
    BY <2>3 DEF Refresh
  <2> QED BY <1>3, <2>1, <2>4 DEF Inviting
<1> QED BY <1>2, <1>3 DEF Inviting

\* Nobody sleeps beside a browser that would serve.
LEMMA ServingIsInviting ==
    ASSUME PoolInvariant
    PROVE  /\ \A b \in InService : Inviting(RefreshedSlot[b]) => Inviting(slot[b])
           /\ CanServe => \E b \in slots : Inviting(slot[b])
           /\ \A b \in InService : Inviting(RefreshedSlot[b]) => CanServe
<1>1. ASSUME NEW b \in InService
      PROVE  /\ b \in slots /\ b \in Browsers
             /\ Inviting(RefreshedSlot[b]) => Inviting(slot[b])
             /\ Inviting(RefreshedSlot[b]) => Serves(b) \/ ServesAsFallback(b)
             /\ Serves(b) \/ ServesAsFallback(b) => Inviting(RefreshedSlot[b])
  <2>1. b \in slots /\ b \in Browsers /\ slot[b] \in SlotRecord /\ slot[b].state # "closing"
    BY SlotsWear DEF PoolInvariant, TypeOK, PoolTypes, BrowserTypes, Ownership, SingleOwner
  <2>2. RefreshedSlot[b] = Refresh(slot[b])
    BY <2>1 DEF RefreshedSlot, InService
  <2>3. RefreshedSlot[b].state = "ready" => ~ShouldRecycle(RefreshedSlot[b])
    BY SlotsWear
  <2> QED BY <2>1, <2>2, <2>3, RefreshInvites
      DEF Inviting, Serves, ServesAsFallback, HealthyAvailable
<1> QED BY <1>1 DEF CanServe, Serves, ServesAsFallback

\* After notify_all nobody sleeps, unless it falls asleep in the same step.
LEMMA NotifiedAll ==
    ASSUME Waiting \subseteq notified', Waiting' \subseteq Waiting PROVE SleepersMissNothing'
BY DEF SleepersMissNothing

\* A step that only takes slots out of service, or wakes, or marks fewer, wakes nobody.
LEMMA Unawakened ==
    ASSUME SleepersMissNothing, Waiting' \ notified' \subseteq Waiting \ notified,
           closed' = closed, outdated' \subseteq outdated, slots' \subseteq slots,
           \A b \in slots' : Inviting(slot'[b]) => Inviting(slot[b])
    PROVE  SleepersMissNothing'
BY DEF SleepersMissNothing

\* Steps of the pool's own tasks: whatever may serve a request is announced.
LEMMA SleepersBackground ==
    PoolInvariant /\ SleepersMissNothing
        /\ (World \/ Launch \/ Startup \/ Upkeep \/ Shutdown \/ UNCHANGED vars)
    => SleepersMissNothing'
<1> SUFFICES ASSUME PoolInvariant, SleepersMissNothing,
                    World \/ Launch \/ Startup \/ Upkeep \/ Shutdown \/ UNCHANGED vars
             PROVE  SleepersMissNothing'
  OBVIOUS
<1>1. Waiting' = Waiting /\ Waiting \subseteq Requests
  BY RequestsUntouched DEF Waiting
<1>2. NotifyAll => SleepersMissNothing'
  BY <1>1, NotifiedAll DEF NotifyAll, Waiters
<1>3. ASSUME UNCHANGED <<outdated, slots, closed>>,
             notified \ {"close"} \subseteq notified',
             \A b \in slots : slot'[b].state = slot[b].state /\ slot'[b].reason = slot[b].reason
                              /\ slot'[b].active = slot[b].active
      PROVE  SleepersMissNothing'
  <2>1. Waiting' \ notified' \subseteq Waiting \ notified
    BY <1>1, <1>3, CloserAssumption DEF CloserAssumption
  <2>2. \A b \in slots : Inviting(slot'[b]) => Inviting(slot[b])
    BY <1>3 DEF Inviting, SoftRetiringAvailable
  <2> QED BY <1>3, <2>1, <2>2, Unawakened
<1> USE DEF PoolInvariant, TypeOK, PoolTypes, BrowserTypes, browserVars, ownerVars, requestVars,
            closeVars
<1>4. ASSUME NEW b \in Browsers, FactoryReturns(b) PROVE SleepersMissNothing'
  <2>1. b \notin slots
    BY <1>4 DEF FactoryReturns, Ownership, LaunchesTracked, SingleOwner
  <2> QED BY <1>3, <1>4, <2>1 DEF FactoryReturns
<1>5. ASSUME NEW b \in Browsers, FactoryRaises(b) PROVE SleepersMissNothing'
  BY <1>3, <1>5 DEF FactoryRaises
<1>6. ASSUME NEW b \in Browsers, BrowserDisconnects(b) \/ BrowserAges(b)
      PROVE  SleepersMissNothing'
  BY <1>3, <1>6 DEF BrowserDisconnects, BrowserAges, SlotRecord
<1>7. CASE Launch
  BY <1>2, <1>7 DEF Launch, LaunchTimesOut, LaunchFails, LaunchSucceeds, AbandonedLaunchEnds
<1>8. CASE Startup
  BY <1>2, <1>3, <1>8 DEF Startup, StartupStep, StartBegins, StartCallersCancel, StartupUnwinds,
       StartupSucceeds, StartupFinishes, StartupCancelledInHandoff, StartupCancelledInRecovery,
       StartupCancelledLaunching, StartupFails, RegisterStartedSlots, RecoverCancelledStart
<1>9. ASSUME NEW b \in Browsers, PhysicalCloseFinishes(b) PROVE SleepersMissNothing'
  <2>1. b \notin slots
    BY <1>9 DEF PhysicalCloseFinishes, Ownership, SingleOwner
  <2> QED BY <1>3, <1>9, <2>1 DEF PhysicalCloseFinishes
<1>10. CASE Upkeep
  BY <1>2, <1>9, <1>10 DEF Upkeep, CloseSlot, RefreshPool, Maintain, CloseSlotSucceeds,
       CloseSlotFails, ReconcileLatePhysicalClose
<1>11. CASE Quiesce \/ CloseBegins
  BY <1>1, <1>2, <1>11, NotifiedAll DEF Quiesce, CloseBegins
<1>12. CASE CloserStep \/ CloseCancelled \/ UNCHANGED vars
  BY <1>3, <1>12 DEF CloserStep, CloseSeesStartupEnd, CloseChecksDrain, CloseGathers,
       CloseCancelled, vars
<1> QED BY <1>4, <1>5, <1>6, <1>7, <1>8, <1>10, <1>11, <1>12 DEF World, Shutdown

\* Steps of requests: one that falls asleep has seen nothing that would serve it, and one
\* that takes a context proves that nobody was asleep.
LEMMA SleepersRequest ==
    PoolInvariant /\ SleepersMissNothing /\ Request => SleepersMissNothing'
<1> SUFFICES ASSUME PoolInvariant, SleepersMissNothing, Request PROVE SleepersMissNothing'
  OBVIOUS
<1> USE DEF PoolInvariant, TypeOK, RequestTypes
<1>1. ASSUME NEW r \in Requests, NEW b \in Browsers, Serves(b) \/ ServesAsFallback(b),
             Grant(r, b)
      PROVE  SleepersMissNothing'
  <2>1. Waiting \ notified = {}
    BY <1>1, ServingIsInviting DEF CanServe, SleepersMissNothing
  <2>2. Waiting' \ notified' = {}
    BY <1>1, <2>1 DEF Grant, LeaveLoop, Waiting
  <2> QED BY <2>2 DEF SleepersMissNothing
<1>2. ASSUME NEW r \in Requests, ~CanServe, ~closed, closed' = closed, r \notin outdated,
             slot' = RefreshedSlot, \E due \in SUBSET Retryable : RefreshOwners(due),
             pc' = [pc EXCEPT ![r] = "waiting"], notified' = notified \ {r}, outdated' = outdated
      PROVE  SleepersMissNothing'
  <2>1. slots' = InService /\ InService \subseteq slots
    BY <1>2, SlotsWear DEF RefreshOwners
  <2>2. \A b \in slots' : ~Inviting(slot'[b])
    BY <1>2, <2>1, ServingIsInviting
  <2>3. \A q \in Waiting' \ notified' : q = r \/ q \in Waiting \ notified
    BY <1>2 DEF Waiting
  <2> QED BY <1>2, <2>2, <2>3 DEF SleepersMissNothing
<1>3. ASSUME NEW r \in Requests, (\E b \in Browsers : AcquireLaunch(r, b)) \/ AcquireWait(r)
      PROVE  SleepersMissNothing'
  BY <1>2, <1>3 DEF AcquireLaunch, AcquireWait, closeVars
<1>4. ASSUME NEW r \in Requests, AcquireAfterFailure(r) PROVE SleepersMissNothing'
  <2>1. slots' = InService /\ InService \subseteq slots /\ slot' = RefreshedSlot
    BY <1>4, SlotsWear DEF AcquireAfterFailure, RefreshOwners
  <2>2. \A b \in slots' : Inviting(slot'[b]) => Inviting(slot[b])
    BY <2>1, ServingIsInviting
  <2>3. /\ Waiting' \ notified' \subseteq Waiting \ notified
        /\ closed' = closed /\ outdated' \subseteq outdated
    BY <1>4 DEF AcquireAfterFailure, AcquireRaises, LeaveLoop, Waiting, closeVars
  <2> QED BY <2>1, <2>2, <2>3, Unawakened
<1>5. ASSUME NEW r \in Requests,
             \/ BeginTransient(r)
             \/ BeginPersistent(r)
             \/ AcquireRejected(r)
             \/ AcquireTimeout(r)
             \/ OpenContext(r)
             \/ \E why \in {"none", "error", "disconnected"} : StartFinalizer(r, why)
             \/ AccountingTaskDone(r)
      PROVE  SleepersMissNothing'
  <2>1. UNCHANGED <<slot, slots, closed>> /\ outdated' \subseteq outdated
    BY <1>5 DEF BeginTransient, BeginPersistent, AcquireRejected, AcquireTimeout, AcquireRaises,
         LeaveLoop, OpenContext, StartFinalizer, AccountingTaskDone, browserVars, ownerVars,
         closeVars
  <2>2. Waiting' \ notified' \subseteq Waiting \ notified
    BY <1>5 DEF BeginTransient, BeginPersistent, AcquireRejected, AcquireTimeout, AcquireRaises,
         LeaveLoop, OpenContext, StartFinalizer, AccountingTaskDone, Waiting
  <2> QED BY <2>1, <2>2, Unawakened
<1>6. ASSUME NEW r \in Requests,
             ReleaseSlot(r) \/ ReleasePersistent(r) \/ NotifyPoolWaiters(r)
      PROVE  SleepersMissNothing'
  <2>1. Waiting' \subseteq Waiting /\ NotifyAll
    BY <1>6 DEF ReleaseSlot, ReleasePersistent, NotifyPoolWaiters, Waiting
  <2> QED BY <2>1, NotifiedAll DEF NotifyAll, Waiters
<1> QED BY <1>1, <1>3, <1>4, <1>5, <1>6
        DEF Request, Acquire, Account, AcquireHealthy, AcquireSoftRetiring

\* Nobody sleeps through what it waits for, in any step.
LEMMA SleepersNext ==
    PoolInvariant /\ SleepersMissNothing /\ [Next]_vars => SleepersMissNothing'
BY SleepersBackground, SleepersRequest DEF Next

\* A sleeping close() is woken whenever the pool drains: the finalizer that leaves last
\* notifies, and every task that gives up a browser does.
LEMMA CloserNext ==
    PoolInvariant /\ ClosePhases /\ CloserNotStranded /\ [Next]_vars => CloserNotStranded'
<1> SUFFICES ASSUME PoolInvariant, ClosePhases, CloserNotStranded, [Next]_vars,
                    closer' = "drain"
             PROVE  Drained' => "close" \in notified'
                                \/ \E r \in Requests : pc'[r] = "notifying"
  BY DEF CloserNotStranded
<1> USE DEF PoolInvariant, TypeOK, RequestTypes
<1>1. CASE closer # "drain"
  BY <1>1, CloserSteps DEF Quiesce, CloseBegins, CloserStep, CloseSeesStartupEnd,
     CloseChecksDrain, CloseGathers, CloseCancelled, closeVars
<1>2. ASSUME closer = "drain" PROVE closed
  BY <1>2 DEF ClosePhases
<1>3. ASSUME closer = "drain", NotifyAll PROVE "close" \in notified'
  BY <1>3 DEF NotifyAll, Waiters
<1>4. ASSUME closer = "drain", UNCHANGED <<slots, create_tasks, create_watchers>>,
             AccountingTasks \subseteq AccountingTasks',
             notified \ Requests \subseteq notified',
             \A r \in Requests : pc[r] = "notifying" => pc'[r] = "notifying"
      PROVE  Drained' => "close" \in notified'
                         \/ \E r \in Requests : pc'[r] = "notifying"
  BY <1>4, CloserAssumption DEF CloserAssumption, CloserNotStranded, Drained
<1>5. ASSUME closer = "drain", UNCHANGED <<slots, create_tasks, create_watchers>>, pc' = pc,
             UNCHANGED notified
      PROVE  Drained' => "close" \in notified'
                         \/ \E r \in Requests : pc'[r] = "notifying"
  BY <1>4, <1>5 DEF AccountingTasks
<1>6. ASSUME closer = "drain", World PROVE UNCHANGED <<ownerVars, requestVars, notified>>
  BY <1>6 DEF World, FactoryReturns, FactoryRaises, BrowserDisconnects, BrowserAges
<1>7. ASSUME closer = "drain", NEW r \in Requests,
             \/ BeginTransient(r)
             \/ BeginPersistent(r)
             \/ AcquireRejected(r)
             \/ AcquireTimeout(r)
             \/ OpenContext(r)
             \/ \E why \in {"none", "error", "disconnected"} : StartFinalizer(r, why)
      PROVE  /\ UNCHANGED ownerVars /\ AccountingTasks \subseteq AccountingTasks'
             /\ notified \ Requests \subseteq notified'
             /\ \A q \in Requests : pc[q] = "notifying" => pc'[q] = "notifying"
  BY <1>7 DEF BeginTransient, BeginPersistent, AcquireRejected, AcquireTimeout, AcquireRaises,
       LeaveLoop, OpenContext, StartFinalizer, Acquiring, AccountingTasks, ownerVars
<1>8. ASSUME closer = "drain", NEW r \in Requests,
             \/ \E b \in Browsers : \/ AcquireHealthy(r, b)
                                    \/ AcquireSoftRetiring(r, b)
                                    \/ AcquireLaunch(r, b)
             \/ AcquireAfterFailure(r)
             \/ AcquireWait(r)
      PROVE  FALSE
  BY <1>2, <1>8 DEF AcquireHealthy, AcquireSoftRetiring, AcquireLaunch, AcquireAfterFailure,
       AcquireWait
<1>9. ASSUME closer = "drain", NEW r \in Requests, AccountingTaskDone(r)
      PROVE  pc'[r] = "notifying"
  BY <1>9 DEF AccountingTaskDone
<1>10. ASSUME closer = "drain", NEW r \in Requests,
              ReleaseSlot(r) \/ ReleasePersistent(r) \/ NotifyPoolWaiters(r)
       PROVE  NotifyAll
  BY <1>10 DEF ReleaseSlot, ReleasePersistent, NotifyPoolWaiters
<1>11. ASSUME closer = "drain", Request
       PROVE  Drained' => "close" \in notified'
                          \/ \E r \in Requests : pc'[r] = "notifying"
  BY <1>3, <1>4, <1>7, <1>8, <1>9, <1>10, <1>11 DEF Request, Acquire, Account, ownerVars
<1>12. ASSUME closer = "drain", Launch \/ Upkeep
       PROVE  NotifyAll \/ UNCHANGED <<ownerVars, requestVars, notified>>
  BY <1>12 DEF Launch, LaunchTimesOut, LaunchFails, LaunchSucceeds, AbandonedLaunchEnds, Upkeep,
       CloseSlot, RefreshPool, Maintain, CloseSlotSucceeds, CloseSlotFails,
       PhysicalCloseFinishes, ReconcileLatePhysicalClose
<1>13. ASSUME closer = "drain", Startup
       PROVE  NotifyAll \/ UNCHANGED <<ownerVars, requestVars, notified>>
  BY <1>2, <1>13 DEF Startup, StartupStep, StartBegins, StartCallersCancel, StartupUnwinds,
       StartupSucceeds, StartupFinishes, StartupCancelledInHandoff, StartupCancelledInRecovery,
       StartupCancelledLaunching, StartupFails, RegisterStartedSlots, RecoverCancelledStart
<1>14. CASE closer = "drain" /\ (Quiesce \/ CloseBegins \/ CloseCancelled)
  BY <1>2, <1>14 DEF Quiesce, CloseBegins, CloseCancelled
<1>15. CASE closer = "drain" /\ CloserStep
  BY <1>15 DEF CloserStep, CloseSeesStartupEnd, CloseChecksDrain, CloseGathers, Drained,
     ownerVars, requestVars, AccountingTasks
<1>16. CASE closer = "drain" /\ UNCHANGED vars
  BY <1>5, <1>16 DEF vars, ownerVars, requestVars
<1>17. CASE closer = "drain"
  <2>1. Next \/ UNCHANGED vars
    OBVIOUS
  <2>2. ASSUME UNCHANGED <<ownerVars, requestVars, notified>>
        PROVE  UNCHANGED <<slots, create_tasks, create_watchers, pc, notified>>
    BY <2>2 DEF ownerVars, requestVars
  <2> QED BY <1>3, <1>5, <1>6, <1>11, <1>12, <1>13, <1>14, <1>15, <1>16, <1>17, <2>1, <2>2
          DEF Next, Shutdown
<1> QED BY <1>1, <1>17

\* Neither a request asleep on the condition nor a close() asleep on it misses what it
\* waits for: every change that could serve them is followed by a notify_all.
THEOREM NobodySleepsThrough == Spec => []NobodyStranded
<1>1. Init => SleepersMissNothing /\ CloserNotStranded
  BY DEF Init, SleepersMissNothing, CloserNotStranded, Waiting
<1>2. PoolInvariant /\ SleepersMissNothing => NoLostWakeup
  BY DEF SleepersMissNothing, NoLostWakeup, Inviting, HealthyAvailable
<1>3. PoolInvariant /\ SleepersMissNothing /\ CloserNotStranded => NobodyStranded
  BY <1>2 DEF NobodyStranded
<1>4. Spec => []SleepersMissNothing
  BY <1>1, SleepersNext, PoolInvariantHolds, PTL DEF Spec
<1>5. Spec => []CloserNotStranded
  BY <1>1, CloserNext, PoolInvariantHolds, ClosePhasesHold, PTL DEF Spec
<1> QED BY <1>3, <1>4, <1>5, PoolInvariantHolds, PTL
=============================================================================
