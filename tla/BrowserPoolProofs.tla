-------------------------- MODULE BrowserPoolProofs --------------------------
(***************************************************************************)
(* Theorems about BrowserPool, for every number of browsers and requests   *)
(* and every setting config.py accepts: type correctness, the ownership    *)
(* of browser processes, and the counters' agreement with the reservations *)
(* that exist, which make up the inductive invariant of BrowserPool, with  *)
(* what follows from it at once, the limits on contexts included.          *)
(***************************************************************************)
EXTENDS BrowserPool, FiniteSetTheorems, TLAPS

-----------------------------------------------------------------------------
(* Operators on one slot stay among the values of a BrowserSlot.           *)

\* The settings the counters of a slot are bounded by.
LEMMA SlotBounds ==
    /\ 0 \in 0 .. MaxUses
    /\ 0 \in 0 .. MaxCloseRetries
    /\ \A n \in 0 .. MaxUses : (IF n < MaxUses THEN n + 1 ELSE n) \in 0 .. MaxUses
    /\ \A n \in 0 .. MaxCloseRetries :
         (IF n < MaxCloseRetries THEN n + 1 ELSE n) \in 0 .. MaxCloseRetries
BY PoolAssumption DEF PoolAssumption

\* A fresh slot and what is left of a closed one are slot values.
LEMMA SlotConstants == NewSlot \in SlotRecord /\ DroppedSlot \in SlotRecord
<1>1. NewSlot \in SlotRecord
  BY SlotBounds DEF NewSlot, SlotRecord
<1>2. DroppedSlot \in SlotRecord
  BY <1>1 DEF DroppedSlot, SlotRecord
<1> QED BY <1>1, <1>2

\* _recycle_reason names a soft reason whenever _should_recycle holds.
LEMMA RecycleReasonType == ASSUME NEW s PROVE RecycleReason(s) \in SoftReasons
BY DEF RecycleReason, SoftReasons

\* _mark_retiring_unlocked only changes the state and the reason.
LEMMA MarkRetiringType ==
    ASSUME NEW s \in SlotRecord, NEW why \in SoftReasons \cup HardReasons
    PROVE  MarkRetiring(s, why) \in SlotRecord
BY DEF MarkRetiring, SlotRecord

\* A slot that starts closing is a slot value.
LEMMA ClosingType == ASSUME NEW s \in SlotRecord PROVE Closing(s) \in SlotRecord
BY SlotBounds DEF Closing, SlotRecord

\* _refresh_recycling_unlocked yields a slot value.
LEMMA RefreshType == ASSUME NEW s \in SlotRecord PROVE Refresh(s) \in SlotRecord
<1>1. \A t \in SlotRecord, why \in SoftReasons \cup HardReasons :
          MarkRetiring(t, why) \in SlotRecord
  BY MarkRetiringType
<1>2. "disconnected" \in SoftReasons \cup HardReasons
  BY DEF HardReasons
<1>3. \A t : RecycleReason(t) \in SoftReasons \cup HardReasons
  BY RecycleReasonType
<1> QED BY <1>1, <1>2, <1>3 DEF Refresh

\* _reserve_slot_unlocked yields a slot value.
LEMMA ReserveType == ASSUME NEW s \in SlotRecord PROVE Reserve(s) \in SlotRecord
<1> DEFINE t == [s EXCEPT !.active = @ + 1, !.uses = IF @ < MaxUses THEN @ + 1 ELSE @]
<1>1. t \in SlotRecord
  <2>1. (IF s.uses < MaxUses THEN s.uses + 1 ELSE s.uses) \in 0 .. MaxUses
    BY SlotBounds DEF SlotRecord
  <2>2. s.active + 1 \in Int
    BY DEF SlotRecord
  <2> QED BY <2>1, <2>2 DEF SlotRecord
<1>2. RecycleReason(t) \in SoftReasons \cup HardReasons
  BY RecycleReasonType
<1>3. MarkRetiring(t, RecycleReason(t)) \in SlotRecord
  BY <1>1, <1>2, MarkRetiringType
<1> QED BY <1>1, <1>3 DEF Reserve

\* _release_slot yields a slot value.
LEMMA ReleasedType ==
    ASSUME NEW s \in SlotRecord, NEW why \in {"none", "error", "disconnected"}
    PROVE  Released(s, why) \in SlotRecord
<1> DEFINE t == [s EXCEPT !.active = @ - 1]
<1>1. t \in SlotRecord
  BY DEF SlotRecord
<1>2. RecycleReason(t) \in SoftReasons \cup HardReasons
  BY RecycleReasonType
<1>3. MarkRetiring(t, RecycleReason(t)) \in SlotRecord
  BY <1>1, <1>2, MarkRetiringType
<1>4. why # "none" => MarkRetiring(t, why) \in SlotRecord
  BY <1>1, MarkRetiringType DEF HardReasons
<1> QED BY <1>1, <1>3, <1>4 DEF Released

\* The refresh of a whole pool keeps its slots slot values.
LEMMA RefreshedSlotType ==
    ASSUME BrowserTypes PROVE RefreshedSlot \in [Browsers -> SlotRecord]
<1>1. \A s \in SlotRecord : Refresh(s) \in SlotRecord /\ Closing(s) \in SlotRecord
  BY RefreshType, ClosingType
<1> QED BY <1>1 DEF RefreshedSlot, BrowserTypes

-----------------------------------------------------------------------------
(* Type correctness.                                                       *)

\* The empty pool is well typed.
LEMMA TypeInit == Init => TypeOK
<1> SUFFICES ASSUME Init PROVE TypeOK
  OBVIOUS
<1>1. BrowserTypes
  BY SlotConstants DEF Init, BrowserTypes
<1>2. PoolTypes
  BY DEF Init, PoolTypes
<1>3. RequestTypes
  BY DEF Init, RequestTypes
<1>4. StartTypes
  BY DEF Init, StartTypes
<1> QED BY <1>1, <1>2, <1>3, <1>4 DEF TypeOK

\* The browsers and their launches keep their shape in every step.
LEMMA BrowserTypesNext == TypeOK /\ [Next]_vars => BrowserTypes'
<1> SUFFICES ASSUME TypeOK, [Next]_vars PROVE BrowserTypes'
  OBVIOUS
<1> USE DEF TypeOK
<1>1. \A s \in SlotRecord : Closing(s) \in SlotRecord /\ Reserve(s) \in SlotRecord
  BY ClosingType, ReserveType
<1>2. \A s \in SlotRecord : \A why \in {"disconnected", "error", "shutdown"} :
          MarkRetiring(s, why) \in SlotRecord
  BY MarkRetiringType DEF HardReasons
<1>3. RefreshedSlot \in [Browsers -> SlotRecord]
  BY RefreshedSlotType
<1>4. \A new : StartCreateTasks(new) =>
          factory' \in [Browsers -> {"none", "running", "returned", "raised"}]
  BY DEF StartCreateTasks, BrowserTypes
<1>5. CASE UNCHANGED browserVars
  BY <1>5 DEF browserVars, BrowserTypes
<1>6. CASE World
  <2>1. ASSUME NEW b \in Browsers, FactoryReturns(b) PROVE BrowserTypes'
    BY <2>1, SlotConstants DEF FactoryReturns, BrowserTypes
  <2>2. ASSUME NEW b \in Browsers, FactoryRaises(b) PROVE BrowserTypes'
    BY <2>2 DEF FactoryRaises, BrowserTypes
  <2>3. ASSUME NEW b \in Browsers, BrowserDisconnects(b) PROVE BrowserTypes'
    <3>1. [slot[b] EXCEPT !.browser = "disconnected"] \in SlotRecord
      BY DEF BrowserTypes, SlotRecord
    <3> QED BY <2>3, <3>1 DEF BrowserDisconnects, BrowserTypes
  <2>4. ASSUME NEW b \in Browsers, BrowserAges(b) PROVE BrowserTypes'
    <3>1. [slot[b] EXCEPT !.aged = TRUE] \in SlotRecord
      BY DEF BrowserTypes, SlotRecord
    <3> QED BY <2>4, <3>1 DEF BrowserAges, BrowserTypes
  <2> QED BY <1>6, <2>1, <2>2, <2>3, <2>4 DEF World
<1>7. ASSUME NEW r \in Requests, Acquire(r) PROVE BrowserTypes'
  <2>1. ASSUME NEW b \in Browsers, Grant(r, b) PROVE BrowserTypes'
    BY <2>1, <1>1, <1>3 DEF Grant, BrowserTypes
  <2>2. ASSUME NEW b \in Browsers, AcquireLaunch(r, b) PROVE BrowserTypes'
    BY <2>2, <1>3, <1>4 DEF AcquireLaunch, BrowserTypes
  <2>3. CASE AcquireRejected(r)
    BY <2>3, <1>5 DEF AcquireRejected
  <2>4. CASE AcquireAfterFailure(r) \/ AcquireWait(r)
    BY <2>4, <1>3 DEF AcquireAfterFailure, AcquireWait, BrowserTypes
  <2> QED BY <1>7, <2>1, <2>2, <2>3, <2>4 DEF Acquire, AcquireHealthy, AcquireSoftRetiring
<1>8. ASSUME NEW r \in Requests, ReleaseSlot(r) PROVE BrowserTypes'
  <2> DEFINE s == Released(slot[held[r]], discard[r])
  <2>1. slot' = [slot EXCEPT ![held[r]] = IF s.state = "retiring" /\ s.active = 0
                                          THEN Closing(s) ELSE s]
    BY <1>8 DEF ReleaseSlot
  <2>2. CASE held[r] \in Browsers
    <3>1. s \in SlotRecord
      BY <2>2, ReleasedType DEF BrowserTypes, RequestTypes
    <3>2. Closing(s) \in SlotRecord
      BY <3>1, ClosingType
    <3> QED BY <1>8, <2>1, <3>1, <3>2 DEF ReleaseSlot, BrowserTypes
  <2>3. CASE held[r] \notin Browsers
    BY <1>8, <2>1, <2>3 DEF ReleaseSlot, BrowserTypes
  <2> QED BY <2>2, <2>3
<1>9. CASE Request
  <2>1. ASSUME NEW r \in Requests,
               \/ BeginTransient(r)
               \/ BeginPersistent(r)
               \/ AcquireTimeout(r)
               \/ OpenContext(r)
               \/ \E why \in {"none", "error", "disconnected"} : StartFinalizer(r, why)
        PROVE  UNCHANGED browserVars
    BY <2>1 DEF BeginTransient, BeginPersistent, AcquireTimeout, OpenContext, StartFinalizer
  <2>2. ASSUME NEW r \in Requests,
               ReleasePersistent(r) \/ AccountingTaskDone(r) \/ NotifyPoolWaiters(r)
        PROVE  UNCHANGED browserVars
    BY <2>2 DEF ReleasePersistent, AccountingTaskDone, NotifyPoolWaiters
  <2> QED BY <1>5, <1>7, <1>8, <1>9, <2>1, <2>2 DEF Request, Account
<1>10. CASE Launch
  <2>1. ASSUME NEW b \in Browsers, LaunchTimesOut(b) PROVE BrowserTypes'
    BY <2>1, <1>5 DEF LaunchTimesOut
  <2>2. ASSUME NEW b \in Browsers, LaunchFails(b) PROVE BrowserTypes'
    BY <2>2 DEF LaunchFails, BrowserTypes
  <2>3. ASSUME NEW b \in Browsers, LaunchSucceeds(b) PROVE BrowserTypes'
    BY <2>3, <1>1 DEF LaunchSucceeds, BrowserTypes
  <2>4. ASSUME NEW b \in Browsers, AbandonedLaunchEnds(b) PROVE BrowserTypes'
    BY <2>4, <1>1 DEF AbandonedLaunchEnds, BrowserTypes
  <2> QED BY <1>10, <2>1, <2>2, <2>3, <2>4 DEF Launch
<1>11. CASE Startup
  <2>1. ASSUME NEW new \in SUBSET Browsers, StartBegins(new) PROVE BrowserTypes'
    BY <2>1, <1>4 DEF StartBegins, BrowserTypes
  <2>2. CASE \/ StartCallersCancel
             \/ StartupUnwinds
             \/ StartupSucceeds
             \/ StartupFinishes
             \/ StartupCancelledInHandoff
             \/ StartupCancelledInRecovery
    BY <2>2, <1>5 DEF StartCallersCancel, StartupUnwinds, StartupSucceeds, StartupFinishes,
                      StartupCancelledInHandoff, StartupCancelledInRecovery
  <2>3. CASE StartupCancelledLaunching
    BY <2>3 DEF StartupCancelledLaunching, BrowserTypes
  <2>4. CASE StartupFails
    BY <2>4, <1>1 DEF StartupFails, BrowserTypes
  <2>5. CASE RegisterStartedSlots
    BY <2>5, <1>1 DEF RegisterStartedSlots, BrowserTypes
  <2>6. CASE RecoverCancelledStart
    BY <2>6, <1>1, <1>2 DEF RecoverCancelledStart, BrowserTypes
  <2> QED BY <1>11, <2>1, <2>2, <2>3, <2>4, <2>5, <2>6 DEF Startup, StartupStep
<1>12. CASE Upkeep
  <2>1. ASSUME NEW due \in SUBSET Browsers, RefreshPool(due) PROVE BrowserTypes'
    BY <2>1, <1>3 DEF RefreshPool, BrowserTypes
  <2>2. ASSUME NEW due \in SUBSET Browsers, NEW new \in SUBSET Browsers, Maintain(due, new)
        PROVE  BrowserTypes'
    BY <2>2, <1>3, <1>4 DEF Maintain, BrowserTypes
  <2>3. ASSUME NEW b \in Browsers, NEW new \in SUBSET Browsers, CloseSlotSucceeds(b, new)
        PROVE  BrowserTypes'
    BY <2>3, <1>4, SlotConstants DEF CloseSlotSucceeds, BrowserTypes
  <2>4. ASSUME NEW b \in Browsers, NEW new \in SUBSET Browsers, CloseSlotFails(b, new)
        PROVE  BrowserTypes'
    <3>1. (IF slot[b].failures < MaxCloseRetries THEN slot[b].failures + 1
           ELSE slot[b].failures) \in 0 .. MaxCloseRetries
      BY SlotBounds DEF BrowserTypes, SlotRecord
    <3>2. slot' \in [Browsers -> SlotRecord]
      BY <2>4, <3>1 DEF CloseSlotFails, BrowserTypes, SlotRecord
    <3> QED BY <2>4, <3>2, <1>4 DEF CloseSlotFails, BrowserTypes
  <2>5. ASSUME NEW b \in Browsers, PhysicalCloseFinishes(b) PROVE BrowserTypes'
    BY <2>5 DEF PhysicalCloseFinishes, BrowserTypes, SlotRecord
  <2>6. ASSUME NEW b \in Browsers, ReconcileLatePhysicalClose(b) PROVE BrowserTypes'
    BY <2>6, SlotConstants DEF ReconcileLatePhysicalClose, BrowserTypes
  <2> QED BY <1>12, <2>1, <2>2, <2>3, <2>4, <2>5, <2>6 DEF Upkeep, CloseSlot
<1>13. CASE Shutdown
  <2>1. ASSUME NEW retried, ShutDownSlots(retried), UNCHANGED factory PROVE BrowserTypes'
    BY <2>1, <1>1, <1>2 DEF ShutDownSlots, BrowserTypes
  <2>2. CASE CloserStep \/ CloseCancelled
    BY <2>2, <1>5 DEF CloserStep, CloseSeesStartupEnd, CloseChecksDrain, CloseGathers,
                      CloseCancelled
  <2> QED BY <1>13, <2>1, <2>2 DEF Shutdown, Quiesce, CloseBegins
<1>14. CASE UNCHANGED vars
  BY <1>14, <1>5 DEF vars
<1> QED BY <1>6, <1>9, <1>10, <1>11, <1>12, <1>13, <1>14 DEF Next

\* The pool's sets hold browsers and its wait set holds callers, in every step.
LEMMA PoolTypesNext == TypeOK /\ Holding /\ [Next]_vars => PoolTypes'
<1> SUFFICES ASSUME TypeOK, Holding, [Next]_vars PROVE PoolTypes'
  OBVIOUS
<1> USE DEF TypeOK, PoolTypes
<1>1. InService \subseteq Browsers /\ Reaped \subseteq Browsers
  BY DEF InService, Reaped
<1>2. Retryable \subseteq Browsers /\ Waiting \subseteq Requests
  BY DEF Retryable, Waiting
<1>3. \A due \in SUBSET Browsers : RefreshOwners(due) =>
          /\ slots' \subseteq Browsers
          /\ close_tasks' \subseteq Browsers
          /\ failed_close_slots' \subseteq Browsers
  BY <1>1 DEF RefreshOwners
<1>4. \A new \in SUBSET Browsers : StartCreateTasks(new) => create_tasks' \subseteq Browsers
  BY DEF StartCreateTasks
<1>5. NotifyAll => notified' \subseteq Requests \cup {"close"}
  BY <1>2 DEF NotifyAll, Waiters
<1>6. CASE UNCHANGED <<ownerVars, countVars, notified>>
  BY <1>6 DEF ownerVars, countVars
<1>7. CASE World
  BY <1>6, <1>7 DEF World, FactoryReturns, FactoryRaises, BrowserDisconnects, BrowserAges
<1>8. ASSUME NEW r \in Requests, Acquire(r) PROVE PoolTypes'
  <2>1. ASSUME NEW b \in Browsers, Grant(r, b) PROVE PoolTypes'
    BY <2>1, <1>2, <1>3 DEF Grant, LeaveLoop
  <2>2. ASSUME NEW b \in Browsers, AcquireLaunch(r, b) PROVE PoolTypes'
    BY <2>2, <1>2, <1>3, <1>4 DEF AcquireLaunch, countVars
  <2>3. CASE AcquireRejected(r)
    BY <2>3 DEF AcquireRejected, AcquireRaises, LeaveLoop, ownerVars, countVars
  <2>4. CASE AcquireAfterFailure(r)
    BY <2>4, <1>2, <1>3 DEF AcquireAfterFailure, AcquireRaises, LeaveLoop, countVars
  <2>5. CASE AcquireWait(r)
    BY <2>5, <1>2, <1>3 DEF AcquireWait, countVars
  <2> QED BY <1>8, <2>1, <2>2, <2>3, <2>4, <2>5 DEF Acquire, AcquireHealthy, AcquireSoftRetiring
<1>9. ASSUME NEW r \in Requests, ReleaseSlot(r) PROVE PoolTypes'
  <2>1. pc[r] = "finalizing" /\ NotifyAll
        /\ UNCHANGED <<create_tasks, create_watchers, failed_close_slots, persistent_contexts>>
    BY <1>9 DEF ReleaseSlot
  <2>2. transient_contexts' \in Int
    BY <1>9 DEF ReleaseSlot
  <2>3. slots' \subseteq slots /\ close_tasks' \subseteq close_tasks \cup {held[r]}
    BY <1>9 DEF ReleaseSlot
  <2>4. held[r] \in Browsers
    BY <2>1 DEF Holding, RequestTypes
  <2> QED BY <1>5, <2>1, <2>2, <2>3, <2>4
<1>10. CASE Request
  <2>1. ASSUME NEW r \in Requests, BeginPersistent(r) PROVE PoolTypes'
    BY <2>1 DEF BeginPersistent, ownerVars
  <2>2. ASSUME NEW r \in Requests, AcquireTimeout(r) PROVE PoolTypes'
    BY <2>2 DEF AcquireTimeout, AcquireRaises, LeaveLoop, ownerVars, countVars
  <2>3. ASSUME NEW r \in Requests, ReleasePersistent(r) \/ NotifyPoolWaiters(r) PROVE PoolTypes'
    BY <2>3, <1>5 DEF ReleasePersistent, NotifyPoolWaiters, ownerVars, countVars
  <2>4. ASSUME NEW r \in Requests,
               \/ BeginTransient(r)
               \/ OpenContext(r)
               \/ \E why \in {"none", "error", "disconnected"} : StartFinalizer(r, why)
               \/ AccountingTaskDone(r)
        PROVE  UNCHANGED <<ownerVars, countVars, notified>>
    BY <2>4 DEF BeginTransient, OpenContext, StartFinalizer, AccountingTaskDone
  <2> QED BY <1>6, <1>8, <1>9, <1>10, <2>1, <2>2, <2>3, <2>4 DEF Request, Account
<1>11. CASE Launch
  BY <1>11, <1>5 DEF Launch, LaunchTimesOut, LaunchFails, LaunchSucceeds, AbandonedLaunchEnds,
                     countVars
<1>12. CASE Startup
  <2>1. ASSUME NEW new \in SUBSET Browsers, StartBegins(new) PROVE PoolTypes'
    BY <2>1, <1>4 DEF StartBegins, countVars
  <2>2. CASE \/ StartCallersCancel
             \/ StartupUnwinds
             \/ StartupSucceeds
             \/ StartupFinishes
             \/ StartupCancelledInHandoff
             \/ StartupCancelledInRecovery
    BY <2>2, <1>6 DEF StartCallersCancel, StartupUnwinds, StartupSucceeds, StartupFinishes,
                      StartupCancelledInHandoff, StartupCancelledInRecovery
  <2>3. CASE StartupCancelledLaunching
    BY <2>3, <1>5 DEF StartupCancelledLaunching, countVars
  <2>4. CASE StartupFails
    BY <2>4, <1>5 DEF StartupFails, StartTypes, countVars
  <2>5. CASE RegisterStartedSlots
    BY <2>5, <1>5 DEF RegisterStartedSlots, StartTypes, countVars
  <2>6. CASE RecoverCancelledStart
    BY <2>6, <1>5 DEF RecoverCancelledStart, StartTypes, countVars
  <2> QED BY <1>12, <2>1, <2>2, <2>3, <2>4, <2>5, <2>6 DEF Startup, StartupStep
<1>13. CASE Upkeep
  <2>1. ASSUME NEW due \in SUBSET Browsers, RefreshPool(due) PROVE PoolTypes'
    BY <2>1, <1>3, <1>5 DEF RefreshPool, countVars
  <2>2. ASSUME NEW due \in SUBSET Browsers, NEW new \in SUBSET Browsers, Maintain(due, new)
        PROVE  PoolTypes'
    BY <2>2, <1>3, <1>4, <1>5 DEF Maintain, countVars
  <2>3. ASSUME NEW b \in Browsers, NEW new \in SUBSET Browsers,
               CloseSlotSucceeds(b, new) \/ CloseSlotFails(b, new)
        PROVE  PoolTypes'
    BY <2>3, <1>4, <1>5 DEF CloseSlotSucceeds, CloseSlotFails, countVars
  <2>4. ASSUME NEW b \in Browsers, PhysicalCloseFinishes(b) PROVE PoolTypes'
    BY <2>4, <1>6 DEF PhysicalCloseFinishes
  <2>5. ASSUME NEW b \in Browsers, ReconcileLatePhysicalClose(b) PROVE PoolTypes'
    BY <2>5, <1>5 DEF ReconcileLatePhysicalClose, countVars
  <2> QED BY <1>13, <2>1, <2>2, <2>3, <2>4, <2>5 DEF Upkeep, CloseSlot
<1>14. CASE Shutdown
  <2>1. CASE Quiesce
    BY <2>1, <1>5 DEF Quiesce, ShutDownSlots, Idle, countVars
  <2>2. CASE CloseBegins
    BY <2>2, <1>2 DEF CloseBegins, ShutDownSlots, Idle, countVars
  <2>3. CASE CloserStep \/ CloseCancelled
    BY <2>3 DEF CloserStep, CloseSeesStartupEnd, CloseChecksDrain, CloseGathers,
                CloseCancelled, ownerVars, countVars
  <2> QED BY <1>14, <2>1, <2>2, <2>3 DEF Shutdown
<1>15. CASE UNCHANGED vars
  BY <1>15, <1>6 DEF vars
<1> QED BY <1>7, <1>10, <1>11, <1>12, <1>13, <1>14, <1>15 DEF Next

\* Only requests move requests; a failed launch only marks them outdated.
LEMMA RequestsUntouched ==
    ASSUME World \/ Launch \/ Startup \/ Upkeep \/ Shutdown \/ UNCHANGED vars
    PROVE  /\ UNCHANGED <<pc, kind, held, discard, launched>>
           /\ outdated' = outdated \/ outdated' \subseteq Requests
<1> USE DEF requestVars
<1>1. CASE World
  BY <1>1 DEF World, FactoryReturns, FactoryRaises, BrowserDisconnects, BrowserAges
<1>2. CASE Launch
  BY <1>2 DEF Launch, LaunchTimesOut, LaunchFails, LaunchSucceeds, AbandonedLaunchEnds
<1>3. CASE Startup
  BY <1>3 DEF Startup, StartupStep, StartBegins, StartCallersCancel, StartupUnwinds,
       StartupSucceeds, StartupFinishes, StartupCancelledInHandoff, StartupCancelledInRecovery,
       StartupCancelledLaunching, StartupFails, RegisterStartedSlots, RecoverCancelledStart
<1>4. CASE Upkeep
  BY <1>4 DEF Upkeep, CloseSlot, RefreshPool, Maintain, CloseSlotSucceeds,
       CloseSlotFails, PhysicalCloseFinishes, ReconcileLatePhysicalClose
<1>5. CASE Shutdown
  BY <1>5 DEF Shutdown, Quiesce, CloseBegins, CloserStep, CloseSeesStartupEnd,
       CloseChecksDrain, CloseGathers, CloseCancelled
<1>6. CASE UNCHANGED vars
  BY <1>6 DEF vars
<1> QED BY <1>1, <1>2, <1>3, <1>4, <1>5, <1>6

\* Requests keep their shape in every step.
LEMMA RequestTypesNext == TypeOK /\ [Next]_vars => RequestTypes'
<1> SUFFICES ASSUME TypeOK, [Next]_vars PROVE RequestTypes'
  OBVIOUS
<1> USE DEF TypeOK, RequestTypes
<1>1. CASE World \/ Launch \/ Startup \/ Upkeep \/ Shutdown \/ UNCHANGED vars
  BY <1>1, RequestsUntouched
<1>2. ASSUME NEW r \in Requests, Acquire(r) PROVE RequestTypes'
  <2>1. ASSUME NEW b \in Browsers, Grant(r, b) PROVE RequestTypes'
    BY <2>1 DEF Grant, LeaveLoop
  <2>2. ASSUME NEW b \in Browsers, AcquireLaunch(r, b) PROVE RequestTypes'
    BY <2>2 DEF AcquireLaunch
  <2>3. CASE AcquireRejected(r) \/ AcquireAfterFailure(r)
    BY <2>3 DEF AcquireRejected, AcquireAfterFailure, AcquireRaises, LeaveLoop
  <2>4. CASE AcquireWait(r)
    BY <2>4 DEF AcquireWait
  <2> QED BY <1>2, <2>1, <2>2, <2>3, <2>4 DEF Acquire, AcquireHealthy, AcquireSoftRetiring
<1>3. CASE Request
  <2>1. ASSUME NEW r \in Requests, BeginTransient(r) \/ BeginPersistent(r) PROVE RequestTypes'
    BY <2>1 DEF BeginTransient, BeginPersistent
  <2>2. ASSUME NEW r \in Requests, AcquireTimeout(r) PROVE RequestTypes'
    BY <2>2 DEF AcquireTimeout, AcquireRaises, LeaveLoop
  <2>3. ASSUME NEW r \in Requests, OpenContext(r) PROVE RequestTypes'
    BY <2>3 DEF OpenContext
  <2>4. ASSUME NEW r \in Requests, NEW why \in {"none", "error", "disconnected"},
               StartFinalizer(r, why)
        PROVE  RequestTypes'
    BY <2>4 DEF StartFinalizer
  <2>5. ASSUME NEW r \in Requests, ReleaseSlot(r) PROVE RequestTypes'
    BY <2>5 DEF ReleaseSlot
  <2>6. ASSUME NEW r \in Requests,
               ReleasePersistent(r) \/ AccountingTaskDone(r) \/ NotifyPoolWaiters(r)
        PROVE  RequestTypes'
    BY <2>6 DEF ReleasePersistent, AccountingTaskDone, NotifyPoolWaiters
  <2> QED BY <1>2, <1>3, <2>1, <2>2, <2>3, <2>4, <2>5, <2>6 DEF Request, Account
<1> QED BY <1>1, <1>3 DEF Next

\* The startup and the shutdown keep their shape in every step.
LEMMA StartTypesNext == TypeOK /\ [Next]_vars => StartTypes'
<1> SUFFICES ASSUME TypeOK, [Next]_vars PROVE StartTypes'
  OBVIOUS
<1> USE DEF TypeOK, StartTypes
<1>1. CASE UNCHANGED <<startVars, closeVars>>
  BY <1>1 DEF startVars, closeVars
<1>2. CASE World
  BY <1>1, <1>2 DEF World, FactoryReturns, FactoryRaises, BrowserDisconnects, BrowserAges
<1>3. CASE Request
  <2>1. ASSUME NEW r \in Requests, Acquire(r) PROVE UNCHANGED <<startVars, closeVars>>
    BY <2>1 DEF Acquire, AcquireHealthy, AcquireSoftRetiring, Grant, AcquireLaunch,
                AcquireRejected, AcquireAfterFailure, AcquireWait
  <2>2. ASSUME NEW r \in Requests, Account(r) PROVE UNCHANGED <<startVars, closeVars>>
    BY <2>2 DEF Account, ReleaseSlot, ReleasePersistent, AccountingTaskDone, NotifyPoolWaiters
  <2> QED BY <1>1, <1>3, <2>1, <2>2 DEF Request, BeginTransient, BeginPersistent,
             AcquireTimeout, OpenContext, StartFinalizer
<1>4. CASE Launch
  BY <1>1, <1>4 DEF Launch, LaunchTimesOut, LaunchFails, LaunchSucceeds, AbandonedLaunchEnds
<1>5. CASE Startup
  <2>1. ASSUME NEW new \in SUBSET Browsers, StartBegins(new) PROVE StartTypes'
    BY <2>1 DEF StartBegins, closeVars
  <2>2. CASE StartCallersCancel
    BY <2>2 DEF StartCallersCancel, closeVars
  <2>3. CASE StartupCancelledLaunching
    BY <2>3 DEF StartupCancelledLaunching, closeVars
  <2>4. CASE StartupFails
    BY <2>4 DEF StartupFails, closeVars
  <2>5. CASE StartupUnwinds
    BY <2>5 DEF StartupUnwinds, closeVars
  <2>6. CASE StartupSucceeds
    BY <2>6 DEF StartupSucceeds, closeVars
  <2>7. CASE RegisterStartedSlots
    BY <2>7 DEF RegisterStartedSlots, closeVars
  <2>8. CASE StartupFinishes
    BY <2>8 DEF StartupFinishes, closeVars
  <2>9. CASE StartupCancelledInHandoff
    BY <2>9 DEF StartupCancelledInHandoff, closeVars
  <2>10. CASE StartupCancelledInRecovery
    BY <2>10 DEF StartupCancelledInRecovery, closeVars
  <2>11. CASE RecoverCancelledStart
    BY <2>11 DEF RecoverCancelledStart, closeVars
  <2> QED BY <1>5, <2>1, <2>2, <2>3, <2>4, <2>5, <2>6,
             <2>7, <2>8, <2>9, <2>10, <2>11 DEF Startup, StartupStep
<1>6. CASE Upkeep
  <2>1. ASSUME NEW due \in SUBSET Browsers, RefreshPool(due) PROVE StartTypes'
    BY <1>1, <2>1 DEF RefreshPool
  <2>2. ASSUME NEW due \in SUBSET Browsers, NEW new \in SUBSET Browsers, Maintain(due, new)
        PROVE  StartTypes'
    BY <1>1, <2>2 DEF Maintain
  <2>3. ASSUME NEW b \in Browsers, NEW new \in SUBSET Browsers, CloseSlotSucceeds(b, new)
        PROVE  StartTypes'
    BY <1>1, <2>3 DEF CloseSlotSucceeds
  <2>4. ASSUME NEW b \in Browsers, NEW new \in SUBSET Browsers, CloseSlotFails(b, new)
        PROVE  StartTypes'
    BY <1>1, <2>4 DEF CloseSlotFails
  <2>5. ASSUME NEW b \in Browsers, PhysicalCloseFinishes(b) \/ ReconcileLatePhysicalClose(b)
        PROVE  StartTypes'
    BY <1>1, <2>5 DEF PhysicalCloseFinishes, ReconcileLatePhysicalClose
  <2> QED BY <1>6, <2>1, <2>2, <2>3, <2>4, <2>5 DEF Upkeep, CloseSlot
<1>7. CASE Shutdown
  <2>1. CASE Quiesce
    BY <2>1 DEF Quiesce, ShutDownSlots, startVars
  <2>2. CASE CloseBegins
    <3>1. closed' = TRUE /\ UNCHANGED <<started, starting, startup, startup_tasks,
                                       registration, recovery>>
      BY <2>2 DEF CloseBegins, ShutDownSlots
    <3>2. startup_cancelled' \in BOOLEAN /\ closer' \in {"startup", "drain"}
      BY <2>2 DEF CloseBegins
    <3> QED BY <3>1, <3>2
  <2>3. CASE CloseSeesStartupEnd
    BY <2>3 DEF CloseSeesStartupEnd, startVars
  <2>4. CASE CloseChecksDrain
    BY <2>4 DEF CloseChecksDrain, startVars
  <2>5. CASE CloseGathers
    BY <2>5 DEF CloseGathers, startVars
  <2>6. CASE CloseCancelled
    BY <2>6 DEF CloseCancelled, startVars
  <2> QED BY <1>7, <2>1, <2>2, <2>3, <2>4, <2>5, <2>6 DEF Shutdown, CloserStep
<1>8. CASE UNCHANGED vars
  BY <1>8, <1>1 DEF vars
<1> QED BY <1>2, <1>3, <1>4, <1>5, <1>6, <1>7, <1>8 DEF Next

\* A request has a reservation exactly from its grant to its release.
LEMMA HoldingNext == TypeOK /\ Holding /\ [Next]_vars => Holding'
<1> SUFFICES ASSUME TypeOK, Holding, [Next]_vars PROVE Holding'
  OBVIOUS
<1> USE DEF TypeOK, RequestTypes, Holding
<1>1. ASSUME NEW r \in Requests, Acquire(r) PROVE Holding'
  <2> USE DEF Acquiring
  <2>1. ASSUME NEW b \in Browsers, Acquiring(r), Grant(r, b) PROVE Holding'
    BY <2>1, PoolAssumption DEF Grant, LeaveLoop, PoolAssumption
  <2>2. ASSUME NEW b \in Browsers, AcquireLaunch(r, b) PROVE Holding'
    BY <2>2 DEF AcquireLaunch
  <2>3. CASE AcquireRejected(r) \/ AcquireAfterFailure(r)
    BY <2>3 DEF AcquireRejected, AcquireAfterFailure, AcquireRaises, LeaveLoop
  <2>4. CASE AcquireWait(r)
    BY <2>4 DEF AcquireWait
  <2> QED BY <1>1, <2>1, <2>2, <2>3, <2>4 DEF Acquire, AcquireHealthy, AcquireSoftRetiring
<1>2. CASE Request
  <2>1. ASSUME NEW r \in Requests, BeginTransient(r) \/ BeginPersistent(r) PROVE Holding'
    BY <2>1 DEF BeginTransient, BeginPersistent
  <2>2. ASSUME NEW r \in Requests, AcquireTimeout(r) PROVE Holding'
    BY <2>2 DEF AcquireTimeout, AcquireRaises, LeaveLoop
  <2>3. ASSUME NEW r \in Requests, OpenContext(r) PROVE Holding'
    BY <2>3 DEF OpenContext
  <2>4. ASSUME NEW r \in Requests, NEW why \in {"none", "error", "disconnected"},
               StartFinalizer(r, why)
        PROVE  Holding'
    BY <2>4 DEF StartFinalizer
  <2>5. ASSUME NEW r \in Requests, ReleaseSlot(r) PROVE Holding'
    BY <2>5 DEF ReleaseSlot
  <2>6. ASSUME NEW r \in Requests,
               ReleasePersistent(r) \/ AccountingTaskDone(r) \/ NotifyPoolWaiters(r)
        PROVE  Holding'
    BY <2>6 DEF ReleasePersistent, AccountingTaskDone, NotifyPoolWaiters
  <2> QED BY <1>1, <1>2, <2>1, <2>2, <2>3, <2>4, <2>5, <2>6 DEF Request, Account
<1>3. CASE World \/ Launch \/ Startup \/ Upkeep \/ Shutdown \/ UNCHANGED vars
  BY <1>3, RequestsUntouched
<1> QED BY <1>2, <1>3 DEF Next

\* Type correctness: every field of the pool keeps its shape, whatever the
\* requests, the browsers and the shutdown do.
THEOREM TypeCorrect == Spec => []TypeOK
<1>1. Init => TypeOK /\ Holding
  BY TypeInit DEF Init, Holding
<1>2. TypeOK /\ Holding /\ [Next]_vars => (TypeOK /\ Holding)'
  BY BrowserTypesNext, PoolTypesNext, RequestTypesNext, StartTypesNext, HoldingNext DEF TypeOK
<1> QED BY <1>1, <1>2, PTL DEF Spec

-----------------------------------------------------------------------------
(* What the operators on a slot do to the two fields ownership is about.   *)

\* A slot that retires does not start closing and keeps its browser.
LEMMA MarkRetiringKeeps ==
    ASSUME NEW s \in SlotRecord, NEW why
    PROVE  /\ MarkRetiring(s, why).state = "closing" <=> s.state = "closing"
           /\ MarkRetiring(s, why).browser = s.browser
           /\ MarkRetiring(s, why).active = s.active
BY DEF MarkRetiring, SlotRecord

\* Neither does a refreshed one.
LEMMA RefreshKeeps ==
    ASSUME NEW s \in SlotRecord
    PROVE  /\ Refresh(s).state = "closing" <=> s.state = "closing"
           /\ Refresh(s).browser = s.browser
           /\ Refresh(s).active = s.active
<1> DEFINE t == IF s.browser # "connected" THEN MarkRetiring(s, "disconnected") ELSE s
<1>1. t \in SlotRecord
  BY MarkRetiringType DEF HardReasons
<1>2. /\ t.state = "closing" <=> s.state = "closing"
      /\ t.browser = s.browser
      /\ t.active = s.active
  BY MarkRetiringKeeps
<1>3. /\ MarkRetiring(t, RecycleReason(t)).state = "closing" <=> t.state = "closing"
      /\ MarkRetiring(t, RecycleReason(t)).browser = t.browser
      /\ MarkRetiring(t, RecycleReason(t)).active = t.active
  BY <1>1, MarkRetiringKeeps
<1> QED BY <1>2, <1>3 DEF Refresh

\* A reserved slot only counts one context more.
LEMMA ReserveKeeps ==
    ASSUME NEW s \in SlotRecord
    PROVE  /\ Reserve(s).state = "closing" <=> s.state = "closing"
           /\ Reserve(s).browser = s.browser
           /\ Reserve(s).active = s.active + 1
<1> DEFINE t == [s EXCEPT !.active = @ + 1, !.uses = IF @ < MaxUses THEN @ + 1 ELSE @]
<1>1. t \in SlotRecord
  <2>1. (IF s.uses < MaxUses THEN s.uses + 1 ELSE s.uses) \in 0 .. MaxUses
    BY SlotBounds DEF SlotRecord
  <2>2. s.active + 1 \in Int
    BY DEF SlotRecord
  <2> QED BY <2>1, <2>2 DEF SlotRecord
<1>2. t.state = s.state /\ t.browser = s.browser /\ t.active = s.active + 1
  BY DEF SlotRecord
<1>3. /\ MarkRetiring(t, RecycleReason(t)).state = "closing" <=> t.state = "closing"
      /\ MarkRetiring(t, RecycleReason(t)).browser = t.browser
      /\ MarkRetiring(t, RecycleReason(t)).active = t.active
  BY <1>1, MarkRetiringKeeps
<1> QED BY <1>2, <1>3 DEF Reserve

\* A released slot only counts one context less.
LEMMA ReleasedKeeps ==
    ASSUME NEW s \in SlotRecord, NEW why
    PROVE  /\ Released(s, why).state = "closing" <=> s.state = "closing"
           /\ Released(s, why).browser = s.browser
           /\ Released(s, why).active = s.active - 1
<1> DEFINE t == [s EXCEPT !.active = @ - 1]
<1>1. t \in SlotRecord /\ t.state = s.state /\ t.browser = s.browser /\ t.active = s.active - 1
  BY DEF SlotRecord
<1>2. \A x : /\ MarkRetiring(t, x).state = "closing" <=> t.state = "closing"
             /\ MarkRetiring(t, x).browser = t.browser
             /\ MarkRetiring(t, x).active = t.active
  BY <1>1, MarkRetiringKeeps
<1> QED BY <1>1, <1>2 DEF Released

\* A slot that starts closing keeps its browser and its count.
LEMMA ClosingKeeps ==
    ASSUME NEW s \in SlotRecord
    PROVE  /\ Closing(s).state = "closing"
           /\ Closing(s).browser = s.browser
           /\ Closing(s).active = s.active
BY DEF Closing, SlotRecord

\* A refresh starts the close of exactly the reaped slots.
LEMMA RefreshedSlotKeeps ==
    ASSUME BrowserTypes, slots \subseteq Browsers, NEW b \in Browsers
    PROVE  /\ RefreshedSlot[b].browser = slot[b].browser
           /\ RefreshedSlot[b].active = slot[b].active
           /\ b \in Reaped => RefreshedSlot[b].state = "closing"
           /\ b \notin Reaped => (RefreshedSlot[b].state = "closing" <=> slot[b].state = "closing")
<1>1. slot[b] \in SlotRecord
  BY DEF BrowserTypes
<1> QED BY <1>1, RefreshKeeps, ClosingKeeps DEF RefreshedSlot, Reaped

-----------------------------------------------------------------------------
(* Ownership is preserved.                                                 *)

\* The empty pool owns nothing and nothing runs.
LEMMA OwnershipInit == Init => Ownership
<1> SUFFICES ASSUME Init PROVE Ownership
  OBVIOUS
<1>1. \A b \in Browsers : slot[b].state = "closing" /\ slot[b].browser = "closed"
  BY DEF Init, DroppedSlot, NewSlot
<1>2. SingleOwner
  BY DEF Init, SingleOwner
<1>3. NoOrphanBrowser
  BY <1>1 DEF NoOrphanBrowser
<1>4. LaunchesTracked
  BY <1>1 DEF Init, LaunchesTracked
<1>5. StartupTracked
  BY DEF Init, StartupTracked
<1> QED BY <1>2, <1>3, <1>4, <1>5 DEF Ownership

\* The world moves no browser from owner to owner.
LEMMA OwnershipWorld == TypeOK /\ Ownership /\ World => Ownership'
<1> SUFFICES ASSUME TypeOK, Ownership, World PROVE Ownership'
  OBVIOUS
<1> USE DEF Ownership, SingleOwner, NoOrphanBrowser, LaunchesTracked, StartupTracked, Owned, TypeOK, BrowserTypes,
            PoolTypes, ownerVars, startVars, closeVars
<1>1. ASSUME NEW b \in Browsers, FactoryReturns(b) PROVE Ownership'
  BY <1>1 DEF FactoryReturns, NewSlot
<1>2. ASSUME NEW b \in Browsers, FactoryRaises(b) PROVE Ownership'
  BY <1>2 DEF FactoryRaises
<1>3. ASSUME NEW b \in Browsers, BrowserDisconnects(b) PROVE Ownership'
  BY <1>3 DEF BrowserDisconnects, SlotRecord
<1>4. ASSUME NEW b \in Browsers, BrowserAges(b) PROVE Ownership'
  BY <1>4 DEF BrowserAges, SlotRecord
<1> QED BY <1>1, <1>2, <1>3, <1>4 DEF World

\* A refresh moves reaped slots and due retries to the close tasks; the launches
\* that go with it take unused identifiers.
LEMMA OwnershipRefresh ==
    ASSUME TypeOK, Ownership,
           NEW due \in SUBSET failed_close_slots, RefreshOwners(due),
           \A b \in Browsers :
               /\ slot'[b].browser = slot[b].browser
               /\ b \in Reaped => slot'[b].state = "closing"
               /\ b \notin Reaped => (slot'[b].state = "closing" <=> slot[b].state = "closing"),
           NEW new \in SUBSET Unused, closed => new = {}, StartCreateTasks(new),
           UNCHANGED <<create_watchers, startVars, closed>>
    PROVE  Ownership'
<1> USE DEF Ownership, SingleOwner, NoOrphanBrowser, Owned, TypeOK, BrowserTypes, PoolTypes
<1>1. Reaped \subseteq slots
  BY DEF Reaped
<1>2. /\ slots' = slots \ Reaped
      /\ close_tasks' = close_tasks \cup Reaped \cup due
      /\ failed_close_slots' = failed_close_slots \ due
      /\ create_watchers' = create_watchers
  BY DEF RefreshOwners, InService
<1>3. /\ create_tasks' = create_tasks \cup new
      /\ \A b \in new : factory'[b] = "running"
      /\ \A b \in Browsers \ new : factory'[b] = factory[b]
  BY DEF StartCreateTasks, Unused
<1>4. \A b \in new : /\ b \in Browsers \ (Owned \cup startup_tasks)
                     /\ slot[b].browser = "closed"
  BY DEF Unused
<1>5. SingleOwner'
  BY <1>1, <1>2, <1>3, <1>4
<1>6. NoOrphanBrowser'
  BY <1>1, <1>2, <1>3, <1>4
<1>7. LaunchesTracked'
  BY <1>1, <1>2, <1>3, <1>4 DEF LaunchesTracked
<1>8. StartupTracked'
  BY <1>1, <1>2, <1>3, <1>4 DEF StartupTracked, StartTypes, startVars
<1> QED BY <1>5, <1>6, <1>7, <1>8

\* Acquiring and releasing a context loses no browser.
LEMMA OwnershipRequest ==
    TypeOK /\ Holding /\ LeaseKeepsBrowser /\ Ownership /\ Request => Ownership'
<1> SUFFICES ASSUME TypeOK, Holding, LeaseKeepsBrowser, Ownership, Request PROVE Ownership'
  OBVIOUS
<1>1. ASSUME UNCHANGED <<browserVars, ownerVars, startVars, closed>> PROVE Ownership'
  BY <1>1 DEF Ownership, SingleOwner, NoOrphanBrowser, LaunchesTracked, StartupTracked, Owned,
              browserVars, ownerVars, startVars
<1>2. \A b \in Browsers :
          /\ RefreshedSlot[b].browser = slot[b].browser
          /\ b \in Reaped => RefreshedSlot[b].state = "closing"
          /\ b \notin Reaped =>
                 (RefreshedSlot[b].state = "closing" <=> slot[b].state = "closing")
  BY RefreshedSlotKeeps DEF TypeOK, PoolTypes
<1>3. \A due \in SUBSET Retryable : due \in SUBSET failed_close_slots
  BY DEF Retryable
<1>4. UNCHANGED <<factory, create_tasks>> => StartCreateTasks({})
  BY DEF StartCreateTasks, TypeOK, BrowserTypes
<1>5. ASSUME NEW r \in Requests, NEW b \in Browsers, Grant(r, b) PROVE Ownership'
  <2>1. RefreshedSlot[b] \in SlotRecord
    BY RefreshedSlotType DEF TypeOK
  <2>2. \A c \in Browsers :
            /\ slot'[c].browser = slot[c].browser
            /\ c \in Reaped => slot'[c].state = "closing"
            /\ c \notin Reaped => (slot'[c].state = "closing" <=> slot[c].state = "closing")
    BY <1>2, <1>5, <2>1, ReserveKeeps DEF Grant, RefreshedSlot
  <2>3. UNCHANGED <<factory, create_tasks, create_watchers, startVars, closed>>
    BY <1>5 DEF Grant, closeVars
  <2>4. \E due \in SUBSET Retryable : RefreshOwners(due)
    BY <1>5 DEF Grant
  <2> QED BY <1>3, <1>4, <2>2, <2>3, <2>4, OwnershipRefresh
<1>6. ASSUME NEW r \in Requests, NEW b \in Browsers, AcquireLaunch(r, b) PROVE Ownership'
  <2>1. \E due \in SUBSET Retryable : RefreshOwners(due)
    BY <1>6 DEF AcquireLaunch
  <2>2. /\ {b} \in SUBSET Unused /\ ~closed /\ StartCreateTasks({b}) /\ slot' = RefreshedSlot
        /\ UNCHANGED <<create_watchers, startVars, closed>>
    BY <1>6 DEF AcquireLaunch, closeVars
  <2> QED BY <1>2, <1>3, <2>1, <2>2, OwnershipRefresh
<1>7. ASSUME NEW r \in Requests, AcquireAfterFailure(r) \/ AcquireWait(r) PROVE Ownership'
  <2>1. \E due \in SUBSET Retryable : RefreshOwners(due)
    BY <1>7 DEF AcquireAfterFailure, AcquireWait
  <2>2. /\ slot' = RefreshedSlot
        /\ UNCHANGED <<factory, create_tasks, create_watchers, startVars, closed>>
    BY <1>7 DEF AcquireAfterFailure, AcquireWait, closeVars
  <2> QED BY <1>2, <1>3, <1>4, <2>1, <2>2, OwnershipRefresh
<1>8. ASSUME NEW r \in Requests, ReleaseSlot(r) PROVE Ownership'
  <2> DEFINE b == held[r]
             s == Released(slot[b], discard[r])
             last == s.state = "retiring" /\ s.active = 0
  <2>1. b \in Browsers /\ slot[b] \in SlotRecord
    BY <1>8 DEF ReleaseSlot, Holding, TypeOK, RequestTypes, BrowserTypes
  <2>2. s \in SlotRecord
    BY <2>1, ReleasedType DEF TypeOK, RequestTypes
  <2>3. /\ s.state = "closing" <=> slot[b].state = "closing"
        /\ s.browser = slot[b].browser
        /\ Closing(s).state = "closing" /\ Closing(s).browser = s.browser
    BY <2>1, <2>2, ReleasedKeeps, ClosingKeeps
  <2>4. /\ slot' = [slot EXCEPT ![b] = IF last THEN Closing(s) ELSE s]
        /\ slots' = IF last THEN slots \ {b} ELSE slots
        /\ close_tasks' = IF last THEN close_tasks \cup {b} ELSE close_tasks
        /\ UNCHANGED <<factory, create_tasks, create_watchers, failed_close_slots, startVars,
                       closed>>
    BY <1>8 DEF ReleaseSlot, closeVars
  <2>5. b \in slots
    BY <1>8 DEF ReleaseSlot, Holding, LeaseKeepsBrowser
  <2>6. /\ \A c \in Browsers : slot'[c].browser = slot[c].browser
        /\ \A c \in Browsers \ {b} : slot'[c] = slot[c]
        /\ slot'[b].state = "closing" <=> last \/ slot[b].state = "closing"
    BY <2>1, <2>3, <2>4 DEF TypeOK, BrowserTypes
  <2> HIDE DEF s, last
  <2> QED BY <2>1, <2>4, <2>5, <2>6
          DEF Ownership, SingleOwner, NoOrphanBrowser, LaunchesTracked, StartupTracked, Owned, startVars
<1>9. ASSUME NEW r \in Requests,
             \/ BeginTransient(r)
             \/ BeginPersistent(r)
             \/ AcquireRejected(r)
             \/ AcquireTimeout(r)
             \/ OpenContext(r)
             \/ \E why \in {"none", "error", "disconnected"} : StartFinalizer(r, why)
             \/ ReleasePersistent(r)
             \/ AccountingTaskDone(r)
             \/ NotifyPoolWaiters(r)
      PROVE  UNCHANGED <<browserVars, ownerVars, startVars, closed>>
  BY <1>9 DEF BeginTransient, BeginPersistent, AcquireRejected, AcquireTimeout, OpenContext,
       StartFinalizer, ReleasePersistent, AccountingTaskDone, NotifyPoolWaiters, closeVars
<1> QED BY <1>1, <1>5, <1>6, <1>7, <1>8, <1>9
        DEF Request, Acquire, Account, AcquireHealthy, AcquireSoftRetiring

\* A launch ends in a slot, a close or an abandonment, and nowhere else.
LEMMA OwnershipLaunch == TypeOK /\ Ownership /\ Launch => Ownership'
<1> SUFFICES ASSUME TypeOK, Ownership, Launch PROVE Ownership'
  OBVIOUS
<1> USE DEF Ownership, SingleOwner, NoOrphanBrowser, LaunchesTracked, StartupTracked, Owned, TypeOK, BrowserTypes,
            PoolTypes, startVars, closeVars, browserVars, Supervised
<1>1. \A b \in Browsers : /\ Closing(slot[b]).state = "closing"
                          /\ Closing(slot[b]).browser = slot[b].browser
  BY ClosingKeeps
<1>2. ASSUME NEW b \in Browsers, LaunchTimesOut(b) PROVE Ownership'
  BY <1>2 DEF LaunchTimesOut
<1>3. ASSUME NEW b \in Browsers, LaunchFails(b) PROVE Ownership'
  BY <1>3 DEF LaunchFails
<1>4. ASSUME NEW b \in Browsers, LaunchSucceeds(b) PROVE Ownership'
  BY <1>4, <1>1 DEF LaunchSucceeds
<1>5. ASSUME NEW b \in Browsers, AbandonedLaunchEnds(b) PROVE Ownership'
  BY <1>5, <1>1 DEF AbandonedLaunchEnds
<1> QED BY <1>2, <1>3, <1>4, <1>5 DEF Launch

\* A startup keeps its browsers or passes them on, however it ends.
LEMMA OwnershipStartup == TypeOK /\ Ownership /\ Startup => Ownership'
<1> SUFFICES ASSUME TypeOK, Ownership, Startup PROVE Ownership'
  OBVIOUS
<1> USE DEF Ownership, SingleOwner, NoOrphanBrowser, LaunchesTracked, StartupTracked, Owned, TypeOK, BrowserTypes,
            PoolTypes, StartTypes, startVars, closeVars, browserVars, ownerVars
<1>1. \A b \in Browsers : /\ Closing(slot[b]).state = "closing"
                          /\ Closing(slot[b]).browser = slot[b].browser
  BY ClosingKeeps
<1>2. \A b \in Browsers :
          /\ MarkRetiring(slot[b], "error").state = "closing" <=> slot[b].state = "closing"
          /\ MarkRetiring(slot[b], "error").browser = slot[b].browser
  BY MarkRetiringKeeps
<1>3. ASSUME NEW new \in SUBSET Browsers, StartBegins(new) PROVE Ownership'
  BY <1>3 DEF StartBegins, StartCreateTasks, Unused
<1>4. CASE StartCallersCancel \/ StartupUnwinds
  BY <1>4 DEF StartCallersCancel, StartupUnwinds
<1>5. CASE StartupCancelledLaunching
  BY <1>5 DEF StartupCancelledLaunching
<1>6. CASE StartupFails
  <2>1. SingleOwner'
    BY <1>6, <1>1 DEF StartupFails
  <2>2. NoOrphanBrowser'
    BY <1>6, <1>1 DEF StartupFails
  <2>3. LaunchesTracked'
    BY <1>6, <1>1 DEF StartupFails
  <2>4. StartupTracked'
    BY <1>6, <1>1 DEF StartupFails
  <2> QED BY <2>1, <2>2, <2>3, <2>4
<1>7. CASE StartupSucceeds
  BY <1>7 DEF StartupSucceeds
<1>8. CASE RegisterStartedSlots
  <2>1. SingleOwner'
    BY <1>8, <1>1 DEF RegisterStartedSlots
  <2>2. NoOrphanBrowser'
    BY <1>8, <1>1 DEF RegisterStartedSlots
  <2>3. LaunchesTracked'
    BY <1>8, <1>1 DEF RegisterStartedSlots
  <2>4. StartupTracked'
    BY <1>8, <1>1 DEF RegisterStartedSlots
  <2> QED BY <2>1, <2>2, <2>3, <2>4
<1>9. CASE StartupFinishes \/ StartupCancelledInHandoff \/ StartupCancelledInRecovery
  BY <1>9 DEF StartupFinishes, StartupCancelledInHandoff, StartupCancelledInRecovery
<1>10. CASE RecoverCancelledStart
  <2>1. SingleOwner'
    BY <1>10, <1>1, <1>2 DEF RecoverCancelledStart
  <2>2. NoOrphanBrowser'
    BY <1>10, <1>1, <1>2 DEF RecoverCancelledStart
  <2>3. LaunchesTracked'
    BY <1>10, <1>1, <1>2 DEF RecoverCancelledStart
  <2>4. StartupTracked'
    BY <1>10, <1>1, <1>2 DEF RecoverCancelledStart
  <2> QED BY <2>1, <2>2, <2>3, <2>4
<1> QED BY <1>3, <1>4, <1>5, <1>6, <1>7, <1>8, <1>9, <1>10 DEF Startup, StartupStep

\* Maintenance and the end of a close pass browsers on.
LEMMA OwnershipUpkeep == TypeOK /\ Ownership /\ Upkeep => Ownership'
<1> SUFFICES ASSUME TypeOK, Ownership, Upkeep PROVE Ownership'
  OBVIOUS
<1>1. \A b \in Browsers :
          /\ RefreshedSlot[b].browser = slot[b].browser
          /\ b \in Reaped => RefreshedSlot[b].state = "closing"
          /\ b \notin Reaped =>
                 (RefreshedSlot[b].state = "closing" <=> slot[b].state = "closing")
  BY RefreshedSlotKeeps DEF TypeOK, PoolTypes
<1>2. ASSUME NEW due \in SUBSET Browsers, RefreshPool(due) PROVE Ownership'
  <2>1. StartCreateTasks({})
    BY <1>2 DEF RefreshPool, StartCreateTasks, TypeOK, BrowserTypes
  <2>2. due \in SUBSET failed_close_slots
    BY <1>2 DEF RefreshPool, Retryable
  <2> QED BY <1>1, <1>2, <2>1, <2>2, OwnershipRefresh DEF RefreshPool, closeVars
<1>3. ASSUME NEW due \in SUBSET Browsers, NEW new \in SUBSET Browsers, Maintain(due, new)
      PROVE  Ownership'
  <2>1. due \in SUBSET failed_close_slots
    BY <1>3 DEF Maintain, Retryable
  <2> QED BY <1>1, <1>3, <2>1, OwnershipRefresh DEF Maintain, closeVars
<1> USE DEF Ownership, SingleOwner, NoOrphanBrowser, LaunchesTracked, StartupTracked, Owned, TypeOK, BrowserTypes,
            PoolTypes, startVars, closeVars, ownerVars
<1>4. ASSUME NEW new \in SUBSET Browsers, closed, NEW record, NEW serving, NEW occupied,
             Cardinality(new) = ReplenishCount(record, serving, occupied)
      PROVE  new = {}
  <2>1. IsFiniteSet(new)
    BY FS_Subset, PoolAssumption DEF PoolAssumption
  <2>2. Cardinality(new) = 0
    BY <1>4 DEF ReplenishCount
  <2> QED BY <2>1, <2>2, FS_EmptySet
<1>5. ASSUME NEW new \in SUBSET Browsers, new \subseteq Unused, StartCreateTasks(new),
             closed => new = {}, NEW b \in close_tasks,
             close_tasks' = close_tasks \ {b},
             failed_close_slots' \in {failed_close_slots, failed_close_slots \cup {b}},
             slot'[b].state = "closing",
             slot'[b].browser # "closed" => b \in failed_close_slots',
             slot'[b].browser \in {"closed", slot[b].browser},
             \A c \in Browsers \ {b} : slot'[c] = slot[c],
             UNCHANGED <<slots, create_watchers, startVars, closed>>
      PROVE  Ownership'
  <2>1. /\ create_tasks' = create_tasks \cup new
        /\ \A c \in new : factory'[c] = "running"
        /\ \A c \in Browsers \ new : factory'[c] = factory[c]
        /\ \A c \in new : c \notin Owned \cup startup_tasks /\ slot[c].browser = "closed"
    BY <1>5 DEF StartCreateTasks, Unused
  <2>2. SingleOwner'
    BY <1>5, <2>1
  <2>3. NoOrphanBrowser'
    BY <1>5, <2>1
  <2>4. LaunchesTracked'
    <3>1. b \notin new /\ b \notin create_tasks
      BY <1>5, <2>1
    <3>2. ASSUME NEW c \in new
          PROVE  /\ factory'[c] = "running" /\ slot'[c].browser = "closed"
                 /\ c \in create_tasks' /\ c \notin close_tasks' \cup failed_close_slots'
      BY <1>5, <2>1, <3>1, <3>2
    <3>3. \A c \in Browsers \ new : factory'[c] = "running" => c \notin failed_close_slots'
      BY <1>5, <2>1
    <3> QED BY <1>5, <2>1, <3>1, <3>2, <3>3
  <2>5. StartupTracked'
    BY <1>5, <2>1 DEF StartTypes
  <2> QED BY <2>2, <2>3, <2>4, <2>5
<1>6. ASSUME NEW b \in Browsers, NEW new \in SUBSET Browsers, CloseSlotSucceeds(b, new)
      PROVE  Ownership'
  <2>1. /\ slot'[b].state = "closing" /\ slot'[b].browser = "closed"
        /\ \A c \in Browsers \ {b} : slot'[c] = slot[c]
    BY <1>6 DEF CloseSlotSucceeds, DroppedSlot, NewSlot
  <2>2. closed => new = {}
    BY <1>4, <1>6 DEF CloseSlotSucceeds
  <2>3. /\ b \in close_tasks /\ new \subseteq Unused /\ StartCreateTasks(new)
        /\ close_tasks' = close_tasks \ {b}
        /\ failed_close_slots' = failed_close_slots
        /\ UNCHANGED <<slots, create_watchers, startVars, closed>>
    BY <1>6 DEF CloseSlotSucceeds
  <2> QED BY <1>5, <2>1, <2>2, <2>3
<1>7. ASSUME NEW b \in Browsers, NEW new \in SUBSET Browsers, CloseSlotFails(b, new)
      PROVE  Ownership'
  <2>1. /\ slot'[b].state = slot[b].state /\ slot'[b].browser = slot[b].browser
        /\ \A c \in Browsers \ {b} : slot'[c] = slot[c]
    BY <1>7 DEF CloseSlotFails, SlotRecord
  <2>2. closed => new = {}
    BY <1>4, <1>7 DEF CloseSlotFails
  <2>3. /\ b \in close_tasks /\ new \subseteq Unused /\ StartCreateTasks(new)
        /\ close_tasks' = close_tasks \ {b}
        /\ failed_close_slots' = failed_close_slots \cup {b}
        /\ UNCHANGED <<slots, create_watchers, startVars, closed>>
    BY <1>7 DEF CloseSlotFails
  <2> QED BY <1>5, <2>1, <2>2, <2>3
<1>8. ASSUME NEW b \in Browsers, PhysicalCloseFinishes(b) PROVE Ownership'
  BY <1>8 DEF PhysicalCloseFinishes, SlotRecord
<1>9. ASSUME NEW b \in Browsers, ReconcileLatePhysicalClose(b) PROVE Ownership'
  BY <1>9 DEF ReconcileLatePhysicalClose, DroppedSlot, NewSlot
<1> QED BY <1>2, <1>3, <1>6, <1>7, <1>8, <1>9 DEF Upkeep, CloseSlot

\* A shutdown passes launches to their watchers and idle slots to their closes.
LEMMA OwnershipShutdown == TypeOK /\ Ownership /\ Shutdown => Ownership'
<1> SUFFICES ASSUME TypeOK, Ownership, Shutdown PROVE Ownership'
  OBVIOUS
<1> USE DEF Ownership, SingleOwner, NoOrphanBrowser, LaunchesTracked, StartupTracked, Owned, TypeOK,
            BrowserTypes, PoolTypes
<1>1. \A b \in Browsers :
          /\ Closing(slot[b]).state = "closing"
          /\ Closing(slot[b]).browser = slot[b].browser
          /\ MarkRetiring(slot[b], "shutdown").state = "closing" <=> slot[b].state = "closing"
          /\ MarkRetiring(slot[b], "shutdown").browser = slot[b].browser
  BY ClosingKeeps, MarkRetiringKeeps
<1>2. ASSUME NEW retried \in SUBSET failed_close_slots, ShutDownSlots(retried),
             UNCHANGED <<factory, startup, startup_tasks, registration>>
      PROVE  Ownership'
  <2>1. SingleOwner'
    BY <1>1, <1>2 DEF ShutDownSlots, Idle
  <2>2. NoOrphanBrowser'
    BY <1>1, <1>2 DEF ShutDownSlots, Idle
  <2>3. LaunchesTracked'
    BY <1>1, <1>2 DEF ShutDownSlots, Idle
  <2>4. StartupTracked'
    BY <1>2 DEF ShutDownSlots, StartTypes
  <2> QED BY <2>1, <2>2, <2>3, <2>4
<1>3. CASE Quiesce
  BY <1>2, <1>3 DEF Quiesce, startVars
<1>4. CASE CloseBegins
  BY <1>2, <1>4 DEF CloseBegins
<1>5. CASE CloserStep \/ CloseCancelled
  BY <1>5 DEF CloserStep, CloseSeesStartupEnd, CloseChecksDrain, CloseGathers, CloseCancelled,
              browserVars, ownerVars, startVars
<1> QED BY <1>3, <1>4, <1>5 DEF Shutdown

\* Ownership is preserved by every step in which leases keep their browsers.
LEMMA OwnershipNext ==
    TypeOK /\ Holding /\ LeaseKeepsBrowser /\ Ownership /\ [Next]_vars => Ownership'
<1>1. Ownership /\ UNCHANGED vars => Ownership'
  BY DEF Ownership, SingleOwner, NoOrphanBrowser, LaunchesTracked, StartupTracked, Owned,
         vars, browserVars, ownerVars, startVars, closeVars
<1> QED BY <1>1, OwnershipWorld, OwnershipRequest, OwnershipLaunch, OwnershipStartup,
           OwnershipUpkeep, OwnershipShutdown DEF Next

-----------------------------------------------------------------------------
(* Sets of requests and their sizes.                                       *)

TransientHolders == {r \in Requests : held[r] # NoBrowser /\ kind[r] = "transient"}

Sessions == {r \in Requests : kind[r] = "persistent"}

\* The sets the counters count are finite.
LEMMA FiniteRequests == \A S \in SUBSET Requests : IsFiniteSet(S) /\ Cardinality(S) \in Nat
BY FS_Subset, FS_CardinalityType, PoolAssumption DEF PoolAssumption

\* A request that joins or leaves a set of requests changes its size by one.
LEMMA OneMore ==
    ASSUME NEW S \in SUBSET Requests, NEW r
    PROVE  /\ r \notin S => Cardinality(S \cup {r}) = Cardinality(S) + 1
           /\ r \in S => Cardinality(S \ {r}) = Cardinality(S) - 1
BY FiniteRequests, FS_AddElement, FS_RemoveElement

\* A browser without contexts has no holder.
LEMMA IdleBrowsers ==
    ASSUME SlotAccounting, NEW b \in Browsers
    PROVE  slot[b].active = 0 <=> Holders(b) = {}
<1>1. Holders(b) \in SUBSET Requests
  BY DEF Holders
<1>2. IsFiniteSet(Holders(b))
  BY <1>1, FiniteRequests
<1> QED BY <1>2, FS_EmptySet DEF SlotAccounting

-----------------------------------------------------------------------------
(* Steps that neither grant nor release.                                   *)

\* The step leaves the counts of slots alone and takes only idle browsers out of
\* service.
Undisturbed ==
    /\ \A b \in Browsers : slot'[b].active = slot[b].active
    /\ \A b \in slots \ slots' : slot[b].active = 0

\* Such a step keeps the leases if it leaves the reservations alone.
LEMMA LeasesUndisturbed ==
    ASSUME SlotAccounting, LeaseKeepsBrowser, TypeOK, held' = held, Undisturbed
    PROVE  SlotAccounting' /\ LeaseKeepsBrowser'
<1>1. \A b \in Browsers : Holders(b)' = Holders(b)
  BY DEF Holders
<1>2. SlotAccounting'
  BY <1>1 DEF SlotAccounting, Undisturbed
<1>3. ASSUME NEW r \in Requests, held'[r] # NoBrowser PROVE held'[r] \in slots'
  <2>1. held[r] \in slots /\ held[r] \in Browsers
    BY <1>3 DEF LeaseKeepsBrowser, TypeOK, PoolTypes
  <2>2. Holders(held[r]) # {}
    BY DEF Holders
  <2> QED BY <2>1, <2>2, IdleBrowsers DEF Undisturbed
<1> QED BY <1>2, <1>3 DEF LeaseKeepsBrowser

\* A browser that is not in service has no contexts.
LEMMA OutOfService ==
    ASSUME SlotAccounting, LeaseKeepsBrowser, NEW b \in Browsers \ slots
    PROVE  slot[b].active = 0
<1>1. Holders(b) = {}
  BY PoolAssumption DEF Holders, LeaseKeepsBrowser, PoolAssumption
<1> QED BY <1>1, IdleBrowsers

\* A refresh closes idle slots only.
LEMMA RefreshUndisturbed ==
    ASSUME TypeOK, NEW due, RefreshOwners(due), slot' = RefreshedSlot
    PROVE  Undisturbed
<1>1. \A b \in Browsers : slot'[b].active = slot[b].active
  BY RefreshedSlotKeeps DEF TypeOK, PoolTypes
<1>2. \A b \in slots \ slots' : slot[b].active = 0
  BY DEF RefreshOwners, InService, Reaped
<1> QED BY <1>1, <1>2 DEF Undisturbed

\* Only requests reserve and release: whatever else the pool does, it takes only
\* idle browsers out of service.
LEMMA BackgroundUndisturbed ==
    ASSUME TypeOK, SlotAccounting, LeaseKeepsBrowser, Ownership,
           World \/ Launch \/ Startup \/ Upkeep \/ Shutdown \/ UNCHANGED vars
    PROVE  Undisturbed
<1>1. \A b \in Browsers :
          /\ Closing(slot[b]).active = slot[b].active
          /\ \A why : MarkRetiring(slot[b], why).active = slot[b].active
  BY ClosingKeeps, MarkRetiringKeeps DEF TypeOK, BrowserTypes
<1>2. NewSlot.active = 0 /\ DroppedSlot.active = 0
  BY DEF NewSlot, DroppedSlot
<1>3. \A b \in Browsers \ slots : slot[b].active = 0
  BY OutOfService
<1> USE DEF TypeOK, BrowserTypes, PoolTypes
<1>4. CASE World
  <2>1. ASSUME NEW b \in Browsers, FactoryReturns(b) PROVE Undisturbed
    <3>1. b \notin slots
      BY <2>1 DEF FactoryReturns, Ownership, LaunchesTracked, SingleOwner
    <3> QED BY <1>2, <1>3, <2>1, <3>1 DEF Undisturbed, FactoryReturns, ownerVars
  <2>2. ASSUME NEW b \in Browsers, FactoryRaises(b) PROVE Undisturbed
    BY <2>2 DEF Undisturbed, FactoryRaises, ownerVars
  <2>3. ASSUME NEW b \in Browsers, BrowserDisconnects(b) PROVE Undisturbed
    BY <2>3 DEF Undisturbed, BrowserDisconnects, ownerVars, SlotRecord
  <2>4. ASSUME NEW b \in Browsers, BrowserAges(b) PROVE Undisturbed
    BY <2>4 DEF Undisturbed, BrowserAges, ownerVars, SlotRecord
  <2> QED BY <1>4, <2>1, <2>2, <2>3, <2>4 DEF World
<1>5. CASE Launch
  <2>1. ASSUME NEW b \in Browsers, LaunchTimesOut(b) \/ LaunchFails(b) PROVE Undisturbed
    BY <2>1 DEF Undisturbed, LaunchTimesOut, LaunchFails, browserVars
  <2>2. ASSUME NEW b \in Browsers, LaunchSucceeds(b) PROVE Undisturbed
    BY <1>1, <2>2 DEF Undisturbed, LaunchSucceeds
  <2>3. ASSUME NEW b \in Browsers, AbandonedLaunchEnds(b) PROVE Undisturbed
    <3>1. b \notin slots
      BY <2>3 DEF AbandonedLaunchEnds, Ownership, SingleOwner
    <3> QED BY <1>1, <2>3, <3>1 DEF Undisturbed, AbandonedLaunchEnds
  <2> QED BY <1>5, <2>1, <2>2, <2>3 DEF Launch
<1>6. CASE Startup
  <2>1. ASSUME NEW new \in SUBSET Browsers, StartBegins(new) PROVE Undisturbed
    BY <2>1 DEF Undisturbed, StartBegins
  <2>2. CASE \/ StartCallersCancel
             \/ StartupUnwinds
             \/ StartupSucceeds
             \/ StartupFinishes
             \/ StartupCancelledInHandoff
             \/ StartupCancelledInRecovery
             \/ StartupCancelledLaunching
    BY <2>2 DEF Undisturbed, StartCallersCancel, StartupUnwinds, StartupSucceeds, StartupFinishes,
         StartupCancelledInHandoff, StartupCancelledInRecovery, StartupCancelledLaunching,
         browserVars, ownerVars
  <2>3. CASE StartupFails
    BY <1>1, <2>3 DEF Undisturbed, StartupFails
  <2>4. CASE RegisterStartedSlots
    BY <1>1, <2>4 DEF Undisturbed, RegisterStartedSlots
  <2>5. CASE RecoverCancelledStart
    BY <1>1, <2>5 DEF Undisturbed, RecoverCancelledStart
  <2> QED BY <1>6, <2>1, <2>2, <2>3, <2>4, <2>5 DEF Startup, StartupStep
<1>7. CASE Upkeep
  <2>1. ASSUME NEW due \in SUBSET Browsers, RefreshPool(due) PROVE Undisturbed
    BY <2>1, RefreshUndisturbed DEF RefreshPool
  <2>2. ASSUME NEW due \in SUBSET Browsers, NEW new \in SUBSET Browsers, Maintain(due, new)
        PROVE  Undisturbed
    BY <2>2, RefreshUndisturbed DEF Maintain
  <2>3. ASSUME NEW b \in Browsers, NEW new \in SUBSET Browsers, CloseSlotSucceeds(b, new)
        PROVE  Undisturbed
    <3>1. b \notin slots
      BY <2>3 DEF CloseSlotSucceeds, Ownership, SingleOwner
    <3> QED BY <1>2, <1>3, <2>3, <3>1 DEF Undisturbed, CloseSlotSucceeds
  <2>4. ASSUME NEW b \in Browsers, NEW new \in SUBSET Browsers, CloseSlotFails(b, new)
        PROVE  Undisturbed
    BY <2>4 DEF Undisturbed, CloseSlotFails, SlotRecord
  <2>5. ASSUME NEW b \in Browsers, PhysicalCloseFinishes(b) PROVE Undisturbed
    BY <2>5 DEF Undisturbed, PhysicalCloseFinishes, ownerVars, SlotRecord
  <2>6. ASSUME NEW b \in Browsers, ReconcileLatePhysicalClose(b) PROVE Undisturbed
    <3>1. b \notin slots
      BY <2>6 DEF ReconcileLatePhysicalClose, Ownership, SingleOwner
    <3> QED BY <1>2, <1>3, <2>6, <3>1 DEF Undisturbed, ReconcileLatePhysicalClose
  <2> QED BY <1>7, <2>1, <2>2, <2>3, <2>4, <2>5, <2>6 DEF Upkeep, CloseSlot
<1>8. CASE Shutdown
  <2>1. ASSUME NEW retried, ShutDownSlots(retried) PROVE Undisturbed
    BY <1>1, <2>1 DEF Undisturbed, ShutDownSlots, Idle
  <2>2. CASE CloserStep \/ CloseCancelled
    BY <2>2 DEF Undisturbed, CloserStep, CloseSeesStartupEnd, CloseChecksDrain, CloseGathers,
         CloseCancelled, browserVars, ownerVars
  <2> QED BY <1>8, <2>1, <2>2 DEF Shutdown, Quiesce, CloseBegins
<1>9. CASE UNCHANGED vars
  BY <1>9 DEF Undisturbed, vars, browserVars, ownerVars
<1> QED BY <1>4, <1>5, <1>6, <1>7, <1>8, <1>9

-----------------------------------------------------------------------------
(* Granting and releasing.                                                 *)

\* Granting r a context of b counts it, and keeps every lease.
LEMMA LeasesGrant ==
    ASSUME TypeOK, SlotAccounting, LeaseKeepsBrowser,
           NEW r \in Requests, held[r] = NoBrowser,
           NEW b \in Browsers, Serves(b) \/ ServesAsFallback(b), Grant(r, b)
    PROVE  SlotAccounting' /\ LeaseKeepsBrowser'
<1> USE DEF TypeOK, BrowserTypes, PoolTypes, RequestTypes
<1>1. /\ held' = [held EXCEPT ![r] = b]
      /\ slot' = [RefreshedSlot EXCEPT ![b] = Reserve(RefreshedSlot[b])]
      /\ slots' = slots \ Reaped
  BY DEF Grant, RefreshOwners, InService
<1>2. b \in slots' /\ b # NoBrowser
  BY <1>1, PoolAssumption DEF Serves, ServesAsFallback, InService, PoolAssumption
<1>3. RefreshedSlot \in [Browsers -> SlotRecord]
  BY RefreshedSlotType
<1>4. /\ slot'[b].active = slot[b].active + 1
      /\ \A c \in Browsers \ {b} : slot'[c].active = slot[c].active
  BY <1>1, <1>3, RefreshedSlotKeeps, ReserveKeeps
<1>5. /\ Holders(b)' = Holders(b) \cup {r}
      /\ r \notin Holders(b)
      /\ Holders(b) \in SUBSET Requests
      /\ \A c \in Browsers \ {b} : Holders(c)' = Holders(c)
  BY <1>1, <1>2, PoolAssumption DEF Holders, PoolAssumption
<1>6. SlotAccounting'
  <2>1. Cardinality(Holders(b)') = Cardinality(Holders(b)) + 1
    BY <1>5, OneMore
  <2> QED BY <1>4, <1>5, <2>1 DEF SlotAccounting
<1>7. \A c \in slots \ slots' : slot[c].active = 0
  BY <1>1 DEF Reaped
<1>8. ASSUME NEW q \in Requests, held'[q] # NoBrowser PROVE held'[q] \in slots'
  <2>1. CASE held'[q] = b
    BY <1>2, <2>1
  <2>2. CASE held'[q] # b
    <3>1. held[q] = held'[q] /\ held[q] \in slots
      BY <1>1, <1>8, <2>2 DEF LeaseKeepsBrowser
    <3>2. Holders(held[q]) # {}
      BY DEF Holders
    <3> QED BY <1>7, <3>1, <3>2, IdleBrowsers
  <2> QED BY <2>1, <2>2
<1> QED BY <1>6, <1>8 DEF LeaseKeepsBrowser

\* Releasing the reservation of r discounts it, and closes its browser only if r
\* was the last to hold a context of it.
LEMMA LeasesRelease ==
    ASSUME TypeOK, Holding, SlotAccounting, LeaseKeepsBrowser,
           NEW r \in Requests, ReleaseSlot(r)
    PROVE  SlotAccounting' /\ LeaseKeepsBrowser'
<1> USE DEF TypeOK, BrowserTypes, PoolTypes, RequestTypes
<1>1. PICK b \in Browsers : b = held[r] /\ b # NoBrowser /\ b \in slots
  BY DEF ReleaseSlot, Holding, LeaseKeepsBrowser
<1> DEFINE s == Released(slot[b], discard[r])
           last == s.state = "retiring" /\ s.active = 0
<1>2. /\ held' = [held EXCEPT ![r] = NoBrowser]
      /\ slot' = [slot EXCEPT ![b] = IF last THEN Closing(s) ELSE s]
      /\ slots' = IF last THEN slots \ {b} ELSE slots
  BY <1>1 DEF ReleaseSlot
<1>3. s \in SlotRecord /\ s.active = slot[b].active - 1 /\ Closing(s).active = s.active
  BY <1>1, ReleasedType, ReleasedKeeps, ClosingKeeps
<1> HIDE DEF s
<1>4. /\ slot'[b].active = slot[b].active - 1
      /\ \A c \in Browsers \ {b} : slot'[c].active = slot[c].active
  BY <1>1, <1>2, <1>3
<1>5. /\ Holders(b)' = Holders(b) \ {r}
      /\ r \in Holders(b)
      /\ Holders(b) \in SUBSET Requests
      /\ \A c \in Browsers \ {b} : Holders(c)' = Holders(c)
  BY <1>1, <1>2, PoolAssumption DEF Holders, PoolAssumption
<1>6. Cardinality(Holders(b)') = slot[b].active - 1
  BY <1>1, <1>5, OneMore DEF SlotAccounting
<1>7. SlotAccounting'
  BY <1>4, <1>5, <1>6 DEF SlotAccounting
<1>8. last => Holders(b)' = {}
  <2>1. IsFiniteSet(Holders(b)')
    BY <1>5, FiniteRequests
  <2> QED BY <1>3, <1>6, <2>1, FS_EmptySet
<1>9. ASSUME NEW q \in Requests, held'[q] # NoBrowser PROVE held'[q] \in slots'
  <2>1. held[q] = held'[q] /\ held[q] \in slots
    BY <1>2, <1>9 DEF LeaseKeepsBrowser
  <2>2. held'[q] = b => q \in Holders(b)'
    BY DEF Holders
  <2>3. held'[q] = b => ~last
    BY <1>8, <2>2
  <2> QED BY <1>2, <2>1, <2>3
<1> QED BY <1>7, <1>9 DEF LeaseKeepsBrowser

\* The other steps of requests leave reservations alone.
LEMMA LeasesRequest ==
    ASSUME TypeOK, Holding, SlotAccounting, LeaseKeepsBrowser, Request
    PROVE  SlotAccounting' /\ LeaseKeepsBrowser'
<1>1. ASSUME NEW r \in Requests, NEW b \in Browsers,
             AcquireHealthy(r, b) \/ AcquireSoftRetiring(r, b)
      PROVE  SlotAccounting' /\ LeaseKeepsBrowser'
  <2>1. held[r] = NoBrowser
    BY <1>1 DEF AcquireHealthy, AcquireSoftRetiring, Acquiring, Holding
  <2>2. (Serves(b) \/ ServesAsFallback(b)) /\ Grant(r, b)
    BY <1>1 DEF AcquireHealthy, AcquireSoftRetiring
  <2> QED BY <2>1, <2>2, LeasesGrant
<1>2. ASSUME NEW r \in Requests,
             \/ \E b \in Browsers : AcquireLaunch(r, b)
             \/ AcquireAfterFailure(r)
             \/ AcquireWait(r)
      PROVE  SlotAccounting' /\ LeaseKeepsBrowser'
  <2>1. held' = held /\ slot' = RefreshedSlot /\ \E due : RefreshOwners(due)
    BY <1>2 DEF AcquireLaunch, AcquireAfterFailure, AcquireWait, AcquireRaises
  <2> QED BY <2>1, RefreshUndisturbed, LeasesUndisturbed
<1>3. ASSUME NEW r \in Requests,
             \/ BeginTransient(r)
             \/ BeginPersistent(r)
             \/ AcquireRejected(r)
             \/ AcquireTimeout(r)
             \/ OpenContext(r)
             \/ \E why \in {"none", "error", "disconnected"} : StartFinalizer(r, why)
             \/ ReleasePersistent(r)
             \/ AccountingTaskDone(r)
             \/ NotifyPoolWaiters(r)
      PROVE  SlotAccounting' /\ LeaseKeepsBrowser'
  <2>1. UNCHANGED <<held, slot, slots>>
    BY <1>3 DEF BeginTransient, BeginPersistent, AcquireRejected, AcquireTimeout, AcquireRaises,
         OpenContext, StartFinalizer, ReleasePersistent, AccountingTaskDone, NotifyPoolWaiters,
         browserVars, ownerVars
  <2> QED BY <2>1, LeasesUndisturbed DEF Undisturbed
<1> QED BY <1>1, <1>2, <1>3, LeasesRelease DEF Request, Acquire, Account

-----------------------------------------------------------------------------
(* The two counters of contexts.                                           *)

\* A step that moves no request into or out of the counted phases keeps both counts.
LEMMA CountsUndisturbed ==
    ASSUME TransientAccounting, PersistentAccounting, UNCHANGED <<held, kind, countVars>>
    PROVE  TransientAccounting' /\ PersistentAccounting'
BY DEF TransientAccounting, PersistentAccounting, countVars

\* Only requests count.
LEMMA CountsBackground ==
    ASSUME World \/ Launch \/ Startup \/ Upkeep \/ Shutdown \/ UNCHANGED vars
    PROVE  UNCHANGED countVars
<1>1. CASE World
  BY <1>1 DEF World, FactoryReturns, FactoryRaises, BrowserDisconnects, BrowserAges
<1>2. CASE Launch
  BY <1>2 DEF Launch, LaunchTimesOut, LaunchFails, LaunchSucceeds, AbandonedLaunchEnds
<1>3. CASE Startup
  BY <1>3 DEF Startup, StartupStep, StartBegins, StartCallersCancel, StartupUnwinds,
       StartupSucceeds, StartupFinishes, StartupCancelledInHandoff, StartupCancelledInRecovery,
       StartupCancelledLaunching, StartupFails, RegisterStartedSlots, RecoverCancelledStart
<1>4. CASE Upkeep
  BY <1>4 DEF Upkeep, CloseSlot, RefreshPool, Maintain, CloseSlotSucceeds,
       CloseSlotFails, PhysicalCloseFinishes, ReconcileLatePhysicalClose
<1>5. CASE Shutdown
  BY <1>5 DEF Shutdown, Quiesce, CloseBegins, CloserStep, CloseSeesStartupEnd,
       CloseChecksDrain, CloseGathers, CloseCancelled
<1>6. CASE UNCHANGED vars
  BY <1>6 DEF vars
<1> QED BY <1>1, <1>2, <1>3, <1>4, <1>5, <1>6

\* Every step of a request counts what it reserves and discounts what it releases.
LEMMA CountsRequest ==
    ASSUME TypeOK, Holding, Counting, TransientAccounting, PersistentAccounting, Request
    PROVE  Counting' /\ TransientAccounting' /\ PersistentAccounting'
<1> USE DEF TypeOK, RequestTypes, PoolTypes
<1>1. /\ TransientHolders \in SUBSET Requests
      /\ Sessions \in SUBSET Requests
      /\ TransientAccounting <=> transient_contexts = Cardinality(TransientHolders)
      /\ PersistentAccounting <=> persistent_contexts = Cardinality(Sessions)
      /\ TransientAccounting' <=> transient_contexts' = Cardinality(TransientHolders')
      /\ PersistentAccounting' <=> persistent_contexts' = Cardinality(Sessions')
  BY DEF TransientHolders, Sessions, TransientAccounting, PersistentAccounting
<1>2. ASSUME NEW r \in Requests, NEW b \in Browsers, Acquiring(r), Grant(r, b)
      PROVE  Counting' /\ TransientAccounting' /\ PersistentAccounting'
  <2>1. /\ held' = [held EXCEPT ![r] = b] /\ kind' = kind
        /\ pc' = [pc EXCEPT ![r] = "opening"]
        /\ persistent_contexts' = persistent_contexts
        /\ transient_contexts' = IF kind[r] = "transient"
                                 THEN transient_contexts + 1 ELSE transient_contexts
    BY <1>2 DEF Grant, LeaveLoop
  <2>2. held[r] = NoBrowser
    BY <1>2 DEF Acquiring, Holding
  <2>3. Counting' /\ PersistentAccounting'
    BY <2>1 DEF Counting, PersistentAccounting
  <2>4. CASE kind[r] = "transient"
    <3>1. r \notin TransientHolders /\ TransientHolders' = TransientHolders \cup {r}
      BY <2>1, <2>2, <2>4, PoolAssumption DEF TransientHolders, PoolAssumption
    <3> QED BY <1>1, <2>1, <2>3, <2>4, <3>1, OneMore
  <2>5. CASE kind[r] # "transient"
    <3>1. TransientHolders' = TransientHolders
      BY <2>1, <2>5 DEF TransientHolders
    <3> QED BY <1>1, <2>1, <2>3, <2>5, <3>1
  <2> QED BY <2>4, <2>5
<1>3. ASSUME NEW r \in Requests, Acquiring(r) \/ pc[r] \in {"acquiring", "waiting"},
             UNCHANGED countVars, AcquireRaises(r)
      PROVE  Counting' /\ TransientAccounting' /\ PersistentAccounting'
  <2>1. UNCHANGED <<held, kind, countVars>>
    BY <1>3 DEF AcquireRaises
  <2>2. Counting'
    BY <1>3 DEF AcquireRaises, LeaveLoop, Counting
  <2> QED BY <2>1, <2>2, CountsUndisturbed
<1>4. ASSUME NEW r \in Requests,
             \/ \E b \in Browsers : AcquireLaunch(r, b)
             \/ AcquireWait(r)
             \/ BeginTransient(r)
             \/ OpenContext(r)
             \/ \E why \in {"none", "error", "disconnected"} : StartFinalizer(r, why)
             \/ AccountingTaskDone(r)
             \/ NotifyPoolWaiters(r)
      PROVE  Counting' /\ TransientAccounting' /\ PersistentAccounting'
  <2>1. UNCHANGED <<held, kind, countVars>>
    BY <1>4 DEF AcquireLaunch, AcquireWait, BeginTransient, OpenContext, StartFinalizer,
         AccountingTaskDone, NotifyPoolWaiters
  <2>2. Counting'
    <3> USE DEF Counting
    <3>1. CASE (\E b \in Browsers : AcquireLaunch(r, b)) \/ AcquireWait(r)
      <4>1. pc' = [pc EXCEPT ![r] = "waiting"] /\ kind' = kind
        BY <3>1 DEF AcquireLaunch, AcquireWait
      <4> QED BY <4>1
    <3>2. CASE BeginTransient(r) \/ OpenContext(r)
      BY <3>2 DEF BeginTransient, OpenContext
    <3>3. CASE \E why \in {"none", "error", "disconnected"} : StartFinalizer(r, why)
      BY <3>3 DEF StartFinalizer
    <3>4. CASE AccountingTaskDone(r) \/ NotifyPoolWaiters(r)
      BY <3>4 DEF AccountingTaskDone, NotifyPoolWaiters
    <3> QED BY <1>4, <3>1, <3>2, <3>3, <3>4
  <2> QED BY <2>1, <2>2, CountsUndisturbed
<1>5. ASSUME NEW r \in Requests, BeginPersistent(r)
      PROVE  Counting' /\ TransientAccounting' /\ PersistentAccounting'
  <2>1. kind[r] = "transient" /\ held[r] = NoBrowser
    BY <1>5 DEF BeginPersistent, Counting, Holding
  <2>2. /\ r \notin Sessions /\ Sessions' = Sessions \cup {r}
        /\ TransientHolders' = TransientHolders
    BY <1>5, <2>1 DEF BeginPersistent, Sessions, TransientHolders
  <2>3. Counting'
    BY <1>5 DEF BeginPersistent, Counting
  <2> QED BY <1>1, <1>5, <2>2, <2>3, OneMore DEF BeginPersistent
<1>6. ASSUME NEW r \in Requests, ReleaseSlot(r)
      PROVE  Counting' /\ TransientAccounting' /\ PersistentAccounting'
  <2>1. /\ held' = [held EXCEPT ![r] = NoBrowser] /\ kind' = kind
        /\ persistent_contexts' = persistent_contexts
        /\ transient_contexts' = IF kind[r] = "transient"
                                 THEN transient_contexts - 1 ELSE transient_contexts
    BY <1>6 DEF ReleaseSlot
  <2>2. held[r] # NoBrowser
    BY <1>6 DEF ReleaseSlot, Holding
  <2>3. Counting' /\ PersistentAccounting'
    BY <1>6, <2>1 DEF ReleaseSlot, Counting, PersistentAccounting
  <2>4. CASE kind[r] = "transient"
    <3>1. r \in TransientHolders /\ TransientHolders' = TransientHolders \ {r}
      BY <2>1, <2>2, <2>4 DEF TransientHolders
    <3> QED BY <1>1, <2>1, <2>3, <2>4, <3>1, OneMore
  <2>5. CASE kind[r] # "transient"
    <3>1. TransientHolders' = TransientHolders
      BY <2>1, <2>5 DEF TransientHolders
    <3> QED BY <1>1, <2>1, <2>3, <2>5, <3>1
  <2> QED BY <2>4, <2>5
<1>7. ASSUME NEW r \in Requests, ReleasePersistent(r)
      PROVE  Counting' /\ TransientAccounting' /\ PersistentAccounting'
  <2>1. kind[r] = "persistent" /\ held[r] = NoBrowser
    BY <1>7 DEF ReleasePersistent, Counting, Holding
  <2>2. /\ r \in Sessions /\ Sessions' = Sessions \ {r}
        /\ TransientHolders' = TransientHolders
    BY <1>7, <2>1 DEF ReleasePersistent, Sessions, TransientHolders
  <2>3. Counting'
    BY <1>7 DEF ReleasePersistent, Counting
  <2> QED BY <1>1, <1>7, <2>2, <2>3, OneMore DEF ReleasePersistent
<1>8. ASSUME NEW r \in Requests,
             AcquireRejected(r) \/ AcquireAfterFailure(r) \/ AcquireTimeout(r)
      PROVE  Counting' /\ TransientAccounting' /\ PersistentAccounting'
  BY <1>3, <1>8 DEF AcquireRejected, AcquireAfterFailure, AcquireTimeout
<1> QED BY <1>2, <1>4, <1>5, <1>6, <1>7, <1>8
        DEF Request, Acquire, Account, AcquireHealthy, AcquireSoftRetiring

-----------------------------------------------------------------------------
(* The inductive invariant and its theorems.                               *)

PoolInvariant == TypeOK /\ Ownership /\ LeasesTracked

\* The invariant holds initially.
LEMMA PoolInvariantInit == Init => PoolInvariant
<1> SUFFICES ASSUME Init PROVE PoolInvariant
  OBVIOUS
<1>1. Holding /\ Counting /\ LeaseKeepsBrowser
  BY DEF Init, Holding, Counting, LeaseKeepsBrowser
<1>2. \A b \in Browsers : slot[b].active = 0 /\ Holders(b) = {}
  BY PoolAssumption DEF Init, DroppedSlot, NewSlot, Holders, PoolAssumption
<1>3. SlotAccounting
  BY <1>2, FS_EmptySet DEF SlotAccounting
<1>4. TransientAccounting
  <2>1. {r \in Requests : held[r] # NoBrowser /\ kind[r] = "transient"} = {}
    BY DEF Init
  <2> QED BY <2>1, FS_EmptySet DEF Init, TransientAccounting
<1>5. PersistentAccounting
  <2>1. {r \in Requests : kind[r] = "persistent"} = {}
    BY DEF Init
  <2> QED BY <2>1, FS_EmptySet DEF Init, PersistentAccounting
<1> QED BY <1>1, <1>3, <1>4, <1>5, TypeInit, OwnershipInit
        DEF PoolInvariant, LeasesTracked, Accounting

\* Every step preserves it.
LEMMA PoolInvariantNext == PoolInvariant /\ [Next]_vars => PoolInvariant'
<1> SUFFICES ASSUME PoolInvariant, [Next]_vars PROVE PoolInvariant'
  OBVIOUS
<1> USE DEF PoolInvariant, LeasesTracked, Accounting
<1>1. TypeOK' /\ Holding'
  BY BrowserTypesNext, PoolTypesNext, RequestTypesNext, StartTypesNext, HoldingNext DEF TypeOK
<1>2. Ownership'
  BY OwnershipNext
<1>3. CASE Request
  BY <1>1, <1>2, <1>3, LeasesRequest, CountsRequest
<1>4. CASE World \/ Launch \/ Startup \/ Upkeep \/ Shutdown \/ UNCHANGED vars
  <2>1. UNCHANGED <<pc, kind, held>> /\ UNCHANGED countVars
    BY <1>4, RequestsUntouched, CountsBackground
  <2>2. SlotAccounting' /\ LeaseKeepsBrowser'
    BY <1>4, <2>1, BackgroundUndisturbed, LeasesUndisturbed
  <2>3. TransientAccounting' /\ PersistentAccounting'
    BY <2>1, CountsUndisturbed
  <2>4. Counting'
    BY <2>1 DEF Counting
  <2> QED BY <1>1, <1>2, <2>2, <2>3, <2>4
<1> QED BY <1>3, <1>4 DEF Next

\* The inductive invariant of the pool holds in every reachable state.
THEOREM PoolInvariantHolds == Spec => []PoolInvariant
BY PoolInvariantInit, PoolInvariantNext, PTL DEF Spec

\* A browser some request holds a context of stays in service until the last of
\* its contexts is released: no refresh, failed startup or shutdown closes it.
THEOREM LeasesKeepTheirBrowser == Spec => []LeaseKeepsBrowser
<1>1. PoolInvariant => LeaseKeepsBrowser
  BY DEF PoolInvariant, LeasesTracked
<1> QED BY <1>1, PoolInvariantHolds, PTL

\* The per-browser, transient and persistent counters always equal the number of
\* reservations: no counter underflows and none leaks.
THEOREM CountersAreExact == Spec => []Accounting
<1>1. PoolInvariant => Accounting
  BY DEF PoolInvariant, LeasesTracked
<1> QED BY <1>1, PoolInvariantHolds, PTL

\* A running browser process is always in the hands of a launch, a slot, a close or
\* the quarantine.
THEOREM NoBrowserIsLost == Spec => []NoOrphanBrowser
<1>1. PoolInvariant => NoOrphanBrowser
  BY DEF PoolInvariant, Ownership
<1> QED BY <1>1, PoolInvariantHolds, PTL

\* No browser generation is owned twice: none is launched, in service and closing
\* at a time.
THEOREM BrowsersHaveOneOwner == Spec => []SingleOwner
<1>1. PoolInvariant => SingleOwner
  BY DEF PoolInvariant, Ownership
<1> QED BY <1>1, PoolInvariantHolds, PTL

-----------------------------------------------------------------------------
(* No browser holds more contexts than allowed.                              *)

\* A grant goes to a browser with room.
LEMMA LimitsGrant ==
    ASSUME PoolInvariant, ContextLimits,
           NEW r \in Requests, NEW b \in Browsers, Serves(b) \/ ServesAsFallback(b), Grant(r, b)
    PROVE  ContextLimits'
<1> USE DEF PoolInvariant, TypeOK, PoolTypes, BrowserTypes
<1>1. RefreshedSlot \in [Browsers -> SlotRecord]
  BY RefreshedSlotType
<1>2. \A c \in Browsers : RefreshedSlot[c].active = slot[c].active
  BY RefreshedSlotKeeps
<1>3. slot[b].active < MaxContexts
  BY <1>2 DEF Serves, ServesAsFallback, HealthyAvailable, SoftRetiringAvailable
<1>4. /\ slot'[b].active = slot[b].active + 1
      /\ \A c \in Browsers \ {b} : slot'[c].active = slot[c].active
  <2>1. slot' = [RefreshedSlot EXCEPT ![b] = Reserve(RefreshedSlot[b])]
    BY DEF Grant
  <2> QED BY <1>1, <1>2, <2>1, ReserveKeeps
<1>5. persistent_contexts' = persistent_contexts
  BY DEF Grant
<1>6. slot[b].active \in Int /\ MaxContexts \in Int
  BY PoolAssumption DEF PoolAssumption, SlotRecord
<1> QED BY <1>3, <1>4, <1>5, <1>6 DEF ContextLimits

\* A release makes room.
LEMMA LimitsRelease ==
    ASSUME PoolInvariant, ContextLimits, NEW r \in Requests, ReleaseSlot(r)
    PROVE  ContextLimits'
<1> USE DEF PoolInvariant, LeasesTracked, TypeOK, BrowserTypes, PoolTypes, RequestTypes
<1>1. PICK b \in Browsers : b = held[r] /\ b # NoBrowser
  BY DEF ReleaseSlot, Holding, LeaseKeepsBrowser
<1> DEFINE s == Released(slot[b], discard[r])
           last == s.state = "retiring" /\ s.active = 0
<1>2. slot' = [slot EXCEPT ![b] = IF last THEN Closing(s) ELSE s]
  BY <1>1 DEF ReleaseSlot
<1>3. s \in SlotRecord /\ s.active = slot[b].active - 1 /\ Closing(s).active = s.active
  BY <1>1, ReleasedType, ReleasedKeeps, ClosingKeeps
<1> HIDE DEF s
<1>4. /\ slot'[b].active = slot[b].active - 1
      /\ \A c \in Browsers \ {b} : slot'[c].active = slot[c].active
  BY <1>1, <1>2, <1>3
<1>5. persistent_contexts' = persistent_contexts
  BY DEF ReleaseSlot
<1>6. slot[b].active \in Int /\ MaxContexts \in Int
  BY PoolAssumption DEF PoolAssumption, SlotRecord
<1> QED BY <1>4, <1>5, <1>6 DEF ContextLimits

\* The other steps of requests leave the contexts of the browsers alone.
LEMMA LimitsRequest ==
    ASSUME PoolInvariant, ContextLimits, Request
    PROVE  ContextLimits'
<1> USE DEF PoolInvariant, LeasesTracked, Accounting, PersistentAccounting, TypeOK, BrowserTypes,
            PoolTypes, RequestTypes
<1>1. ASSUME NEW r \in Requests, NEW b \in Browsers,
             AcquireHealthy(r, b) \/ AcquireSoftRetiring(r, b)
      PROVE  ContextLimits'
  BY <1>1, LimitsGrant DEF AcquireHealthy, AcquireSoftRetiring
<1>2. ASSUME NEW r \in Requests,
             \/ \E b \in Browsers : AcquireLaunch(r, b)
             \/ AcquireAfterFailure(r)
             \/ AcquireWait(r)
      PROVE  ContextLimits'
  <2>1. slot' = RefreshedSlot /\ persistent_contexts' = persistent_contexts
    BY <1>2 DEF AcquireLaunch, AcquireAfterFailure, AcquireWait, AcquireRaises, countVars
  <2>2. \A c \in Browsers : slot'[c].active = slot[c].active
    BY <2>1, RefreshedSlotKeeps
  <2> QED BY <2>1, <2>2 DEF ContextLimits
<1>3. ASSUME NEW r \in Requests,
             \/ BeginTransient(r)
             \/ AcquireRejected(r)
             \/ AcquireTimeout(r)
             \/ OpenContext(r)
             \/ \E why \in {"none", "error", "disconnected"} : StartFinalizer(r, why)
             \/ AccountingTaskDone(r)
             \/ NotifyPoolWaiters(r)
      PROVE  ContextLimits'
  <2>1. slot' = slot /\ persistent_contexts' = persistent_contexts
    BY <1>3 DEF BeginTransient, AcquireRejected, AcquireTimeout, AcquireRaises, OpenContext,
         StartFinalizer, AccountingTaskDone, NotifyPoolWaiters, browserVars, countVars
  <2> QED BY <2>1 DEF ContextLimits
<1>4. ASSUME NEW r \in Requests, BeginPersistent(r)
      PROVE  ContextLimits'
  <2>1. slot' = slot /\ persistent_contexts < MaxPersistent
        /\ persistent_contexts' = persistent_contexts + 1
    BY <1>4 DEF BeginPersistent, browserVars
  <2>2. persistent_contexts \in Int /\ MaxPersistent \in Int
    BY PoolAssumption DEF PoolAssumption, MaxPersistent, TotalContexts
  <2> QED BY <2>1, <2>2 DEF ContextLimits
<1>5. ASSUME NEW r \in Requests, ReleasePersistent(r)
      PROVE  ContextLimits'
  <2>1. slot' = slot /\ persistent_contexts' \in {persistent_contexts, persistent_contexts - 1}
    BY <1>5 DEF ReleasePersistent, browserVars, countVars
  <2>2. persistent_contexts \in Int /\ MaxPersistent \in Int
    BY PoolAssumption DEF PoolAssumption, MaxPersistent, TotalContexts
  <2> QED BY <2>1, <2>2 DEF ContextLimits
<1>6. ASSUME NEW r \in Requests, ReleaseSlot(r)
      PROVE  ContextLimits'
  BY <1>6, LimitsRelease
<1> HIDE DEF PoolInvariant, TypeOK
<1> QED BY <1>1, <1>2, <1>3, <1>4, <1>5, <1>6 DEF Request, Acquire, Account

\* No browser ever holds more contexts than allowed, and sessions never take those that
\* are reserved for stateless requests (pool.py:580).
THEOREM LimitsAreKept == Spec => []ContextLimits
<1>1. Init => ContextLimits
  <2> SUFFICES ASSUME Init PROVE ContextLimits
    OBVIOUS
  <2>1. 0 <= MaxContexts
    BY PoolAssumption DEF PoolAssumption
  <2>2. 0 <= MaxPersistent
    <3>1. TotalContexts \in Int
      BY PoolAssumption DEF PoolAssumption, TotalContexts
    <3> QED BY <3>1, PoolAssumption DEF PoolAssumption, MaxPersistent
  <2>3. \A b \in Browsers : slot[b].active = 0
    BY DEF Init, DroppedSlot, NewSlot
  <2>4. persistent_contexts = 0
    BY DEF Init
  <2> QED BY <2>1, <2>2, <2>3, <2>4 DEF ContextLimits
<1>2. PoolInvariant /\ ContextLimits /\ [Next]_vars => ContextLimits'
  <2> SUFFICES ASSUME PoolInvariant, ContextLimits, [Next]_vars PROVE ContextLimits'
    OBVIOUS
  <2>1. CASE Request
    BY <2>1, LimitsRequest
  <2>2. CASE World \/ Launch \/ Startup \/ Upkeep \/ Shutdown \/ UNCHANGED vars
    <3>1. Undisturbed /\ UNCHANGED countVars
      BY <2>2, BackgroundUndisturbed, CountsBackground DEF PoolInvariant, LeasesTracked, Accounting
    <3> QED BY <3>1 DEF Undisturbed, countVars, ContextLimits
  <2> QED BY <2>1, <2>2 DEF Next
<1> QED BY <1>1, <1>2, PoolInvariantHolds, PTL DEF Spec
=============================================================================
