----------------------------- MODULE BrowserPool -----------------------------
(***************************************************************************)
(* The browser pool of src/camouflare/pool.py: browsers are launched by    *)
(* background tasks, lease their contexts to requests, retire, and are     *)
(* closed by background tasks.  Every critical section of the pool's       *)
(* asyncio.Condition is one action: between two awaits nothing else runs.  *)
(*                                                                         *)
(* An element of Browsers is one browser generation: its factory task, its *)
(* BrowserSlot and its process.  An identifier that no task and no slot    *)
(* refers to any more may be launched again, so the number of launches of  *)
(* a behaviour is not bounded.                                             *)
(***************************************************************************)
EXTENDS Integers, FiniteSets

CONSTANTS Browsers,         \* identifiers of browser generations
          Requests,         \* callers of lease_context and create_persistent_context
          Kinds,            \* the kinds of context they ask for
          Events,           \* what befalls browsers: a subset of {"disconnect", "age"}
          NoBrowser,        \* the value of held[r] for a request without a reservation
          MinBrowsers,      \* POOL_MIN_BROWSERS
          MaxBrowsers,      \* POOL_MAX_BROWSERS
          MaxContexts,      \* MAX_CONTEXTS_PER_BROWSER
          MaxUses,          \* BROWSER_MAX_USES
          ReservedTransient,\* RESERVED_TRANSIENT_CONTEXTS
          MaxCloseRetries   \* MAX_CLOSE_RETRIES

\* config.py refuses other settings before a pool is built.
ASSUME PoolAssumption ==
    /\ IsFiniteSet(Browsers)
    /\ IsFiniteSet(Requests)
    /\ Kinds \subseteq {"transient", "persistent"}
    /\ NoBrowser \notin Browsers
    /\ MinBrowsers \in Nat
    /\ MaxBrowsers \in Nat \ {0}
    /\ MinBrowsers <= MaxBrowsers
    /\ MaxContexts \in Nat \ {0}
    /\ MaxUses \in Nat \ {0}
    /\ ReservedTransient \in Nat
    /\ MaxCloseRetries \in Nat

\* close() waits on the pool's condition beside the requests.
ASSUME CloserAssumption == "close" \notin Requests

VARIABLES
    slot,                \* browser -> its BrowserSlot
    factory,             \* browser -> result of its factory task, until consumed
    slots,               \* self._slots
    create_tasks,        \* self._create_tasks
    create_watchers,     \* self._create_watchers: abandoned launches
    close_tasks,         \* self._close_tasks
    failed_close_slots,  \* self._failed_close_slots
    transient_contexts,  \* self._transient_contexts
    persistent_contexts, \* self._persistent_contexts
    pc,                  \* request -> where it is
    kind,                \* request -> the kind of context it asks for
    held,                \* request -> browser of its unreleased _SlotReservation
    discard,             \* request -> what its release does to the browser
    launched,            \* requests whose acquire loop has launched a browser
    outdated,            \* requests that observed an older failure generation
    notified,            \* waiters of the condition that notify_all has woken
    started,             \* self._started
    starting,            \* self._starting
    startup,             \* where the startup task (_start_once) is
    startup_tasks,       \* the launches of the current startup
    startup_cancelled,   \* the startup task has been cancelled, not yet resumed
    registration,        \* _register_started_slots: none, pending or done
    recovery,            \* _recover_cancelled_start is owed
    closed,              \* self._closed
    closer               \* where the caller of close() is

browserVars == <<slot, factory>>
ownerVars == <<slots, create_tasks, create_watchers, close_tasks, failed_close_slots>>
countVars == <<transient_contexts, persistent_contexts>>
requestVars == <<pc, kind, held, discard, launched, outdated>>
startVars == <<started, starting, startup, startup_tasks, startup_cancelled,
               registration, recovery>>
closeVars == <<closed, closer>>
vars == <<browserVars, ownerVars, countVars, requestVars, notified, startVars, closeVars>>

-----------------------------------------------------------------------------
(* Derived constants and the values of a BrowserSlot.                      *)

MaxPhysical == 2 * MaxBrowsers
MaxAbandoned == 2 * MaxBrowsers
TotalContexts == MaxBrowsers * MaxContexts
MaxPersistent == IF TotalContexts > ReservedTransient
                 THEN TotalContexts - ReservedTransient ELSE 0

SoftReasons == {"max_uses", "max_age"}
HardReasons == {"disconnected", "error", "shutdown"}

SlotRecord == [state : {"ready", "retiring", "closing"},
               reason : {"none"} \cup SoftReasons \cup HardReasons,
               active : Int,
               uses : 0 .. MaxUses,          \* saturates: only uses >= max_uses counts
               aged : BOOLEAN,               \* created_at is max_age seconds ago
               browser : {"connected", "disconnected", "closed"},
               failures : 0 .. MaxCloseRetries]

NewSlot == [state |-> "ready", reason |-> "none", active |-> 0, uses |-> 0,
            aged |-> FALSE, browser |-> "connected", failures |-> 0]

\* What is left of a slot once its browser is closed and dropped: the code keeps
\* state "closing", so a second _schedule_close_unlocked of it does nothing.
DroppedSlot == [NewSlot EXCEPT !.state = "closing", !.browser = "closed"]

ShouldRecycle(s) == s.uses >= MaxUses \/ s.aged

\* A bug for TypeOK to find: a reason for retirement the pool has no name for.
RecycleReasonUnknown(s) == IF s.uses >= MaxUses THEN "max_uses" ELSE "expired"

RecycleReason(s) == IF s.uses >= MaxUses THEN "max_uses" ELSE "max_age"

\* A bug for RetirementIsFinal to find: the last reason wins, hard or soft.
MarkRetiringAnew(s, reason) ==
    IF s.state = "closing" THEN s ELSE [s EXCEPT !.state = "retiring", !.reason = reason]

\* _mark_retiring_unlocked: hard reasons override, soft reasons do not.
MarkRetiring(s, reason) ==
    IF s.state = "closing" THEN s
    ELSE [s EXCEPT !.state = "retiring",
                   !.reason = IF @ = "none" \/ reason \notin SoftReasons
                              THEN reason ELSE @]

\* _schedule_close_unlocked on the slot; what only a live slot needs is forgotten.
Closing(s) == [s EXCEPT !.state = "closing", !.reason = "none",
                        !.uses = 0, !.aged = FALSE]

\* _reserve_slot_unlocked on the slot: crossing the use limit retires it.
Reserve(s) ==
    LET t == [s EXCEPT !.active = @ + 1,
                       !.uses = IF @ < MaxUses THEN @ + 1 ELSE @]
    IN  IF t.state = "ready" /\ ShouldRecycle(t)
        THEN MarkRetiring(t, RecycleReason(t)) ELSE t

\* One slot in _refresh_recycling_unlocked, before idle retired slots are closed.
Refresh(s) ==
    LET t == IF s.browser # "connected" THEN MarkRetiring(s, "disconnected") ELSE s
    IN  IF t.state = "ready" /\ ShouldRecycle(t)
        THEN MarkRetiring(t, RecycleReason(t)) ELSE t

\* A bug for ContextLimits to find: one context too many.
HealthyOverfull(s) == s.state = "ready" /\ s.active <= MaxContexts /\ ~ShouldRecycle(s)

HealthyAvailable(s) ==
    s.state = "ready" /\ s.active < MaxContexts /\ ~ShouldRecycle(s)

\* A bug for ImplementsLeases to find: a browser retired for any reason serves.
AnyRetiringAvailable(s) ==
    s.state = "retiring" /\ s.active > 0 /\ s.active < MaxContexts

SoftRetiringAvailable(s) ==
    /\ s.state = "retiring"
    /\ s.active > 0
    /\ s.active < MaxContexts
    /\ s.reason \in SoftReasons

-----------------------------------------------------------------------------
(* Helpers over the pool's state.                                          *)

Owned == slots \cup create_tasks \cup create_watchers \cup close_tasks
               \cup failed_close_slots

\* Identifiers nothing refers to: a launch takes one of them.
Unused == Browsers \ (Owned \cup startup_tasks)

PhysicalGenerations ==
    Cardinality(slots) + Cardinality(create_tasks) + Cardinality(create_watchers)
    + Cardinality(close_tasks) + Cardinality(failed_close_slots)

Waiting == {r \in Requests : pc[r] = "waiting"}

AccountingTasks == {r \in Requests : pc[r] \in {"finalizing", "unreserving", "accounted"}}

Waiters == Waiting \cup (IF closer = "drain" THEN {"close"} ELSE {})

\* A bug for NobodyStranded to find: notify() where the code needs notify_all().
NotifyOne ==
    IF Waiters = {} THEN notified' = {}
    ELSE \E w \in Waiters : notified' = (notified \cap Waiters) \cup {w}

NotifyAll == notified' = Waiters

\* A bug for LeaseKeepsBrowser to find: retired browsers close under their leases.
ReapedInUse == {b \in slots : Refresh(slot[b]).state = "retiring"}

\* _refresh_recycling_unlocked: dead and worn slots retire, idle retired ones close.
Reaped == {b \in slots : Refresh(slot[b]).state = "retiring" /\ slot[b].active = 0}

RefreshedSlot ==
    [b \in Browsers |-> IF b \in Reaped THEN Closing(slot[b])
                        ELSE IF b \in slots THEN Refresh(slot[b]) ELSE slot[b]]

InService == slots \ Reaped

\* _retry_failed_closes_unlocked: due is the set whose backoff has passed.
Retryable == {b \in failed_close_slots : slot[b].failures < MaxCloseRetries}

RefreshOwners(due) ==
    /\ slots' = InService
    /\ close_tasks' = close_tasks \cup Reaped \cup due
    /\ failed_close_slots' = failed_close_slots \ due

\* _start_create_task_unlocked for each identifier in new.
StartCreateTasks(new) ==
    /\ create_tasks' = create_tasks \cup new
    /\ factory' = [b \in Browsers |-> IF b \in new THEN "running" ELSE factory[b]]

\* A bug for BackgroundLaunchesFit to find: retired and closing browsers do not count.
ReplenishRegardless(record, serving, occupied) ==
    LET healthy == {b \in serving : record[b].state = "ready" /\ ~ShouldRecycle(record[b])}
        missing == MinBrowsers - Cardinality(healthy) - Cardinality(create_tasks)
    IN  IF starting \/ ~started \/ closed \/ Waiting # {} \/ missing < 0 THEN 0 ELSE missing

\* _replenish_unlocked: how many background launches, given the slots in service
\* and the number of generations that occupy the pool.
ReplenishCount(record, serving, occupied) ==
    LET healthy == {b \in serving : record[b].state = "ready" /\ ~ShouldRecycle(record[b])}
        missing == MinBrowsers - Cardinality(healthy) - Cardinality(create_tasks)
        room == MaxBrowsers - occupied
        wanted == IF missing < room THEN missing ELSE room
    IN  IF \/ starting \/ ~started \/ closed \/ Waiting # {}
           \/ Cardinality(create_watchers) >= MaxAbandoned
           \/ wanted < 0
        THEN 0 ELSE wanted

-----------------------------------------------------------------------------
Init ==
    /\ slot = [b \in Browsers |-> DroppedSlot]
    /\ factory = [b \in Browsers |-> "none"]
    /\ slots = {}
    /\ create_tasks = {}
    /\ create_watchers = {}
    /\ close_tasks = {}
    /\ failed_close_slots = {}
    /\ transient_contexts = 0
    /\ persistent_contexts = 0
    /\ pc = [r \in Requests |-> "idle"]
    /\ kind = [r \in Requests |-> "transient"]
    /\ held = [r \in Requests |-> NoBrowser]
    /\ discard = [r \in Requests |-> "none"]
    /\ launched = {}
    /\ outdated = {}
    /\ notified = {}
    /\ started = FALSE
    /\ starting = FALSE
    /\ startup = "none"
    /\ startup_tasks = {}
    /\ startup_cancelled = FALSE
    /\ registration = "none"
    /\ recovery = FALSE
    /\ closed = FALSE
    /\ closer = "idle"

-----------------------------------------------------------------------------
(* The world: launches end, browsers die and grow old.                     *)

\* The factory returns a browser: even for an abandoned launch, which may
\* ignore its cancellation.
FactoryReturns(b) ==
    /\ factory[b] = "running"
    /\ factory' = [factory EXCEPT ![b] = "returned"]
    /\ slot' = [slot EXCEPT ![b] = NewSlot]
    /\ UNCHANGED <<ownerVars, countVars, requestVars, notified, startVars, closeVars>>

FactoryRaises(b) ==
    /\ factory[b] = "running"
    /\ factory' = [factory EXCEPT ![b] = "raised"]
    /\ UNCHANGED <<slot, ownerVars, countVars, requestVars, notified, startVars, closeVars>>

\* The process of a pooled browser exits; nobody in the pool is told.
BrowserDisconnects(b) ==
    /\ "disconnect" \in Events
    /\ b \in slots
    /\ slot[b].browser = "connected"
    /\ slot' = [slot EXCEPT ![b].browser = "disconnected"]
    /\ UNCHANGED <<factory, ownerVars, countVars, requestVars, notified, startVars, closeVars>>

\* time.monotonic() - created_at reaches browser_max_age_seconds.
BrowserAges(b) ==
    /\ "age" \in Events
    /\ b \in slots
    /\ ~slot[b].aged
    /\ slot' = [slot EXCEPT ![b].aged = TRUE]
    /\ UNCHANGED <<factory, ownerVars, countVars, requestVars, notified, startVars, closeVars>>

-----------------------------------------------------------------------------
(* Acquiring a context.                                                    *)

\* lease_context calls _acquire_slot, which reads the failure generation.
BeginTransient(r) ==
    /\ pc[r] = "idle"
    /\ "transient" \in Kinds
    /\ pc' = [pc EXCEPT ![r] = "acquiring"]
    /\ UNCHANGED <<kind, held, discard, launched, outdated, browserVars, ownerVars,
                   countVars, notified, startVars, closeVars>>

\* create_persistent_context counts its context before it waits for a slot; a
\* closed pool or a full count refuses it without a change.
BeginPersistent(r) ==
    /\ pc[r] = "idle"
    /\ "persistent" \in Kinds
    /\ ~closed
    /\ persistent_contexts < MaxPersistent
    /\ persistent_contexts' = persistent_contexts + 1
    /\ pc' = [pc EXCEPT ![r] = "acquiring"]
    /\ kind' = [kind EXCEPT ![r] = "persistent"]
    /\ UNCHANGED <<held, discard, launched, outdated, browserVars, ownerVars,
                   transient_contexts, notified, startVars, closeVars>>

\* r runs an iteration of _acquire_slot's loop.
Acquiring(r) ==
    \/ pc[r] = "acquiring"
    \/ pc[r] = "waiting" /\ r \in notified

\* A bug for LeasesAreServed to find: the browser is chosen before the refresh.
ServesStale(b) == b \in slots /\ HealthyAvailable(slot[b])

Serves(b) == b \in InService /\ HealthyAvailable(RefreshedSlot[b])

ServesAsFallback(b) == b \in InService /\ SoftRetiringAvailable(RefreshedSlot[b])

CanServe == \E b \in Browsers : Serves(b) \/ ServesAsFallback(b)

\* A bug for PhysicalCeiling to find: only browsers in service limit the launches.
LaunchGateUnbounded ==
    Cardinality({b \in InService : RefreshedSlot[b].state = "ready"})
        + Cardinality(create_tasks) < MaxBrowsers

LaunchGateOpen ==
    /\ Cardinality({b \in InService : RefreshedSlot[b].state = "ready"})
          + Cardinality(create_tasks) < MaxBrowsers
    /\ PhysicalGenerations < MaxPhysical
    /\ Cardinality(create_watchers) < MaxAbandoned

\* The loop ends for r, with a reservation or without: its locals go.
LeaveLoop(r, where) ==
    /\ pc' = [pc EXCEPT ![r] = where]
    /\ launched' = launched \ {r}
    /\ outdated' = outdated \ {r}
    /\ notified' = notified \ {r}

\* A bug for Accounting to find: a session that got no slot keeps its count.
AcquireRaisesLeaking(r) ==
    /\ LeaveLoop(r, "idle")
    /\ kind' = [kind EXCEPT ![r] = "transient"]
    /\ UNCHANGED <<held, discard>>

\* _acquire_slot raises.  lease_context has nothing to undo; a persistent caller
\* starts the finalizer that gives its count back.
AcquireRaises(r) ==
    /\ LeaveLoop(r, IF kind[r] = "persistent" THEN "unreserving" ELSE "idle")
    /\ UNCHANGED <<kind, held, discard>>

\* _reserve_slot_unlocked under the refresh of the same critical section.
Grant(r, b) ==
    /\ \E due \in SUBSET Retryable : RefreshOwners(due)
    /\ slot' = [RefreshedSlot EXCEPT ![b] = Reserve(@)]
    /\ transient_contexts' = IF kind[r] = "transient"
                             THEN transient_contexts + 1 ELSE transient_contexts
    /\ held' = [held EXCEPT ![r] = b]
    /\ LeaveLoop(r, "opening")
    /\ UNCHANGED <<factory, create_tasks, create_watchers, persistent_contexts,
                   kind, discard, startVars, closeVars>>

AcquireHealthy(r, b) ==
    /\ Acquiring(r)
    /\ ~closed
    /\ Serves(b)
    /\ Grant(r, b)

AcquireSoftRetiring(r, b) ==
    /\ Acquiring(r)
    /\ ~closed
    /\ \A c \in Browsers : ~Serves(c)
    /\ ServesAsFallback(b)
    /\ Grant(r, b)

AcquireRejected(r) ==
    /\ Acquiring(r)
    /\ closed
    /\ AcquireRaises(r)
    /\ UNCHANGED <<browserVars, ownerVars, countVars, startVars, closeVars>>

\* A launch failed since r began: r raises that failure.
AcquireAfterFailure(r) ==
    /\ Acquiring(r)
    /\ ~closed
    /\ ~CanServe
    /\ r \in outdated
    /\ \E due \in SUBSET Retryable : RefreshOwners(due)
    /\ slot' = RefreshedSlot
    /\ AcquireRaises(r)
    /\ UNCHANGED <<factory, create_tasks, create_watchers, countVars, startVars, closeVars>>

\* Nothing serves r and it has not launched: it launches one browser and waits.
AcquireLaunch(r, b) ==
    /\ Acquiring(r)
    /\ ~closed
    /\ ~CanServe
    /\ r \notin outdated
    /\ r \notin launched
    /\ LaunchGateOpen
    /\ b \in Unused
    /\ StartCreateTasks({b})
    /\ \E due \in SUBSET Retryable : RefreshOwners(due)
    /\ slot' = RefreshedSlot
    /\ pc' = [pc EXCEPT ![r] = "waiting"]
    /\ launched' = launched \cup {r}
    /\ notified' = notified \ {r}
    /\ UNCHANGED <<create_watchers, countVars, kind, held, discard, outdated,
                   startVars, closeVars>>

AcquireWait(r) ==
    /\ Acquiring(r)
    /\ ~closed
    /\ ~CanServe
    /\ r \notin outdated
    /\ r \notin launched => ~LaunchGateOpen
    /\ \E due \in SUBSET Retryable : RefreshOwners(due)
    /\ slot' = RefreshedSlot
    /\ pc' = [pc EXCEPT ![r] = "waiting"]
    /\ notified' = notified \ {r}
    /\ UNCHANGED <<factory, create_tasks, create_watchers, countVars, kind, held, discard,
                   launched, outdated, startVars, closeVars>>

\* The deadline passes or the caller is cancelled, notified or not.
AcquireTimeout(r) ==
    /\ pc[r] \in {"acquiring", "waiting"}
    /\ AcquireRaises(r)
    /\ UNCHANGED <<browserVars, ownerVars, countVars, startVars, closeVars>>

-----------------------------------------------------------------------------
(* Holding and releasing a context.                                        *)

OpenContext(r) ==
    /\ pc[r] = "opening"
    /\ pc' = [pc EXCEPT ![r] = "leased"]
    /\ UNCHANGED <<kind, held, discard, launched, outdated, browserVars, ownerVars,
                   countVars, notified, startVars, closeVars>>

\* The accounting finalizer of r starts: new_context raised, or the lease ended
\* and its context was closed.  why tells what happened to the browser: nothing,
\* an error or a cancellation, or a lost connection.
StartFinalizer(r, why) ==
    /\ pc[r] \in {"opening", "leased"}
    /\ pc' = [pc EXCEPT ![r] = "finalizing"]
    /\ discard' = [discard EXCEPT ![r] = why]
    /\ UNCHANGED <<kind, held, launched, outdated, browserVars, ownerVars,
                   countVars, notified, startVars, closeVars>>

\* _release_slot on a slot: the reservation goes, and the browser may retire.
Released(s, why) ==
    LET t == [s EXCEPT !.active = @ - 1]
    IN  IF why # "none" THEN MarkRetiring(t, why)
        ELSE IF ShouldRecycle(t) THEN MarkRetiring(t, RecycleReason(t)) ELSE t

ReleaseSlot(r) ==
    /\ pc[r] = "finalizing"
    /\ LET b == held[r]
           s == Released(slot[b], discard[r])
           last == s.state = "retiring" /\ s.active = 0
       IN  /\ slot' = [slot EXCEPT ![b] = IF last THEN Closing(s) ELSE s]
           /\ slots' = IF last THEN slots \ {b} ELSE slots
           /\ close_tasks' = IF last THEN close_tasks \cup {b} ELSE close_tasks
    /\ transient_contexts' = IF kind[r] = "transient"
                             THEN transient_contexts - 1 ELSE transient_contexts
    /\ held' = [held EXCEPT ![r] = NoBrowser]
    /\ discard' = [discard EXCEPT ![r] = "none"]
    /\ pc' = [pc EXCEPT ![r] = IF kind[r] = "persistent" THEN "unreserving" ELSE "accounted"]
    /\ NotifyAll
    /\ UNCHANGED <<factory, create_tasks, create_watchers, failed_close_slots,
                   persistent_contexts, kind, launched, outdated, startVars, closeVars>>

\* _release_persistent_reservation, the last section of a persistent finalizer.
ReleasePersistent(r) ==
    /\ pc[r] = "unreserving"
    /\ persistent_contexts' = persistent_contexts - 1
    /\ pc' = [pc EXCEPT ![r] = "accounted"]
    /\ kind' = [kind EXCEPT ![r] = "transient"]
    /\ NotifyAll
    /\ UNCHANGED <<held, discard, launched, outdated, browserVars, ownerVars,
                   transient_contexts, startVars, closeVars>>

\* _accounting_task_done discards the finalizer, then a task of its own notifies.
AccountingTaskDone(r) ==
    /\ pc[r] = "accounted"
    /\ pc' = [pc EXCEPT ![r] = "notifying"]
    /\ UNCHANGED <<kind, held, discard, launched, outdated, browserVars, ownerVars,
                   countVars, notified, startVars, closeVars>>

\* A bug for CloseEnds to find: the task that should notify does not.
NotifyNobody(r) ==
    /\ pc[r] = "notifying"
    /\ pc' = [pc EXCEPT ![r] = "idle"]
    /\ UNCHANGED <<kind, held, discard, launched, outdated, browserVars, ownerVars,
                   countVars, notified, startVars, closeVars>>

NotifyPoolWaiters(r) ==
    /\ pc[r] = "notifying"
    /\ pc' = [pc EXCEPT ![r] = "idle"]
    /\ NotifyAll
    /\ UNCHANGED <<kind, held, discard, launched, outdated, browserVars, ownerVars,
                   countVars, startVars, closeVars>>

-----------------------------------------------------------------------------
(* Supervised launches: those of _acquire_slot and _replenish_unlocked.    *)

Supervised(b) == b \in create_tasks /\ b \notin startup_tasks

\* The launch of _supervise_create_task outlives the acquire timeout.
LaunchTimesOut(b) ==
    /\ Supervised(b)
    /\ factory[b] = "running"
    /\ create_tasks' = create_tasks \ {b}
    /\ create_watchers' = create_watchers \cup {b}
    /\ NotifyAll
    /\ UNCHANGED <<browserVars, slots, close_tasks, failed_close_slots, countVars,
                   requestVars, startVars, closeVars>>

\* Every request inside its acquire loop now observes a newer failure generation.
LaunchFails(b) ==
    /\ Supervised(b)
    /\ factory[b] = "raised"
    /\ create_tasks' = create_tasks \ {b}
    /\ factory' = [factory EXCEPT ![b] = "none"]
    /\ outdated' = {r \in Requests : pc[r] \in {"acquiring", "waiting"}}
    /\ NotifyAll
    /\ UNCHANGED <<slot, slots, create_watchers, close_tasks, failed_close_slots, countVars,
                   pc, kind, held, discard, launched, startVars, closeVars>>

\* A closed pool never gets here: quiesce and close have abandoned every launch.
LaunchSucceeds(b) ==
    /\ Supervised(b)
    /\ factory[b] = "returned"
    /\ create_tasks' = create_tasks \ {b}
    /\ factory' = [factory EXCEPT ![b] = "none"]
    /\ IF closed
       THEN /\ close_tasks' = close_tasks \cup {b}
            /\ slot' = [slot EXCEPT ![b] = Closing(@)]
            /\ slots' = slots
       ELSE /\ slots' = slots \cup {b}
            /\ UNCHANGED <<slot, close_tasks>>
    /\ NotifyAll
    /\ UNCHANGED <<create_watchers, failed_close_slots, countVars, requestVars,
                   startVars, closeVars>>

\* _finish_abandoned_creation: the watcher of an abandoned launch sees it end.  A
\* browser that arrives late is closed, unless the startup already did that.
AbandonedLaunchEnds(b) ==
    /\ b \in create_watchers
    /\ factory[b] \in {"returned", "raised"}
    /\ create_watchers' = create_watchers \ {b}
    /\ factory' = [factory EXCEPT ![b] = IF startup = "launching" /\ b \in startup_tasks
                                         THEN @ ELSE "none"]
    /\ IF factory[b] = "returned" /\ slot[b].state # "closing"
       THEN /\ close_tasks' = close_tasks \cup {b}
            /\ slot' = [slot EXCEPT ![b] = Closing(@)]
            /\ slots' = slots \ {b}
       ELSE UNCHANGED <<close_tasks, slot, slots>>
    /\ NotifyAll
    /\ UNCHANGED <<create_tasks, failed_close_slots, countVars, requestVars, startVars, closeVars>>

-----------------------------------------------------------------------------
(* start(): a shared task launches MinBrowsers and hands them over at once. *)

\* start() and the first section of _start_once.  A pool at its physical ceiling
\* refuses without a change.
StartBegins(new) ==
    /\ startup = "none"
    /\ registration = "none"
    /\ ~closed
    /\ ~started
    /\ PhysicalGenerations + MinBrowsers <= MaxPhysical
    /\ new \subseteq Unused
    /\ Cardinality(new) = MinBrowsers
    /\ StartCreateTasks(new)
    /\ startup_tasks' = new
    /\ started' = TRUE
    /\ starting' = (new # {})
    /\ startup' = IF new = {} THEN "none" ELSE "launching"
    /\ UNCHANGED <<slot, slots, create_watchers, close_tasks, failed_close_slots, countVars,
                   requestVars, notified, startup_cancelled, registration, recovery, closeVars>>

\* The last caller of start() is cancelled and cancels the startup task.
StartCallersCancel ==
    /\ startup \in {"launching", "unwinding", "handoff"}
    /\ ~startup_cancelled
    /\ startup_cancelled' = TRUE
    /\ UNCHANGED <<browserVars, ownerVars, countVars, requestVars, notified, started,
                   starting, startup, startup_tasks, registration, recovery, closeVars>>

\* asyncio.wait was cancelled: every launch of the startup is abandoned.
StartupCancelledLaunching ==
    /\ startup = "launching"
    /\ startup_cancelled
    /\ create_tasks' = create_tasks \ startup_tasks
    /\ create_watchers' = create_watchers \cup (create_tasks \cap startup_tasks)
    /\ factory' = [b \in Browsers |->
                     IF b \in startup_tasks \ (create_tasks \cup create_watchers)
                     THEN "none" ELSE factory[b]]
    /\ started' = (started /\ closed)
    /\ starting' = FALSE
    /\ startup' = "none"
    /\ startup_tasks' = {}
    /\ startup_cancelled' = FALSE
    /\ NotifyAll
    /\ UNCHANGED <<slot, slots, close_tasks, failed_close_slots, countVars, requestVars,
                   registration, recovery, closeVars>>

\* asyncio.wait returned with a failure, or timed out with launches pending: what
\* was launched is closed, what is pending is abandoned.
StartupFails ==
    /\ startup = "launching"
    /\ ~startup_cancelled
    /\ \E b \in startup_tasks : factory[b] # "returned"
    /\ LET done == {b \in startup_tasks : factory[b] # "running"}
           surplus == {b \in done : factory[b] = "returned" /\ slot[b].state # "closing"}
       IN  /\ create_tasks' = create_tasks \ startup_tasks
           /\ create_watchers' = create_watchers \cup ((create_tasks \cap startup_tasks) \ done)
           /\ close_tasks' = close_tasks \cup surplus
           /\ slot' = [b \in Browsers |-> IF b \in surplus THEN Closing(slot[b]) ELSE slot[b]]
           /\ factory' = [b \in Browsers |-> IF b \in done \ create_watchers
                                             THEN "none" ELSE factory[b]]
    /\ started' = (started /\ closed)
    /\ starting' = FALSE
    /\ startup' = "unwinding"
    /\ NotifyAll
    /\ UNCHANGED <<slots, failed_close_slots, countVars, requestVars, startup_tasks,
                   startup_cancelled, registration, recovery, closeVars>>

\* The gather over the failed startup's closes is over, or cancelled.
StartupUnwinds ==
    /\ startup = "unwinding"
    /\ startup_cancelled \/ startup_tasks \cap close_tasks = {}
    /\ startup' = "none"
    /\ startup_tasks' = {}
    /\ startup_cancelled' = FALSE
    /\ UNCHANGED <<browserVars, ownerVars, countVars, requestVars, notified, started,
                   starting, registration, recovery, closeVars>>

\* Every launch returned a browser: a registration task takes the hand-over.  The
\* launches stay in create_tasks until it has run.
StartupSucceeds ==
    /\ startup = "launching"
    /\ ~startup_cancelled
    /\ \A b \in startup_tasks : factory[b] = "returned"
    /\ startup' = "handoff"
    /\ registration' = "pending"
    /\ UNCHANGED <<browserVars, ownerVars, countVars, requestVars, notified, started, starting,
                   startup_tasks, startup_cancelled, recovery, closeVars>>

\* A bug for SingleOwner to find: close() during the hand-over goes unnoticed.
RegisterStartedSlotsBlindly ==
    /\ registration = "pending"
    /\ registration' = "done"
    /\ create_tasks' = create_tasks \ startup_tasks
    /\ factory' = [b \in Browsers |-> IF b \in startup_tasks \ create_watchers
                                      THEN "none" ELSE factory[b]]
    /\ slots' = slots \cup startup_tasks
    /\ NotifyAll
    /\ UNCHANGED <<slot, close_tasks, create_watchers, failed_close_slots, countVars,
                   requestVars, started, starting, startup, startup_tasks,
                   startup_cancelled, recovery, closeVars>>

\* _register_started_slots; recovery says the startup was cancelled meanwhile.
RegisterStartedSlots ==
    /\ registration = "pending"
    /\ registration' = "done"
    /\ create_tasks' = create_tasks \ startup_tasks
    /\ factory' = [b \in Browsers |-> IF b \in startup_tasks \ create_watchers
                                      THEN "none" ELSE factory[b]]
    /\ IF closed \/ recovery
       THEN LET surplus == {b \in startup_tasks : slot[b].state # "closing"}
            IN  /\ close_tasks' = close_tasks \cup surplus
                /\ slot' = [b \in Browsers |-> IF b \in surplus THEN Closing(slot[b])
                                               ELSE slot[b]]
                /\ slots' = slots
       ELSE /\ slots' = slots \cup startup_tasks
            /\ UNCHANGED <<slot, close_tasks>>
    /\ NotifyAll
    /\ UNCHANGED <<create_watchers, failed_close_slots, countVars, requestVars,
                   started, starting, startup, startup_tasks, startup_cancelled, recovery,
                   closeVars>>

\* _start_once resumes from its registration.
StartupFinishes ==
    /\ startup = "handoff"
    /\ ~startup_cancelled
    /\ registration = "done"
    /\ starting' = FALSE
    /\ startup' = "none"
    /\ startup_tasks' = {}
    /\ registration' = "none"
    /\ UNCHANGED <<browserVars, ownerVars, countVars, requestVars, notified, started,
                   startup_cancelled, recovery, closeVars>>

\* The cancellation reaches _start_once while it awaits the registration: a
\* recovery task takes over and the startup awaits it.
StartupCancelledInHandoff ==
    /\ startup = "handoff"
    /\ startup_cancelled
    /\ recovery' = TRUE
    /\ started' = FALSE
    /\ starting' = FALSE
    /\ startup' = "recovering"
    /\ startup_cancelled' = FALSE
    /\ UNCHANGED <<browserVars, ownerVars, countVars, requestVars, notified, startup_tasks,
                   registration, closeVars>>

\* A second cancellation ends the startup; its recovery task goes on alone.
StartupCancelledInRecovery ==
    /\ startup = "recovering"
    /\ startup_cancelled
    /\ startup' = "none"
    /\ startup_cancelled' = FALSE
    /\ UNCHANGED <<browserVars, ownerVars, countVars, requestVars, notified, started,
                   starting, startup_tasks, registration, recovery, closeVars>>

\* _recover_cancelled_start: after the registration, every browser of the startup
\* retires, leased or not.
RecoverCancelledStart ==
    /\ recovery
    /\ registration = "done"
    /\ LET idle == {b \in startup_tasks : slot[b].state # "closing" /\ slot[b].active = 0}
           leased == {b \in startup_tasks : slot[b].state # "closing" /\ slot[b].active # 0}
       IN  /\ slot' = [b \in Browsers |->
                         IF b \in idle THEN Closing(slot[b])
                         ELSE IF b \in leased THEN MarkRetiring(slot[b], "error")
                         ELSE slot[b]]
           /\ slots' = slots \ idle
           /\ close_tasks' = close_tasks \cup idle
    /\ create_tasks' = create_tasks \ startup_tasks
    /\ recovery' = FALSE
    /\ registration' = "none"
    /\ startup' = "none"
    /\ startup_tasks' = {}
    /\ startup_cancelled' = FALSE
    /\ NotifyAll
    /\ UNCHANGED <<factory, create_watchers, failed_close_slots, countVars, requestVars,
                   started, starting, closeVars>>

-----------------------------------------------------------------------------
(* refresh(), maintain() and the tasks that close browsers.                *)

\* The readiness probe calls refresh(): it retires and closes, launches nothing.
RefreshPool(due) ==
    /\ started
    /\ ~closed
    /\ due \subseteq Retryable
    /\ RefreshOwners(due)
    /\ slot' = RefreshedSlot
    /\ NotifyAll
    /\ UNCHANGED <<factory, create_tasks, create_watchers, countVars, requestVars,
                   startVars, closeVars>>

\* The maintenance tick also launches toward MinBrowsers.
Maintain(due, new) ==
    /\ started
    /\ ~closed
    /\ due \subseteq Retryable
    /\ new \subseteq Unused
    /\ Cardinality(new) = ReplenishCount(RefreshedSlot, InService, PhysicalGenerations)
    /\ RefreshOwners(due)
    /\ slot' = RefreshedSlot
    /\ StartCreateTasks(new)
    /\ NotifyAll
    /\ UNCHANGED <<create_watchers, countVars, requestVars, startVars, closeVars>>

\* _finish_close_slot_unlocked after a close that succeeded, failed because the
\* browser was gone already, or failed after its physical close had finished.
CloseSlotSucceeds(b, new) ==
    /\ b \in close_tasks
    /\ new \subseteq Unused
    /\ Cardinality(new) = ReplenishCount(slot, slots, PhysicalGenerations - 1)
    /\ close_tasks' = close_tasks \ {b}
    /\ slot' = [slot EXCEPT ![b] = DroppedSlot]
    /\ StartCreateTasks(new)
    /\ NotifyAll
    /\ UNCHANGED <<slots, create_watchers, failed_close_slots, countVars, requestVars,
                   startVars, closeVars>>

\* Both attempts of _run_close_slot failed or ran into the cleanup deadline: the
\* browser is quarantined for a retry.
CloseSlotFails(b, new) ==
    /\ b \in close_tasks
    /\ slot[b].browser # "closed"
    /\ new \subseteq Unused
    /\ Cardinality(new) = ReplenishCount(slot, slots, PhysicalGenerations)
    /\ close_tasks' = close_tasks \ {b}
    /\ failed_close_slots' = failed_close_slots \cup {b}
    /\ slot' = [slot EXCEPT ![b].failures = IF @ < MaxCloseRetries THEN @ + 1 ELSE @]
    /\ StartCreateTasks(new)
    /\ NotifyAll
    /\ UNCHANGED <<slots, create_watchers, countVars, requestVars, startVars, closeVars>>

\* _physical_close_finished: a close that outlived its deadline ends after all.
PhysicalCloseFinishes(b) ==
    /\ b \in failed_close_slots
    /\ slot[b].browser # "closed"
    /\ slot' = [slot EXCEPT ![b].browser = "closed"]
    /\ UNCHANGED <<factory, ownerVars, countVars, requestVars, notified, startVars, closeVars>>

\* _reconcile_late_physical_close, unless a retry is running: that one sees the
\* browser closed.
ReconcileLatePhysicalClose(b) ==
    /\ b \in failed_close_slots
    /\ slot[b].browser = "closed"
    /\ failed_close_slots' = failed_close_slots \ {b}
    /\ slot' = [slot EXCEPT ![b] = DroppedSlot]
    /\ NotifyAll
    /\ UNCHANGED <<factory, slots, create_tasks, create_watchers, close_tasks, countVars,
                   requestVars, startVars, closeVars>>

-----------------------------------------------------------------------------
(* quiesce() and close().                                                  *)

\* What both do: abandon launches, retire every slot, close the idle ones.
Idle == {b \in slots : slot[b].active = 0}

\* A bug for NoOrphanBrowser to find: cancelled launches are forgotten.
ShutDownForgetting(retried) ==
    /\ closed' = TRUE
    /\ create_tasks' = {}
    /\ create_watchers' = create_watchers
    /\ slots' = slots \ Idle
    /\ close_tasks' = close_tasks \cup Idle \cup retried
    /\ failed_close_slots' = failed_close_slots \ retried
    /\ slot' = [b \in Browsers |->
                  IF b \in Idle THEN Closing(slot[b])
                  ELSE IF b \in slots THEN MarkRetiring(slot[b], "shutdown")
                  ELSE slot[b]]

ShutDownSlots(retried) ==
    /\ closed' = TRUE
    /\ create_tasks' = {}
    /\ create_watchers' = create_watchers \cup create_tasks
    /\ slots' = slots \ Idle
    /\ close_tasks' = close_tasks \cup Idle \cup retried
    /\ failed_close_slots' = failed_close_slots \ retried
    /\ slot' = [b \in Browsers |->
                  IF b \in Idle THEN Closing(slot[b])
                  ELSE IF b \in slots THEN MarkRetiring(slot[b], "shutdown")
                  ELSE slot[b]]

Quiesce ==
    /\ ~closed
    /\ ShutDownSlots({})
    /\ NotifyAll
    /\ UNCHANGED <<factory, countVars, requestVars, startVars, closer>>

\* The test under which close() of a closed pool has nothing to do.
NothingToClose ==
    Owned = {} /\ AccountingTasks = {} /\ startup = "none"

\* close() up to its first await: it also cancels a startup in flight and retries
\* every quarantined browser, whatever its backoff.
CloseBegins ==
    /\ closer \in {"idle", "done"}
    /\ ~(closed /\ NothingToClose)
    /\ ShutDownSlots(failed_close_slots)
    /\ startup_cancelled' = (startup # "none")
    /\ closer' = IF startup # "none" THEN "startup" ELSE "drain"
    /\ notified' = Waiting \cup (IF startup # "none" THEN {} ELSE {"close"})
    /\ UNCHANGED <<factory, countVars, requestVars, started, starting, startup,
                   startup_tasks, registration, recovery>>

CloseSeesStartupEnd ==
    /\ closer = "startup"
    /\ startup = "none"
    /\ closer' = "drain"
    /\ notified' = notified \cup {"close"}
    /\ UNCHANGED <<browserVars, ownerVars, countVars, requestVars, startVars, closed>>

\* A bug for CloseReleasesBrowsers to find: abandoned launches are not awaited.
DrainedButWatchers == slots \cup create_tasks = {} /\ AccountingTasks = {}

\* close() runs its drain loop once: when the condition wakes it, or at first.
Drained ==
    slots \cup create_tasks \cup create_watchers = {} /\ AccountingTasks = {}

CloseChecksDrain ==
    /\ closer = "drain"
    /\ "close" \in notified
    /\ closer' = IF Drained THEN "gather" ELSE "drain"
    /\ notified' = notified \ {"close"}
    /\ UNCHANGED <<browserVars, ownerVars, countVars, requestVars, startVars, closed>>

\* The last gather over close tasks finds none.
CloseGathers ==
    /\ closer = "gather"
    /\ close_tasks = {}
    /\ closer' = "done"
    /\ UNCHANGED <<browserVars, ownerVars, countVars, requestVars, notified, startVars, closed>>

\* The shutdown deadline cancels the caller of close().
CloseCancelled ==
    /\ closer \in {"startup", "drain", "gather"}
    /\ closer' = "idle"
    /\ notified' = notified \ {"close"}
    /\ UNCHANGED <<browserVars, ownerVars, countVars, requestVars, startVars, closed>>

-----------------------------------------------------------------------------
World ==
    \E b \in Browsers : \/ FactoryReturns(b)
                        \/ FactoryRaises(b)
                        \/ BrowserDisconnects(b)
                        \/ BrowserAges(b)

Acquire(r) ==
    \/ \E b \in Browsers : \/ AcquireHealthy(r, b)
                           \/ AcquireSoftRetiring(r, b)
                           \/ AcquireLaunch(r, b)
    \/ AcquireRejected(r)
    \/ AcquireAfterFailure(r)
    \/ AcquireWait(r)

Account(r) ==
    \/ ReleaseSlot(r)
    \/ ReleasePersistent(r)
    \/ AccountingTaskDone(r)
    \/ NotifyPoolWaiters(r)

Request ==
    \E r \in Requests : \/ BeginTransient(r)
                        \/ BeginPersistent(r)
                        \/ Acquire(r)
                        \/ AcquireTimeout(r)
                        \/ OpenContext(r)
                        \/ \E why \in {"none", "error", "disconnected"} : StartFinalizer(r, why)
                        \/ Account(r)

Launch ==
    \E b \in Browsers : \/ LaunchTimesOut(b)
                        \/ LaunchFails(b)
                        \/ LaunchSucceeds(b)
                        \/ AbandonedLaunchEnds(b)

StartupStep ==
    \/ StartupCancelledLaunching
    \/ StartupFails
    \/ StartupUnwinds
    \/ StartupSucceeds
    \/ RegisterStartedSlots
    \/ StartupFinishes
    \/ StartupCancelledInHandoff
    \/ StartupCancelledInRecovery
    \/ RecoverCancelledStart

Startup ==
    \/ \E new \in SUBSET Browsers : StartBegins(new)
    \/ StartCallersCancel
    \/ StartupStep

CloseSlot(b) ==
    \E new \in SUBSET Browsers : CloseSlotSucceeds(b, new) \/ CloseSlotFails(b, new)

Upkeep ==
    \/ \E due \in SUBSET Browsers : RefreshPool(due)
    \/ \E due, new \in SUBSET Browsers : Maintain(due, new)
    \/ \E b \in Browsers : \/ CloseSlot(b)
                           \/ PhysicalCloseFinishes(b)
                           \/ ReconcileLatePhysicalClose(b)

CloserStep ==
    \/ CloseSeesStartupEnd
    \/ CloseChecksDrain
    \/ CloseGathers

Shutdown ==
    \/ Quiesce
    \/ CloseBegins
    \/ CloserStep
    \/ CloseCancelled

Next == World \/ Request \/ Launch \/ Startup \/ Upkeep \/ Shutdown

Spec == Init /\ [][Next]_vars

\* Every task the event loop runs makes progress; a leased body ends, because
\* every request has a hard deadline; an abandoned factory ends, because its
\* cancellation reaches it; and nobody is fair to new work, to failures or to
\* the cancellation of close().
Fairness ==
    /\ \A r \in Requests : WF_vars(Acquire(r))
    /\ \A r \in Requests : WF_vars(Account(r))
    /\ \A r \in Requests : WF_vars(StartFinalizer(r, "none"))
    /\ \A b \in Browsers : WF_vars(FactoryReturns(b) \/ FactoryRaises(b))
    /\ \A b \in Browsers : WF_vars(LaunchFails(b) \/ LaunchSucceeds(b) \/ AbandonedLaunchEnds(b))
    /\ \A b \in Browsers : WF_vars(CloseSlot(b))
    /\ WF_vars(StartupStep)
    /\ WF_vars(CloserStep)

FairSpec == Spec /\ Fairness

-----------------------------------------------------------------------------
(* Properties.                                                             *)

BrowserTypes ==
    /\ slot \in [Browsers -> SlotRecord]
    /\ factory \in [Browsers -> {"none", "running", "returned", "raised"}]

PoolTypes ==
    /\ slots \subseteq Browsers
    /\ create_tasks \subseteq Browsers
    /\ create_watchers \subseteq Browsers
    /\ close_tasks \subseteq Browsers
    /\ failed_close_slots \subseteq Browsers
    /\ transient_contexts \in Int
    /\ persistent_contexts \in Int
    /\ notified \subseteq Requests \cup {"close"}

RequestTypes ==
    /\ pc \in [Requests -> {"idle", "acquiring", "waiting", "opening", "leased",
                            "finalizing", "unreserving", "accounted", "notifying"}]
    /\ kind \in [Requests -> {"transient", "persistent"}]
    /\ held \in [Requests -> Browsers \cup {NoBrowser}]
    /\ discard \in [Requests -> {"none", "error", "disconnected"}]
    /\ launched \subseteq Requests
    /\ outdated \subseteq Requests

StartTypes ==
    /\ started \in BOOLEAN
    /\ starting \in BOOLEAN
    /\ startup \in {"none", "launching", "unwinding", "handoff", "recovering"}
    /\ startup_tasks \subseteq Browsers
    /\ startup_cancelled \in BOOLEAN
    /\ registration \in {"none", "pending", "done"}
    /\ recovery \in BOOLEAN
    /\ closed \in BOOLEAN
    /\ closer \in {"idle", "startup", "drain", "gather", "done"}

\* Every variable keeps the shape of the code's field it stands for.
TypeOK == BrowserTypes /\ PoolTypes /\ RequestTypes /\ StartTypes

Holders(b) == {r \in Requests : held[r] = b}

SlotAccounting == \A b \in Browsers : slot[b].active = Cardinality(Holders(b))

TransientAccounting ==
    transient_contexts =
        Cardinality({r \in Requests : held[r] # NoBrowser /\ kind[r] = "transient"})

PersistentAccounting ==
    persistent_contexts = Cardinality({r \in Requests : kind[r] = "persistent"})

\* The three counters agree with the reservations that exist: none is released
\* twice or orphaned by a cancellation, so the underflow errors of _release_slot
\* and _release_persistent_reservation are never raised.
Accounting == SlotAccounting /\ TransientAccounting /\ PersistentAccounting

\* A browser some request holds a context of is in service: it is not being
\* closed, whatever retired it, until the last reservation is released.
LeaseKeepsBrowser ==
    \A r \in Requests : held[r] # NoBrowser => held[r] \in slots

\* No browser holds more contexts than allowed, and sessions never take the
\* contexts reserved for stateless requests.
ContextLimits ==
    /\ \A b \in Browsers : slot[b].active <= MaxContexts
    /\ persistent_contexts <= MaxPersistent

\* A browser process that runs is always in the hands of a launch, a slot, a
\* close or the quarantine: no cancellation, timeout, failed startup or shutdown
\* loses track of it.
NoOrphanBrowser ==
    \A b \in Browsers : slot[b].browser # "closed" => b \in Owned

\* A browser generation is owned once, and only a slot in service is not closing.
SingleOwner ==
    /\ slots \cap (create_tasks \cup create_watchers \cup close_tasks \cup failed_close_slots) = {}
    /\ create_tasks \cap (create_watchers \cup close_tasks \cup failed_close_slots) = {}
    /\ close_tasks \cap failed_close_slots = {}
    /\ \A b \in slots : slot[b].state # "closing"
    /\ \A b \in close_tasks \cup failed_close_slots : slot[b].state = "closing"

\* A launch in progress belongs to the pool and has no browser yet; one that ended
\* with a browser hands over a browser nobody has closed; and a browser being
\* closed belongs to its close or to the quarantine.
LaunchesTracked ==
    /\ \A b \in Browsers :
         /\ factory[b] = "running" => /\ b \in create_tasks \cup create_watchers
                                      /\ b \notin close_tasks \cup failed_close_slots
         /\ factory[b] \in {"running", "raised"} => slot[b].browser = "closed"
         /\ slot[b].state = "closing" /\ slot[b].browser # "closed"
              => b \in close_tasks \cup failed_close_slots
    /\ \A b \in create_tasks :
         /\ factory[b] # "none"
         /\ factory[b] = "returned" => slot[b].state # "closing"

\* As long as the pool is open, a startup owns its launches until it has registered
\* every browser of them.
StartupTracked ==
    /\ closed => create_tasks = {}
    /\ startup = "launching" => registration = "none"
    /\ startup = "launching" \/ registration = "pending" =>
         /\ startup_tasks \cap slots = {}
         /\ ~closed => startup_tasks \subseteq create_tasks
    /\ registration = "done" => startup_tasks \cap create_tasks = {}
    /\ registration # "none" => \A b \in startup_tasks : factory[b] \in {"none", "returned"}

\* The inductive invariant behind NoOrphanBrowser and SingleOwner.
Ownership == SingleOwner /\ NoOrphanBrowser /\ LaunchesTracked /\ StartupTracked

\* Where a request is tells whether it has a reservation.
Holding ==
    \A r \in Requests : held[r] # NoBrowser <=> pc[r] \in {"opening", "leased", "finalizing"}

\* Where a request is tells whether it counts as a session.
Counting ==
    \A r \in Requests :
        /\ pc[r] \in {"idle", "accounted", "notifying"} => kind[r] = "transient"
        /\ pc[r] = "unreserving" => kind[r] = "persistent"

\* The inductive invariant behind LeaseKeepsBrowser and Accounting.
LeasesTracked == Holding /\ Counting /\ Accounting /\ LeaseKeepsBrowser

\* Launches, browsers in service, browsers being closed and quarantined ones
\* never exceed twice POOL_MAX_BROWSERS, however they overlap.
PhysicalCeiling == Cardinality(Owned) <= MaxPhysical

\* A request asleep on the condition is missing nothing: whatever it waits for
\* is announced by a notify_all after the change (pool.py:880).
NoLostWakeup ==
    \A r \in Waiting \ notified :
        /\ ~closed
        /\ r \notin outdated
        /\ \A b \in slots : ~HealthyAvailable(slot[b]) /\ ~SoftRetiringAvailable(slot[b])

\* close() asleep on the condition is woken once the pool has drained.
CloserNotStranded ==
    closer = "drain" /\ Drained =>
        "close" \in notified \/ \E r \in Requests : pc[r] = "notifying"

\* Neither a request nor close() sleeps on the condition through what it waits for.
NobodyStranded == NoLostWakeup /\ CloserNotStranded

\* When close() returns, no launch, no browser in service and no running close is
\* left: only the browsers whose close failed for good stay quarantined.
CloseReleasesBrowsers ==
    closer = "done" => slots \cup create_tasks \cup create_watchers \cup close_tasks = {}

\* A retired browser never returns to service and, once condemned by a hard
\* reason, never becomes acceptable again.
RetirementIsFinal ==
    [][\A b \in slots \cap slots' :
         /\ slot[b].state = "retiring" => slot'[b].state = "retiring"
         /\ slot[b].reason \in HardReasons => slot'[b].reason \in HardReasons]_vars

\* A context is only leased on a live browser that no failure has condemned, and
\* never once the pool is closed.
LeasesAreServed ==
    [][\A r \in Requests : held[r] = NoBrowser /\ held'[r] # NoBrowser =>
         /\ ~closed
         /\ slot[held'[r]].browser = "connected"
         /\ slot[held'[r]].reason \notin HardReasons]_vars

\* A launch that no request and no start() asked for keeps the number of browser
\* generations within POOL_MAX_BROWSERS.
BackgroundLaunchesFit ==
    [][~(create_tasks' \subseteq create_tasks) /\ launched' = launched /\ startup' = startup
         => Cardinality(Owned') <= MaxBrowsers]_vars

\* The pool keeps the promises of BrowserLeases.
Leases == INSTANCE BrowserLeases
    WITH lease <- held,
         serving <- {b \in slots : slot[b].reason \notin HardReasons},
         condemned <- {b \in slots : slot[b].reason \in HardReasons},
         open <- ~closed

ImplementsLeases == Leases!Spec

\* is_full_and_serving(), which /ready calls after refresh().
IsFullAndServing ==
    /\ started
    /\ ~closed
    /\ \A b \in slots :
         /\ slot[b].browser = "connected"
         /\ slot[b].state = "retiring" => slot[b].reason \in SoftReasons
         /\ IF slot[b].active = 0 THEN slot[b].state # "ready"
            ELSE slot[b].active >= MaxContexts
    /\ \E b \in slots : slot[b].active > 0

\* docs/deployment.md: /ready answers "saturated" when every context slot is held,
\* that is POOL_MAX_BROWSERS times the contexts of a browser, the snapshot's max_slots.
SaturatedMeansFull ==
    IsFullAndServing => Cardinality({r \in Requests : held[r] # NoBrowser}) >= TotalContexts

\* A close() that nobody cancels ends.
CloseEnds ==
    (closer \in {"startup", "drain", "gather"}) ~> (closer \in {"done", "idle"})
=============================================================================
