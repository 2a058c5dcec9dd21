# A TLA+ model of Camouflare

Camouflare is an asyncio service that solves web requests in pooled browsers. This
directory holds TLA+ modules for its concurrent core and for the algorithms of one request,
TLC runs that check them on small instances, and TLAPS proofs of the properties that matter
most. Paths below are relative to the repository's root (`src/` in `PROJECT.json`).

## 1. Inventory

Everything runs on one event loop: code between two `await`s is atomic, and the hard
behaviour comes from what other tasks do at an `await`, from cancellation arriving there,
and from background tasks that outlive the request that started them.

| Component | State | Operations | What makes it correct |
| --- | --- | --- | --- |
| `pool.py` BrowserPool | slots, create tasks, watchers of abandoned launches, close tasks, quarantine of failed closes, three counters, one condition | start, lease_context, create_persistent_context and its release, refresh, maintain, quiesce, close, and the tasks they start | exact counters, a browser closes only when unleased, every process has one owner, bounded processes, no lost wakeup, a shutdown that ends |
| `sessions.py` SessionManager | registry, closing tombstones, pending creations, a lock per session | register_or_get, creating, wait_for_creation, prune, evict, destroy, close | one winner per id, an id stays reserved until its cleanup ends, eviction by identity, nobody in use is pruned |
| `commands.py` | none of its own; composes sessions, pool, transport, proxies | sessions.create/destroy/list, request.get/post/head | a request uses only the session it locked and found current, same-id races have one winner, every resource is given back |
| `cleanup.py` CleanupSupervisor | tracked tasks, deadlines, groups, holds, shutdown deadline | track, run, wait_for_group, retain_scope, close | one reported outcome per task, a group waiter sees no gap, a close that is bounded |
| `http_transport.py` HttpTransport | semaphore, active and waiting counts, accepting, idle event; per fetch the hop, its connections and its body | fetch, quiesce, close; redirects, proxies, decoders, limits | the limit holds, close waits for active requests, every hop is what was asked, bodies are whole and bounded, failures are blamed on the right peer |
| `runtime.py` | one absolute deadline, ordered phases | lifespan, reaper, maintainer, shutdown | every phase starts, in order, even past the deadline and under cancellation |
| `browser.py` | one shared close task per handle, one launch lock | new_context, close, start_close, factory | one physical close at a time, failed closes are retryable, launches do not overlap |
| `navigation.py`, `timer.py` | a budget in milliseconds, which attempts were made | navigate_get, direct attempts | stages never exceed the budget, the answer tells what was tried |
| `solver.py` | what was sent, response, result, the routes of a context | solve_request, submit_post, media blocking | a POST that may have been received is never called retryable |
| `challenge.py`, `captcha.py` | time that was waited | wait_for_challenge_cleared and its neighbours | ends within the budget, leaves the reserve, a block is final |
| `proxy.py` LocalSocksBridge | client writers, handler tasks, closed | accept, handshake, relay, close | nothing outlives close, no socket is left open, a tunnel ends |
| `app.py` | none of its own | /v1 controller, /ready, /diagnostics | the hard deadline never drops a task, readiness tells full from broken |
| `config.py`, `limits.py`, `models.py`, `errors.py`, `solution.py`, `protocols.py`, `cookie_policy.py`, `metrics.py`, `observability.py`, `documentation.py`, entry points, `scripts/` | data, formatting, wiring | | checked by ordinary tests |

Interactions: requests call the pool through `commands.py`; sessions own persistent
contexts and give them back through a close callback; the pool, the sessions and the
controller hand unfinished work to the cleanup supervisor; the runtime's reaper and
maintainer call `prune_expired` and `maintain`; shutdown quiesces the pool and the
transport, then closes sessions, pool, transport and supervisor in that order; `/ready`
calls `refresh` and `is_full_and_serving`; a request navigates through the transport or the
browser, waits for challenges, and answers through the controller and its deadline.

The hazards of this code, each at its line and with the properties that watch it, are
listed in `PROJECT.json`.

## 2. Modules

| Module | Content |
| --- | --- |
| `BrowserPool` | the pool: state, one action per critical section, fairness, properties |
| `BrowserLeases` | abstract specification: what the pool promises to its callers, without tasks |
| `Sessions` | the registry of sessions composed with the commands that create, use and destroy them, their locks, checkouts and cleanups |
| `SessionIds` | abstract specification: which ids are live or reserved, and how many may be |
| `CleanupSupervisor` | tracked tasks, scopes, holds, group waiters, `run()` and `close()` |
| `HttpTransport` | admission to the transport, its queue and its shutdown |
| `HttpFetch` | the hops of one fetch after another, the kept connections, the blame for a failure |
| `ContentCoding` | the incremental gzip and deflate decoders against what the codings mean for a whole body |
| `BodyLimits` | how much of a body is read, decoded and handed on |
| `RuntimeShutdown` | the lifespan: periodic tasks, ordered phases under one deadline, cancellations of the host |
| `Readiness` | `/ready`: its probe, its hard deadline, clients that go away |
| `BrowserLaunch` | the launch lock and the teardown of a launch that was cancelled |
| `BrowserHandle` | the shared, retryable physical close of a browser |
| `SocksBridge` | handlers, handshakes, the two pipes of a tunnel, `close()` |
| `SolveRequest` | one request from the controller to its answer, with the deadline racing it |
| `Navigation` | how `navigate_get` divides the time that is left |
| `ChallengeWait` | the waits between navigation and collection |
| `MediaRoutes` | `disableMedia` in the context of a session that serves request after request |
| `MCBrowserPool`, `MCSessions` | TLC instances with their symmetry |
| `MCTransport`, `MCService`, `MCBrowsers`, `MCRequest` | TLC instances of several components in one run (section 4) |
| `BrowserPoolProofs`, `BrowserPoolPromises`, `SessionsProofs`, `TransportProofs`, `BrowsersProofs`, `ServiceProofs`, `RequestProofs` | theorems and proofs (section 6) |
| `WaitingLines` | lemmas on the queues of locks and semaphores, which `TransportProofs` and `BrowsersProofs` share |

`Sessions` is the composition of the manager with its callers: a lock, a checkout, a tombstone
and the contexts that the pool grants are shared between requests, and the hard cases are
between them. What `Sessions` assumes of the pool is a number of contexts that is refused
beyond a limit, which `BrowserLeases` promises. The other components meet at one call each;
the call is modelled on both sides as something that may return, fail, be cancelled or not
end, so that each side is checked against every behaviour of the other.

### What is common to all of them

* An action is the code between two awaits, with everything it calls. A cancellation is an
  action of its own at each await where it can arrive.
* Time is a choice: a timeout, an age limit or an elapsed backoff may happen whenever the code
  would look at the clock. Only `Navigation` and `ChallengeWait` count time, because the
  division of a budget is what they are about.
* Variables and actions have the names of the attributes and functions they stand for.
* Identifiers of browsers, sessions and attempts are reused once nothing refers to them, so the
  length of a behaviour is not bounded where the code's is not.
* Metrics, logging, snapshots and wording change nothing the models hold.
* What is not in `src/` (Playwright, Camoufox, `httpcore`, `zlib`, asyncio's transports, the
  resolver) is modelled by what the code relies on, and may fail, hang or be slow.

### BrowserPool

* `slot[b]` is a `BrowserSlot`; `factory[b]` is the result of a launch nobody has consumed; `pc`,
  `kind`, `held`, `discard`, `launched`, `outdated` are the locals of a caller; `startup`,
  `startup_tasks`, `startup_cancelled`, `registration`, `recovery` are the locals of `_start_once`
  and of the tasks it starts; `closer` is where the caller of `close()` is.
* The refresh at the head of `_acquire_slot` is part of each outcome of that iteration (`Grant`,
  `AcquireRaises`, `AcquireLaunch`, `AcquireWait`); the replenishing at the end of a close is part
  of `CloseSlotSucceeds` and `CloseSlotFails`.
* `notified` is the set of waiters `notify_all` has woken. A woken waiter reads the state when it
  runs, not when it was woken. On Python 3.12 and later `asyncio.wait_for` adds no step in between;
  the extra scheduling step of 3.11 is not modelled.
* Launches end when the world says so (`FactoryReturns`, `FactoryRaises`), even after their
  cancellation, because a third-party factory may ignore it.
* The launches of `start()` stay in `create_tasks` until the registration task has run, as the
  comment at `camouflare/pool.py:321` demands. Cancellation may reach `_start_once` at each of its
  awaits and once more during the recovery. A new `start()` waits until an orphaned recovery is
  over: the model keeps the locals of one startup.
* Both attempts of `_run_close_slot` are one action that succeeds or fails; a close that failed by
  its deadline may still end physically (`PhysicalCloseFinishes`) and be reconciled later.
* The first suitable slot of a list becomes any suitable slot. `uses` stops counting at the limit
  and `failures` at `MAX_CLOSE_RETRIES`, because the code only compares with them. The generation
  counter of launch failures becomes `outdated`, the callers that began before the last failure.
* One finalizer per lease: the repeatable `release()` of a persistent lease keeps a flag per
  counter and is not repeated here. A connection is only lost while the browser is in service.

### Sessions

* An element of `Sessions` is one attempt to build a session: its proxy lease, its context and, once
  registered, its `Session`. `root[s]` is where `_close_persistent_resources` is, `alive[s]` what
  still exists: the two differ when a cleanup times out while what it closes goes on.
* `holder` and `waiters` are the session's `asyncio.Lock`: a released lock is free until its first
  waiter resumes, and somebody who asks in between queues behind it. A waiter that is cancelled
  leaves the line wherever it stands (`Without`), as it leaves that of the launch lock and of
  the transport's semaphore (`RemoveFirst`).
* `builders`, `settled` and `woken` are `_PendingCreation`. The manager's own lock is never held
  across an await and needs no state.
* `commands.py` is translated with the manager: `GotSession` is what a command does with a session
  however it came by it, and `CheckOut` includes the look whether it is still the current one.
* A use of a session is a page, a solve, perhaps a probe, and the closing of the pages; what happens
  in the solve is in `SolveRequest`.

### The service's own tasks

* `CleanupSupervisor`: `ts[t]` is where a tracked task is, `timed_out` whom the deadline has marked,
  `event` and `set` the event objects of the groups. A replaced event is modelled as absent for
  whoever holds it. Callbacks run in the order they were scheduled: a `run()` that was woken before a
  task ended resumes first. A scope may be used after its task is gone. The instance has hand-offs
  and waiters without a shutdown, or callers of `run()` with one; the two never meet in the code.
  `Events` are as many as groups and waiters together, because `asyncio.Event()` never runs out of
  new ones; a `run()` is cancelled only where there is a shutdown (`NoRunCancelled`).
* `RuntimeShutdown`: the finalizer and `shutdown_runtime` are one actor. A phase may fail, overrun
  and ignore its cancellation. The periodic tasks are gathered outside the deadline, so that they
  end when they are cancelled is assumed; what a cleanup phase waits for is bounded by `CloseEnds` of
  `CleanupSupervisor`.
* `Readiness` reduces the pool to one browser with `Slots` contexts.

### HTTP

* `HttpTransport`: the semaphore is that of Python 3.11 (external), with a grant that can be lost to
  a timeout. `HttpFetch` keeps the pools of `httpcore` and lets a name resolve differently at every
  look; a url is a scheme and a host, headers are known by whether they are bound to an origin.
* `ContentCoding`: a byte stands for a part of the format. The reference is the language of whole
  bodies (`GzipBody`, `DeflateBody`); the decoder is fed any split of a body, with any output limit
  per call. `BodyLimits`: a chunk is known by where it ends in the body, so that its size is the
  distance to the end of the one before it; a coding turns one into any size, and a declared
  length is below, above or absent.

### Browsers

* `BrowserLaunch`: cancellations come from the pool when it abandons a launch and from the deadline
  under which the abandoned one is tracked.
* `BrowserHandle`: the exit of Camoufox's manager may return, fail, be cancelled or never end.
* `SocksBridge`: octets are left out. Closing an asyncio transport ends both of its directions. The
  handshake has no timeout, so no fairness is assumed of the peers.

### A request

* `SolveRequest`: the session path and the stateless one are merged; `Navigation` and `ChallengeWait`
  refine two of its steps, which here return or fail in every way they can. Nothing makes a step of
  the solve end but the deadline of the controller.
* `Navigation`, `ChallengeWait`: times are small integers. An await with a timeout may return late,
  by at most `MaxLate` in all. The floor of one millisecond for a timeout is the unit. In
  `ChallengeWait` a document is known by its kind; the poll passes no status, so a page that is a
  block only by its status reads as cleared there; `waitInSeconds` keeps no reserve, as in the code.
* `MediaRoutes`: one request at a time. What an interrupted change of the routes leaves wrong is
  of two kinds: handlers that no record leads to (`stale`), and a record of handlers that are partly gone
  (`partial`). The first can only block too much and the second too little, and `partial` ends with the
  next removal, which the record makes the next request that wants media do again.

## 3. Properties

Each module states its properties next to their comments, which name the line they are about.
What a reader should look at first:

* the pool: `Accounting`, `LeaseKeepsBrowser`, `SingleOwner`, `NoOrphanBrowser`, `PhysicalCeiling`,
  `NobodyStranded`, `ImplementsLeases`, `CloseEnds`;
* sessions: `OneSessionPerId`, `UseIsExclusive`, `CheckedOutSessionsStay`, `NoOrphanResources`,
  `ImplementsSessionIds`, `SessionsMove`;
* answers: `AnswersAreTrue` (a POST that the target may have received is never offered for a
  repetition), `PagesAsAsked`, `WaitsUseTheirTime`;
* the rest of the service: `AdmissionIsExact`, `HopsAsAsked`, `BodiesAreWhole`, `ShutdownInOrder`,
  `GroupsAreAwaited`, `RunsAnswerTruly`, `BrowsersExitOnce`, `TunnelsAreClosed`.

## 4. Runs

| Run | Instance | Question | States |
| --- | --- | --- | --- |
| `pool_leases` | 1 browser of 2 contexts (3 identifiers, so that retiring and replacing ones overlap up to the ceiling of 2), 2 callers of either kind, 2 uses, crashes and ageing | do leases, counters and wakeups stay right while browsers come and go; does the pool implement `BrowserLeases` | 283 k |
| `pool_startup` | a startup of 2 browsers, 1 caller, 4 identifiers (the ceiling) | does every browser keep one owner through cancellations and shutdown | 844 k |
| `pool_upkeep` | 1 warm browser of 1 context, 2 callers of either kind, crashes, 1 retry of a close | ceilings on processes and contexts, background launches that fit below them | 1.6 M |
| `pool_close` | 1 warm browser, 1 caller, fairness | does an uncancelled `close()` end | 124 k |
| `pool_saturated` | defaults: at least 1, at most 2 browsers of 1 context | does "saturated" mean that every context slot is held (violated, see below) | 0.6 k |
| `sessions_race` | 1 id, 3 sessions, 2 requests, 2 contexts | do requests that create, share, destroy and replace one id keep it apart | 345 k |
| `sessions_end` | 2 ids, of which 1 may be live or reserved, 2 sessions, 2 requests, 1 context, fairness | are used sessions left alone, are the ids those of `SessionIds`, does everything end, also a build that is refused a context and waits for another | 481 k |
| `transport` | 4 requests for 2 slots; 1 name, a public and a private address, 2 redirects; coded bodies of up to 5 bytes; 4 chunks around a limit of 4 | is admission exact, is every hop what was asked, are bodies whole | 358 k |
| `service` | 2 cancellations of the host; 2 cleanups with a hand-off and 2 waiters, or with a `run()` and a shutdown; 2 readiness checks of 2 contexts | does the service close in order, are cleanups awaited, reported once and owned | 151 k |
| `browsers` | 3 launches with up to 2 cancellations; 4 callers of one close; 2 tunnels | is a browser launched and closed by one at a time, does a tunnel leave nothing open | 73 k |
| `request` | every kind of request; 10 units of time for a navigation, 8 for its waits; 2 contexts, 2 media patterns | is the answer true, do pages and waits get what they are due | 369 k |
| `bridge_half_close` | 1 client | does the other direction of a tunnel go on after a half-close (violated, see below) | 0.1 k |

`transport`, `service`, `browsers` and `request` each explore several components that share no
state. `running`, chosen in `Init`, says which one moves; the others rest in a state where none
of their fair actions is enabled, so that the fairness of all of them can be stated at once. The
state space is the sum of those of the parts, not their product, and a combined property is the
conjunction of the properties of the parts, which the `MC` module lists.

### Why these bounds are enough

* Pool: what can go wrong needs two callers (one that releases and one that sleeps or shares the
  browser), a browser that retires while another is launched, one launch that is abandoned while
  its replacement runs, and one close that fails and is retried. Each instance runs into its limits:
  contexts, uses, launches, processes and retries.
* Sessions: a race for an id needs two builders; the third session is the tombstone of the one before
  them. A second id is needed only where commands about one prune the other, and for the limit on
  ids. One context is enough for two builds to meet: the second is refused and waits for the outcome
  of the first. Two, in `sessions_race`, let both finish, so that the loser discards what it built and
  takes the winner's session. A lock with a holder, a waiter and the closing task behind it is reached with two requests.
* Transport: two slots and four requests give a full transport, two waiters and a grant lost
  between them. A name with a public and a private address is a rebinding; the second redirect
  leads back to the first origin over a kept connection. Five bytes hold two gzip members, and a
  body cut in any way; four chunks fall short of, meet and exceed the limit at every position.
* Service: the first cancellation of the host is waited out and the second is not; a task and the hand-off
  that keeps its group open end in either order; two probes fill the browser.
* Browsers: a launch that holds the lock, one that waits for it and one that is cancelled; a close that
  is failing, retried and shared at the same time; with two tunnels one is still open while the
  other unwinds.
* Request: 10 units let the direct attempt, both stages of the browser and the fallback each run, run
  out and be skipped; 8 units are three polls and the reserve. Two patterns make a change of
  routes that fails half-way.

Browsers, callers, sessions and requests are symmetric (no action distinguishes them), so
`pool_leases`, `pool_startup`, `pool_upkeep` and `sessions_race` use symmetry; the runs that check
liveness do not. Deadlock is checked for the pool and for the sessions, which never stop: a closed pool
can be closed again, a closed manager refuses. It is not checked for the combined runs and for the
bridge, whose components end: a request is answered, a shutdown is over, a bridge is closed.

Each property has a variant of one definition (`A bug for P to find`) under which TLC finds it
violated: notify one waiter instead of all, close before the last release, keep a lock after a
failure, follow a redirect with the headers of the origin before it, and so on. They show that the
instances reach the situations the properties are about.

### Fairness

What is assumed everywhere is what the event loop gives: a task that can run does run, and a timer
that was armed fires. Beyond that:

* Pool: a leased body ends (`StartFinalizer(r, "none")`), because the controller cancels every request
  at its deadline; a factory ends, because shutdown cancels it and the supervisor cancels it again; a
  close task ends one way or the other, because `_bounded_cleanup` has a deadline. Nothing is assumed
  of new requests, timeouts, failures, maintenance or the cancellation of `close()`.
* Sessions: a request that works in a session ends by the same deadline, and what a cleanup closes ends,
  because the supervisor cancels it.
* Cleanups: deadlines pass. That a task ends after its cancellation is not assumed: `close()` and
  `run()` return nevertheless.
* Transport: a fetch ends by its timeout. `close()` is called only if the runtime does.
* Shutdown: the deadline passes, and the periodic tasks end when they are cancelled. A phase need not end.
* Readiness: the deadline passes and a cancelled probe unwinds. A probe that is not cancelled may
  wait for ever.
* Launches: every enter and exit of a manager ends. The close of a handle: no fairness of the exit.
* Bridge: what a handler does by itself. Peers may be silent for ever.
* Requests: the deadline passes and cleanups end. No step of a solve need end. The waits end by their
  timeouts, and a look at the page because the browser answers or fails.

## 5. Disagreements between code and documentation

Two of them are shown by a run that TLC finds violated:

* `pool_saturated`: `docs/deployment.md:142` says that `/ready` probes the pool "by leasing, and if
  needed launching, a browser context, unless every context slot is held", and `camouflare/app.py:329`
  reports "Every browser context slot is in use". `is_full_and_serving` (`camouflare/pool.py:367`)
  looks only at launched browsers. With the default of one warm browser and at most two, a single
  lease makes the pool "saturated" although half of its `max_slots` is free and the next request would
  launch the second browser. The tests that pin the behaviour use a maximum of one browser.
* `bridge_half_close`: the comment at `camouflare/proxy.py:227` says that a clean end of file of one
  direction must not truncate the other. The pipe that reads it calls `writer.close()`
  (`camouflare/proxy.py:208`), which closes both directions of that socket: a client that half-closes
  after its request gets no answer.

The others were met while modelling; the models do what the code does, and the properties are
stated so that they hold of it:

* `camouflare/sessions.py:269`: once a creation of an id has been settled, a request that has to wait for
  that id while another build of it still lasts is woken at once and rejected when there is no
  winner (any more).
* `camouflare/cleanup.py:270`, against the comment at 316: a task that is cancelled by the shutdown after
  its deadline has been reported gets a second outcome, `cancelled` after `timeout`. `RunsAnswerTruly`
  speaks of the first.
* `camouflare/runtime.py:73`, against 71: a second cancellation of the host leaves the wait for the
  finalizer. `OneCancellationWaits` speaks of the first.
* `camouflare/browser.py:353`, against 333: when the teardown of a cancelled launch is cancelled itself, the
  lock is released while the exit goes on, and the next launch overlaps with it. `LaunchesSerial`
  has this as its hypothesis.
* `camouflare/app.py:554`, against `docs/upgrade-to-2.0.md:44`: an answer replaced for its size does not say
  that the outcome of a POST is unknown. `PostFailureIsMarked` excepts it.
* `camouflare/solver.py:692`, against 111: when a change of routes fails or is cancelled half-way, the routes
  that were attached are not recorded, and the next request attaches them again or never removes
  them. When a removal is cancelled half-way (703), the record stays, and a next request that asks for no media
  is served with the routes that are left. `BlockedAsAsked` holds in spite of the first and
  `MediaAsAsked` in spite of the second; each leaves out the contexts in which the other's case occurred.

## 6. Proofs

The theorems hold for every value of the constants that satisfies the assumptions of the module:
finite sets, names of actors that are not names of data, and the limits that `config.py` accepts.

| Module | Theorem | Statement |
| --- | --- | --- |
| `BrowserPoolProofs` | `TypeCorrect` | `Spec => []TypeOK` |
| | `PoolInvariantHolds` | `Spec => []PoolInvariant`, the inductive invariant |
| | `LeasesKeepTheirBrowser` | `Spec => []LeaseKeepsBrowser` |
| | `CountersAreExact` | `Spec => []Accounting` |
| | `NoBrowserIsLost` | `Spec => []NoOrphanBrowser` |
| | `BrowsersHaveOneOwner` | `Spec => []SingleOwner` |
| | `LimitsAreKept` | `Spec => []ContextLimits` |
| `BrowserPoolPromises` | `CeilingHolds` | `Spec => []PhysicalCeiling` |
| | `BackgroundLaunchesAlwaysFit` | `Spec => BackgroundLaunchesFit` |
| | `RetirementHolds` | `Spec => RetirementIsFinal` |
| | `LeasesAreServedAlways` | `Spec => LeasesAreServed` |
| | `CloseLeavesNothing` | `Spec => []CloseReleasesBrowsers` |
| | `NobodySleepsThrough` | `Spec => []NobodyStranded` |
| | `PoolImplementsLeases` | `Spec => ImplementsLeases`, the refinement of `BrowserLeases` |
| `SessionsProofs` | `SessionsInvariant` | `Spec => []IInv`, the inductive invariant |
| | `TypesHold` | `Spec => []TypeOK` |
| | `ContextsAreHeld`, `UsesAreExclusive` | `Spec => []UseIsExclusive` |
| | `NothingIsOrphaned` | `Spec => []NoOrphanResources` |
| | `OneSessionForAnId` | `Spec => []OneSessionPerId` |
| | `PagesInCurrentSessions` | `Spec => PagesOnlyInCurrentSessions` |
| | `CheckedOutSessionsAreKept` | `Spec => CheckedOutSessionsStay` |
| | `ManagerImplementsSessionIds` | `Spec => ImplementsSessionIds`, the refinement |
| `TransportProofs` | `EveryHopIsAsAsked` | `Spec => []HopsAsAsked` |
| | `FailuresAreBlamed` | `Spec => BlameFollowsHop` |
| | `SlotsAreExact` | `Spec => []AdmissionIsExact` |
| | `BodiesHold` | `Spec => []BodiesAreWhole` |
| `BrowsersProofs` | `NoTunnelIsLeft` | `Spec => []TunnelsAreClosed` |
| | `BrowsersAreExitedOnce` | `Spec => []BrowsersExitOnce` |
| `ServiceProofs` | `ShutdownIsInOrder` | `Spec => []ShutdownInOrder`, from `TypesHold`, `EveryPhaseHasRun`, `PhasesOneAtATime`, `UpkeepIsQuiet`, `OneCancellationIsWaitedOut` |
| | `LeftProbesAreOwned` | `ServiceSpec => []ProbesAreOwned` |
| | `NoWaiterIsLost` | `ServiceSpec => []GroupsAreAwaited` |
| | `AnswersAreTrue` | `ServiceSpec => []RunsAnswerTruly` |
| | `CloseLeavesNobodyUntold` | `ServiceSpec => Supervisor!CloseTellsAll`, the safety part of `ServiceMoves` |
| `RequestProofs` | `AnswersHold` | `Spec => []AnswersAreTrue`, from `TypesHold`, `PostFailuresAreFinal`, `PostFailuresAreMarked`, `UnsentAreKnown`, `BufferedAlwaysSpeaks`; `BlocksAreFinal` |
| | `RequestInvariant` | `RequestSpec => []RequestInv`, the inductive invariant |
| | `AnswersAreAsSaid` | `RequestSpec => []AnswersAreTrue` |
| | `PagesHold` | `RequestSpec => []PagesAsAsked` |
| | `WaitsHold` | `RequestSpec => []WaitsUseTheirTime` |
| | `LooksHold` | `RequestSpec => LooksAreFinal` |

### The pool

None of the properties is inductive alone. `PoolInvariant` is `TypeOK /\ Ownership /\ LeasesTracked`:

* `Ownership` adds to "one owner" and "no orphan" where launches are (`LaunchesTracked`: a
  running factory belongs to a create task or a watcher and has no browser yet) and what a
  startup still owns (`StartupTracked`: its launches are in `create_tasks` until the
  registration has run). Without the second, `RegisterStartedSlots` could append a browser that
  somebody else closes.
* A release closes the browser it leaves idle. That this browser is in service, and not in two
  hands, is `LeaseKeepsBrowser`; so `Ownership` needs `LeasesTracked`.
* `LeaseKeepsBrowser` is kept because only idle slots leave service, and "idle" means
  `active = 0`, which by `SlotAccounting` means that nobody holds it; so it needs the counters.
* The counters are kept because a caller holds a reservation exactly at certain places
  (`Holding`) and counts as a session exactly at others (`Counting`).

Each step of the proof goes action by action, under lemmas on what leaves leases undisturbed
(`Undisturbed`) and what a single gain or loss does to a cardinality (`OneMore`). `LimitsAreKept`
is a second induction on top of it: only a grant adds to a slot or to the sessions, and it
looked at the limits in the same critical section.

`BrowserPoolPromises` takes what a caller of the pool relies on from that invariant:

* `RetirementIsFinal` from what one step can do to one slot (`Fate`): it wears (`Wears`), leaves or is
  made anew, by one lemma per action. `LeasesAreServed` needs besides that a ready browser has no
  reason to retire and that the refresh ran before the choice (`ReasonsTracked`).
* `PhysicalCeiling` counts launches and browsers as one set of owned ones. Only three places add to it,
  and each compared the number of generations with its limit in the same critical section; no
  generation is left out of that number (`CountedGenerations`), because what is neither in service
  nor being launched is closing (`LiveBrowsers`).
* `CloseReleasesBrowsers` follows the phases of `close()` (`ClosePhases`): what the pool may still
  own when each of them begins.
* `NobodyStranded` needs `SleepersMissNothing`: whoever sleeps un-notified has seen a state in which
  there was nothing for it, and every action that makes that false notifies.
* The refinement maps the lease of a caller and the condition of a browser to those of
  `BrowserLeases`; its mapping is proved a step or a stutter action by action.

### Sessions

`IInv` conjoins, besides the shape of the variables: `Registry` (an id has a whole registered session
or a tombstone with its closing task, never both, and whatever is left of a session that was
registered belongs to one of them), `Attempts` (what a request builds has no id yet and nobody
else knows it), `Locks` (who holds the lock of a session works in it or closes it), `UsersKnow` and
`NoOrphans`. The tombstone argument needs all of them: that a session in use is whole follows because
its closing task would hold the lock, and that the registration does not overwrite anything follows
because a fresh attempt is private. Three inductions stand on it: `Bounded` (live and reserved ids
stay within `MAX_SESSIONS`, through the refinement of `SessionIds`), `Counted` (`in_use` is the
number of requests that have the session checked out; one lemma for a request that checks
out, one for one that gives back, one for the rest), and the action property on pages.

`CheckedOutSessionsStay` looks at who withdraws a session and why: the pruner and the eviction for an
idle limit see `in_use` at zero, and by `Counted` nobody has it checked out then.

### The transport

* `FetchInv` says of the hop under way what was decided before it: its headers and its pool are those
  of the request at this url (`HopChecked`), the address was vetted for this connection and not for
  an earlier look at the name (`HopVetted`), and how far it is (`HopProgresses`). Kept connections
  of the blocking pool lead to public addresses (`PoolsSound`), so that reusing one is no way round.
* `AdmissionInv` ties three counts to each other that the code keeps apart: the free slots of
  the semaphore, the grants that are on their way to a waiter, and the transport's own `active`. The
  line consists of those that wait (`Line`), which a grant and a timeout in the same turn keep.
* `ReadingInv` says of a read that its chunks end one behind the other and no further than one chunk
  past the limit (`ChunksGrow`), and that until a limit is passed what was kept is the end of the
  chunk before the next one and the result is all that was decoded (`HandedOn`).
* `CodingInv` is about a position in the body, `Done`, up to which the decoder is done: `_input` and what
  has not arrived are the rest behind it (`Aligned`), nothing stays in `_input` after a call that
  was not cut short (`InputUsed`), and the data handed on is the data in front of it. For gzip, what
  lies in front is the beginning of a body, part by part, and the decompressor's state
  and the number of members tell what the last part was (`GzipAt`); for deflate, it is the header, a
  run of data, and the end (`DeflateAt`). A call of zlib moves the position (`GzipTakes`, `DeflateTakes`);
  where zlib refuses, two neighbouring parts exist that no body has (`GzipRefuses`, `DeflateRefuses`), so
  that a refusal is right whatever is still to come; and `finish()` accepts just what is a whole
  body (`GzipVerdict`, `DeflateVerdict`). No induction over the body is needed: the languages are
  defined by neighbouring parts, the data is counted by a cardinality, and a run of data or of
  padding is found as a least element of a set of numbers, which are well founded (`LeastExists`).
  It holds for every way to cut the body and every size of a call, so that the five bytes
  of the run are no limit of the result. What zlib itself does with a header, data
  and a checksum is external and modelled (`Decompress`).

### Browsers

* `BridgeInv` follows each handler (`Follow`): which sockets it can have open at its place, which
  pipes run and whether a cancellation is pending; and what `closed` has seen.
* `LaunchInv`: the lock has one holder, its line is made of those that wait, and a manager is entered
  under the lock. `HandleInv`: an exit runs only in the task that the handle knows, and callers are
  told of a success only when there was one (`OneTask`, `TruthTold`).

### Around the pool

* Shutdown: the invariant ties the place of the finalizer to the phases before and
  after it (`Progress`, `PhasesInOrder`), to the end of the periodic tasks (`UpkeepOver`) and to the
  number of cancellations the host has seen (`HostWaits`).
* Readiness: `ReadyInv` says where a probe can be while its check is at a place (`Follows`), and
  that the contexts leased by probes and by others fit the browser.
* Groups of cleanups: `EventsSound` says that groups share no event, that who waits for a group waits on its
  present event while there is work, or on one that is set, and that a group with work has no
  event that is set. It is kept because a group that gets work replaces a set event (`MoreWork`)
  and because who goes to sleep takes an event that nobody has (`FreshEvent`, `Sleeps`), which there
  always is. `HoldsCounted` counts the holds of each group.
* `run()`: `RunSound` says of each task which reports the mark of its deadline goes with, and which answers
  its `run()` can have given; a mark comes with its report, which is the first (`MarkedAt`). A marked
  task was asked to stop. `close()` marks what is tracked when it gives up, also what was registered
  while it drained and was in none of its rounds, so it leaves nobody at work that was not told and reported.

### A request

* The answer: `Stages` says at which places a POST can have been started and where a block can
  have been recognised; `ResultTold` says that whatever the task ended with is honest about it, unless
  the deadline has already answered, and `AnswerTold` that the answer is. What makes it inductive is that
  the deadline and every wrapper consult whether the POST was started, and that it is marked as
  started before anything can be received (`TypeOK`).
* The navigation: `NavigationInv` has two parts that do not need each other. `NavigationTime` compares the time
  at each stage, without what stages overran, with the deadline that counts there: a stage may begin
  late but not by more than was overrun before it, the wait for the commit keeps one unit
  because the first stage leaves it one, and the browser's deadline lies before the
  navigation's by the share of the fallback. `NavigationStory` follows the error and the page:
  what is reported, what is raised, and which document was there when the wait began.
* The waits: `WaitTime` is the same for the settling, the solve and the poll, and `PollTime` says that
  where sleeps move the clock the budget that is left never exceeds the time that is left before the
  reserve. That is why a poll that gives up has used its time, and none sleeps into the reserve.
* The media: `MediaInv` says of a loop over the patterns that what is attached is what it has done so
  far (`Blocked`), at every step of it: no less unless the context is `partial`, no more unless it is
  `stale` (`RoutesSound`). `RecordFollowed` says which loop runs for which record, in every context.

The four share no state; `RequestInv` is their conjunction, and each part either steps or rests.

### Only model-checked

* Liveness under fairness (`CloseEnds`, `SessionsMove`, `TransportMoves`, `ServiceMoves`,
  `BrowsersMove`, `RequestMoves`), which the prover cannot treat.
* The two disagreements, which TLC finds and nothing is to be proved of.

## 7. Not modelled

* Data without behaviour over time: request and response models and their validation, headers,
  cookies and their policy, HTML, the recognition of a block page from its text, the contents of a
  solution, documentation pages, the release scripts.
* Metrics, logging and `/diagnostics`: nothing reads them back.
* Entry points and the parsing of the configuration. The bounds that it enforces are the assumptions
  of the modules.
* Launch options, environment checks and the guarded patches of Playwright.
* Authentication and the reading of payloads.
* A hazard without a property: a caller whose own launch was abandoned keeps `launched` TRUE and
  sleeps for capacity that others produce (`camouflare/pool.py:865`). What follows is a wait for
  its timeout, which needs a model of the pool that counts time.

## 8. Plan

What is left is a pool that counts time, for the hazard of section 7.
