------------------------------- MODULE Sessions -------------------------------
(***************************************************************************)
(* Persistent sessions: the registry of src/camouflare/sessions.py and the *)
(* commands of src/camouflare/commands.py that create, use and destroy     *)
(* sessions.  One action is the code between two awaits.  The manager's    *)
(* asyncio.Lock is never held across an await, so it needs no state.       *)
(*                                                                         *)
(* An element of Sessions is one attempt to build a session: its proxy     *)
(* lease, its browser context and, once registered, its Session object.    *)
(***************************************************************************)
EXTENDS Integers, Sequences, FiniteSets

CONSTANTS Ids,           \* session ids named by requests
          Sessions,      \* identifiers of sessions and of attempts to build one
          Requests,      \* requests running at the same time
          None,          \* no session
          MaxSessions,   \* MAX_SESSIONS
          MaxPersistent  \* contexts the pool grants to sessions

ASSUME SessionsAssumption ==
    /\ IsFiniteSet(Ids)
    /\ IsFiniteSet(Sessions)
    /\ IsFiniteSet(Requests)
    /\ None \notin Sessions \cup Ids
    /\ "closer" \notin Requests
    /\ "nobody" \notin Requests
    /\ MaxSessions \in Nat \ {0}
    /\ MaxPersistent \in Nat

VARIABLES
    registry,   \* id -> SessionManager._sessions
    closing,    \* id -> session of SessionManager._closing
    builders,   \* id -> _PendingCreation.builders, 0 when there is none
    settled,    \* ids whose pending creation has its event set
    closed,     \* SessionManager._closed
    sid,        \* session -> Session.session_id once it was registered
    expired,    \* sessions past their ttl
    in_use,     \* session -> Session.in_use
    holder,     \* session -> who holds Session.lock
    waiters,    \* session -> queue of Session.lock
    closer,     \* session -> where its _close_session task is
    root,       \* session -> where the closing of its context and proxy is
    alive,      \* session -> which of its context and its proxy still exist
    pc,         \* request -> where it is
    cmd,        \* request -> its command
    target,     \* request -> the id it names
    sess,       \* request -> the session it got
    built,      \* request -> the session it builds or discards
    woken       \* requests whose wait for a creation has been signalled

managerVars  == <<registry, closing, closed, sid>>
creationVars == <<builders, settled, woken>>
lockVars     == <<in_use, holder, waiters>>
workVars     == <<root, alive>>
closeVars    == <<closer, workVars>>
requestVars  == <<pc, cmd, target, sess, built>>
vars == <<managerVars, creationVars, lockVars, closeVars, requestVars, expired>>

Commands == {"create", "use", "destroy"}

\* What a request does while it owns the session's lock.
InContext == {"page", "solve", "probe", "pages"}

CheckedOut == InContext \cup {"lock"}

TypeOK ==
    /\ registry \in [Ids -> Sessions \cup {None}]
    /\ closing \in [Ids -> Sessions \cup {None}]
    /\ builders \in [Ids -> Nat]
    /\ settled \subseteq Ids
    /\ closed \in BOOLEAN
    /\ sid \in [Sessions -> Ids \cup {None}]
    /\ expired \subseteq Sessions
    /\ in_use \in [Sessions -> Nat]
    /\ holder \in [Sessions -> Requests \cup {"closer", "nobody"}]
    /\ waiters \in [Sessions -> Seq(Requests \cup {"closer"})]
    /\ closer \in [Sessions -> {"none", "created", "queued", "cleaning"}]
    /\ root \in [Sessions -> {"none", "context", "proxy", "unwinding", "ok", "failed"}]
    /\ alive \in [Sessions -> SUBSET {"context", "proxy"}]
    /\ pc \in [Requests -> InContext \cup {"idle", "lease", "open", "lock", "refused",
                                           "await", "failed", "discard", "unwind", "destroy",
                                           "rotate"}]
    /\ cmd \in [Requests -> Commands \cup {"none"}]
    /\ target \in [Requests -> Ids \cup {None}]
    /\ sess \in [Requests -> Sessions \cup {None}]
    /\ built \in [Requests -> Sessions \cup {None}]
    /\ woken \subseteq Requests

Init ==
    /\ registry = [i \in Ids |-> None]
    /\ closing = [i \in Ids |-> None]
    /\ builders = [i \in Ids |-> 0]
    /\ settled = {}
    /\ closed = FALSE
    /\ sid = [s \in Sessions |-> None]
    /\ expired = {}
    /\ in_use = [s \in Sessions |-> 0]
    /\ holder = [s \in Sessions |-> "nobody"]
    /\ waiters = [s \in Sessions |-> <<>>]
    /\ closer = [s \in Sessions |-> "none"]
    /\ root = [s \in Sessions |-> "none"]
    /\ alive = [s \in Sessions |-> {}]
    /\ pc = [r \in Requests |-> "idle"]
    /\ cmd = [r \in Requests |-> "none"]
    /\ target = [r \in Requests |-> None]
    /\ sess = [r \in Requests |-> None]
    /\ built = [r \in Requests |-> None]
    /\ woken = {}

-----------------------------------------------------------------------------
Registered == {registry[i] : i \in Ids} \ {None}
Tombstones == {closing[i] : i \in Ids} \ {None}

Live     == {i \in Ids : registry[i] # None}
Reserved == {i \in Ids : closing[i] # None}

\* An identifier to which no request but r refers any more.
Fresh(r, s) ==
    /\ s \notin Registered \cup Tombstones
    /\ alive[s] = {}
    /\ \A q \in Requests \ {r} : sess[q] # s /\ built[q] # s

\* _start_closing_unlocked for every session in ids, which leave the registry.
StartClosing(ids) ==
    /\ registry' = [i \in Ids |-> IF i \in ids THEN None ELSE registry[i]]
    /\ closing' = [i \in Ids |-> IF i \in ids /\ closing[i] = None THEN registry[i]
                                 ELSE closing[i]]
    /\ closer' = [s \in Sessions |->
                    IF \E i \in ids : registry[i] = s /\ closing[i] = None
                    THEN "created" ELSE closer[s]]

\* A bug for CheckedOutSessionsStay to find: only the lock tells who uses a session.
ExpiredUnlocked(x) ==
    {i \in Ids \ {x} : registry[i] \in expired /\ holder[registry[i]] = "nobody"}

\* prune_expired(exclude = x): sessions past their ttl that nobody has checked out.
Expired(x) ==
    {i \in Ids \ {x} : /\ registry[i] \in expired
                       /\ in_use[registry[i]] = 0
                       /\ holder[registry[i]] = "nobody"}

\* A session whose ttl has passed is still used while others use it.
Usable(s) == s \notin expired \/ holder[s] # "nobody" \/ in_use[s] > 0

\* The request leaves with a response, an error or by its cancellation.
Leave(r) ==
    /\ pc' = [pc EXCEPT ![r] = "idle"]
    /\ cmd' = [cmd EXCEPT ![r] = "none"]
    /\ target' = [target EXCEPT ![r] = None]
    /\ sess' = [sess EXCEPT ![r] = None]
    /\ built' = [built EXCEPT ![r] = None]

\* The request goes on at p with session s, for its command on id i.
Proceed(r, p, c, i, s) ==
    /\ pc' = [pc EXCEPT ![r] = p]
    /\ cmd' = [cmd EXCEPT ![r] = c]
    /\ target' = [target EXCEPT ![r] = i]
    /\ sess' = [sess EXCEPT ![r] = s]
    /\ built' = [built EXCEPT ![r] = None]

\* A bug for TypeOK to find: a request that has to wait is not counted.
CheckOutUncounted(r, i, s, current) ==
    \/ /\ holder[s] = "nobody" /\ waiters[s] = <<>> /\ current
       /\ in_use' = [in_use EXCEPT ![s] = @ + 1]
       /\ holder' = [holder EXCEPT ![s] = r]
       /\ Proceed(r, "page", "use", i, s)
       /\ UNCHANGED waiters
    \/ /\ holder[s] = "nobody" /\ waiters[s] = <<>> /\ ~current
       /\ Leave(r) /\ UNCHANGED lockVars
    \/ /\ ~(holder[s] = "nobody" /\ waiters[s] = <<>>)
       /\ waiters' = [waiters EXCEPT ![s] = Append(@, r)]
       /\ Proceed(r, "lock", "use", i, s)
       /\ UNCHANGED <<in_use, holder>>

\* mark_in_use, then the lock: at once when it is free and nobody waits for it.
\* Who finds its session withdrawn gives both back and leaves.
CheckOut(r, i, s, current) ==
    \/ /\ holder[s] = "nobody" /\ waiters[s] = <<>>
       /\ current
       /\ in_use' = [in_use EXCEPT ![s] = @ + 1]
       /\ holder' = [holder EXCEPT ![s] = r]
       /\ Proceed(r, "page", "use", i, s)
       /\ UNCHANGED waiters
    \/ /\ holder[s] = "nobody" /\ waiters[s] = <<>>
       /\ ~current
       /\ Leave(r)
       /\ UNCHANGED lockVars
    \/ /\ ~(holder[s] = "nobody" /\ waiters[s] = <<>>)
       /\ in_use' = [in_use EXCEPT ![s] = @ + 1]
       /\ waiters' = [waiters EXCEPT ![s] = Append(@, r)]
       /\ Proceed(r, "lock", "use", i, s)
       /\ UNCHANGED holder

\* The command has its session: sessions.create answers, a request checks it out.
GotSession(r, s, current) ==
    \/ cmd[r] = "create" /\ Leave(r) /\ UNCHANGED lockVars
    \/ cmd[r] = "use" /\ CheckOut(r, target[r], s, current)

\* _create_session up to its first await: an id that is still closing is refused.
StartBuilding(r, c, i) ==
    \/ closing[i] # None /\ Leave(r) /\ UNCHANGED <<sid, expired, workVars>>
    \/ /\ closing[i] = None
       /\ \E s \in Sessions :
            /\ Fresh(r, s)
            /\ pc' = [pc EXCEPT ![r] = "lease"]
            /\ cmd' = [cmd EXCEPT ![r] = c]
            /\ target' = [target EXCEPT ![r] = i]
            /\ sess' = [sess EXCEPT ![r] = None]
            /\ built' = [built EXCEPT ![r] = s]
            /\ alive' = [alive EXCEPT ![s] = {"proxy"}]
            /\ root' = [root EXCEPT ![s] = "none"]
            /\ sid' = [sid EXCEPT ![s] = None]
            /\ expired' = expired \ {s}

\* A bug for SessionsMove to find: a build that ends without a winner wakes nobody.
LeaveCreatingSilent(r, registered) ==
    LET i == target[r]
        last == builders[i] = 1
    IN  /\ builders' = [builders EXCEPT ![i] = @ - 1]
        /\ settled' = IF last THEN settled \ {i}
                      ELSE IF registered THEN settled \cup {i}
                      ELSE settled
        /\ woken' = IF registered
                    THEN woken \cup {q \in Requests : pc[q] = "await" /\ target[q] = i}
                    ELSE woken

\* The creating block of request r ends; registered is whether r registers at once.
LeaveCreating(r, registered) ==
    LET i == target[r]
        last == builders[i] = 1
    IN  /\ builders' = [builders EXCEPT ![i] = @ - 1]
        /\ settled' = IF last THEN settled \ {i}
                      ELSE IF registered THEN settled \cup {i}
                      ELSE settled
        /\ woken' = IF last \/ registered
                    THEN woken \cup {q \in Requests : pc[q] = "await" /\ target[q] = i}
                    ELSE woken

-----------------------------------------------------------------------------
(***************************************************************************)
(* Commands.  Creating or using a session first prunes the other ids.      *)
(***************************************************************************)
BeginCreate(r, i) ==
    /\ pc[r] = "idle"
    /\ StartClosing(Expired(i))
    /\ \/ registry[i] # None /\ UNCHANGED <<requestVars, sid, expired, workVars>>
       \/ registry[i] = None /\ StartBuilding(r, "create", i)
    /\ UNCHANGED <<closed, creationVars, lockVars>>

\* A usable session is checked out before anything else runs.
BeginUse(r, i) ==
    /\ pc[r] = "idle"
    /\ \/ /\ registry[i] # None /\ Usable(registry[i])
          /\ StartClosing(Expired(i))
          /\ CheckOut(r, i, registry[i], TRUE)
          /\ UNCHANGED <<sid, expired, workVars>>
       \/ /\ registry[i] # None /\ ~Usable(registry[i])
          /\ StartClosing(Expired(i) \cup {i})
          /\ Proceed(r, "rotate", "use", i, registry[i])
          /\ UNCHANGED <<sid, expired, lockVars, workVars>>
       \/ /\ registry[i] = None
          /\ StartClosing(Expired(i))
          /\ StartBuilding(r, "use", i)
          /\ UNCHANGED lockVars
    /\ UNCHANGED <<closed, creationVars>>

\* A second destroy attaches to the closing task of the first.
BeginDestroy(r, i) ==
    /\ pc[r] = "idle"
    /\ registry[i] # None \/ closing[i] # None
    /\ StartClosing({i} \cap Live)
    /\ Proceed(r, "destroy", "destroy", i, IF registry[i] # None THEN registry[i] ELSE closing[i])
    /\ UNCHANGED <<closed, sid, creationVars, lockVars, workVars, expired>>

\* The caller learns how the closing task ended.
DestroyEnds(r) ==
    /\ pc[r] = "destroy"
    /\ closer[sess[r]] = "none"
    /\ Leave(r)
    /\ UNCHANGED <<managerVars, creationVars, lockVars, closeVars, expired>>

\* A failed cleanup fails the rotation; otherwise a new session is built.
RotateEnds(r) ==
    /\ pc[r] = "rotate"
    /\ closer[sess[r]] = "none"
    /\ \/ root[sess[r]] = "failed" /\ Leave(r) /\ UNCHANGED <<sid, expired, workVars>>
       \/ root[sess[r]] = "ok" /\ StartBuilding(r, "use", target[r])
    /\ UNCHANGED <<registry, closing, closed, creationVars, lockVars, closer>>

(***************************************************************************)
(* Building a session.                                                     *)
(***************************************************************************)
SessionContexts == {s \in Sessions : "context" \in alive[s]}

\* The proxy lease is open and the pool reserves a persistent slot.
BuildStarts(r) ==
    /\ pc[r] = "lease"
    /\ Cardinality(SessionContexts) < MaxPersistent
    /\ pc' = [pc EXCEPT ![r] = "open"]
    /\ alive' = [alive EXCEPT ![built[r]] = @ \cup {"context"}]
    /\ builders' = [builders EXCEPT ![target[r]] = @ + 1]
    /\ UNCHANGED <<managerVars, settled, woken, lockVars, closer, root, cmd, target, sess, built,
                   expired>>

\* PersistentCapacityError: the lease is given back first.
BuildRefused(r) ==
    /\ pc[r] = "lease"
    /\ Cardinality(SessionContexts) >= MaxPersistent
    /\ pc' = [pc EXCEPT ![r] = "refused"]
    /\ root' = [root EXCEPT ![built[r]] = "proxy"]
    /\ UNCHANGED <<managerVars, creationVars, lockVars, closer, alive, cmd, target, sess, built,
                   expired>>

\* The pool could not open a context, or the request was cancelled meanwhile.
BuildFails(r) ==
    /\ pc[r] = "open"
    /\ LeaveCreating(r, FALSE)
    /\ pc' = [pc EXCEPT ![r] = "failed"]
    /\ alive' = [alive EXCEPT ![built[r]] = @ \ {"context"}]
    /\ root' = [root EXCEPT ![built[r]] = "proxy"]
    /\ UNCHANGED <<managerVars, lockVars, closer, cmd, target, sess, built, expired>>

\* A bug for ImplementsSessionIds to find: sessions that still close leave room.
MayRegisterEarly(i) ==
    ~closed /\ registry[i] = None /\ closing[i] = None /\ Cardinality(Live) < MaxSessions

\* register_or_get has room for the id.
MayRegister(i) ==
    /\ ~closed
    /\ registry[i] = None
    /\ closing[i] = None
    /\ Cardinality(Live) + Cardinality(Reserved) < MaxSessions

\* No await separates the end of the creating block from the registration.
BuildRegisters(r) ==
    /\ pc[r] = "open"
    /\ MayRegister(target[r])
    /\ LeaveCreating(r, TRUE)
    /\ registry' = [registry EXCEPT ![target[r]] = built[r]]
    /\ sid' = [sid EXCEPT ![built[r]] = target[r]]
    /\ GotSession(r, built[r], TRUE)
    /\ UNCHANGED <<closing, closed, closeVars, expired>>

\* A bug for NoOrphanResources to find: the loser of a race keeps quiet about its context.
BuildForgotten(r) ==
    /\ pc[r] = "open"
    /\ ~MayRegister(target[r])
    /\ LeaveCreating(r, FALSE)
    /\ Leave(r)
    /\ UNCHANGED <<managerVars, lockVars, closeVars, expired>>

\* The loser of a race, or a refused registration, discards what it built.
BuildDiscarded(r) ==
    /\ pc[r] = "open"
    /\ ~MayRegister(target[r])
    /\ LeaveCreating(r, FALSE)
    /\ pc' = [pc EXCEPT ![r] = "discard"]
    /\ sess' = [sess EXCEPT ![r] = IF closed THEN None ELSE registry[target[r]]]
    /\ root' = [root EXCEPT ![built[r]] = "context"]
    /\ UNCHANGED <<managerVars, lockVars, closer, alive, cmd, target, built, expired>>

Ended(s) == root[s] \in {"ok", "failed"}

\* The loser continues with the winner it found, however old that finding is by now.
DiscardEnds(r) ==
    /\ pc[r] = "discard"
    /\ Ended(built[r])
    /\ \/ /\ root[built[r]] = "ok" /\ sess[r] # None
          /\ GotSession(r, sess[r], registry[target[r]] = sess[r])
       \/ /\ root[built[r]] = "failed" \/ sess[r] = None
          /\ Leave(r) /\ UNCHANGED lockVars
    /\ UNCHANGED <<managerVars, creationVars, closeVars, expired>>

\* wait_for_creation: without a winner yet, wait while builds of the id are in flight.
RefusedEnds(r) ==
    /\ pc[r] = "refused"
    /\ Ended(built[r])
    /\ \/ /\ registry[target[r]] # None
          /\ GotSession(r, registry[target[r]], TRUE)
          /\ UNCHANGED woken
       \/ /\ registry[target[r]] = None /\ builders[target[r]] > 0
          /\ Proceed(r, "await", cmd[r], target[r], None)
          /\ woken' = IF target[r] \in settled THEN woken \cup {r} ELSE woken
          /\ UNCHANGED lockVars
       \/ /\ registry[target[r]] = None /\ builders[target[r]] = 0
          /\ Leave(r)
          /\ UNCHANGED <<woken, lockVars>>
    /\ UNCHANGED <<managerVars, builders, settled, closeVars, expired>>

\* Woken or timed out, the waiter takes the winner or is rejected.
AwaitEnds(r) ==
    /\ pc[r] = "await"
    /\ \/ registry[target[r]] # None /\ GotSession(r, registry[target[r]], TRUE)
       \/ registry[target[r]] = None /\ Leave(r) /\ UNCHANGED lockVars
    /\ woken' = woken \ {r}
    /\ UNCHANGED <<managerVars, builders, settled, closeVars, expired>>

AwaitWoken(r) == r \in woken /\ AwaitEnds(r)

AwaitTimesOut(r) == r \notin woken /\ AwaitEnds(r)

FailureEnds(r) ==
    /\ pc[r] \in {"failed", "unwind"}
    /\ Ended(built[r])
    /\ Leave(r)
    /\ UNCHANGED <<managerVars, creationVars, lockVars, closeVars, expired>>

(***************************************************************************)
(* Using a session.                                                        *)
(***************************************************************************)
\* A bug for PagesOnlyInCurrentSessions to find: the lock is taken for a licence.
LockTurnTrusting(r) ==
    LET s == sess[r] IN
    /\ pc[r] = "lock"
    /\ holder[s] = "nobody"
    /\ Head(waiters[s]) = r
    /\ waiters' = [waiters EXCEPT ![s] = Tail(@)]
    /\ holder' = [holder EXCEPT ![s] = r]
    /\ pc' = [pc EXCEPT ![r] = "page"]
    /\ UNCHANGED <<managerVars, creationVars, closeVars, expired, in_use, cmd, target, sess, built>>

\* The first waiter resumes some time after the lock was released, and looks again
\* whether its session is still the one registered.
LockTurn(r) ==
    LET s == sess[r] IN
    /\ pc[r] = "lock"
    /\ holder[s] = "nobody"
    /\ Head(waiters[s]) = r
    /\ waiters' = [waiters EXCEPT ![s] = Tail(@)]
    /\ \/ /\ registry[target[r]] = s
          /\ holder' = [holder EXCEPT ![s] = r]
          /\ pc' = [pc EXCEPT ![r] = "page"]
          /\ UNCHANGED <<in_use, cmd, target, sess, built>>
       \/ /\ registry[target[r]] # s
          /\ in_use' = [in_use EXCEPT ![s] = @ - 1]
          /\ Leave(r)
          /\ UNCHANGED holder
    /\ UNCHANGED <<managerVars, creationVars, closeVars, expired>>

\* From p to q within the session, without any other effect.
Within(r, p, q) ==
    /\ pc[r] = p
    /\ pc' = [pc EXCEPT ![r] = q]
    /\ UNCHANGED <<managerVars, creationVars, lockVars, closeVars, expired, cmd, target, sess,
                   built>>

PageOpens(r) == Within(r, "page", "solve")

\* After a transport error a fresh page probes whether the context still works.
SolveEnds(r) == Within(r, "solve", "pages") \/ Within(r, "solve", "probe")

ProbeSucceeds(r) == Within(r, "probe", "pages")

\* evict_if_current: only the very session that failed leaves the registry.
ContextUnusable(r) ==
    /\ pc[r] \in {"page", "probe"}
    /\ StartClosing({i \in Ids : i = sid[sess[r]] /\ registry[i] = sess[r]})
    /\ pc' = [pc EXCEPT ![r] = "pages"]
    /\ UNCHANGED <<closed, sid, creationVars, lockVars, workVars, expired, cmd, target, sess,
                   built>>

\* A bug for SessionsMove to find: a request does not give a lost session's lock back.
PagesClosedLocked(r) ==
    /\ pc[r] = "pages"
    /\ holder' = [holder EXCEPT ![sess[r]] = IF closer[sess[r]] = "none" THEN "nobody" ELSE @]
    /\ in_use' = [in_use EXCEPT ![sess[r]] = @ - 1]
    /\ Leave(r)
    /\ UNCHANGED <<managerVars, creationVars, waiters, closeVars, expired>>

\* close_request_pages is over: the lock and the checkout are given back together.
PagesClosed(r) ==
    /\ pc[r] = "pages"
    /\ holder' = [holder EXCEPT ![sess[r]] = "nobody"]
    /\ in_use' = [in_use EXCEPT ![sess[r]] = @ - 1]
    /\ Leave(r)
    /\ UNCHANGED <<managerVars, creationVars, waiters, closeVars, expired>>

(***************************************************************************)
(* Cancellation by the controller's deadline, at any await.                *)
(***************************************************************************)
CancelWaiting(r) ==
    /\ pc[r] \in {"await", "destroy", "rotate"}
    /\ Leave(r)
    /\ woken' = woken \ {r}
    /\ UNCHANGED <<managerVars, builders, settled, lockVars, closeVars, expired>>

\* open_proxy_lease failed or was cancelled, and leaves nothing behind.
CancelLease(r) ==
    /\ pc[r] = "lease"
    /\ alive' = [alive EXCEPT ![built[r]] = {}]
    /\ Leave(r)
    /\ UNCHANGED <<managerVars, creationVars, lockVars, closer, root, expired>>

\* A queue without its n-th waiter.
Without(queue, n) == SubSeq(queue, 1, n - 1) \o SubSeq(queue, n + 1, Len(queue))

\* asyncio.Lock.acquire takes the cancelled waiter out of the lock's queue.
CancelLock(r) ==
    LET s == sess[r] IN
    /\ pc[r] = "lock"
    /\ \E n \in 1 .. Len(waiters[s]) :
         /\ waiters[s][n] = r
         /\ waiters' = [waiters EXCEPT ![s] = Without(@, n)]
    /\ in_use' = [in_use EXCEPT ![s] = @ - 1]
    /\ Leave(r)
    /\ UNCHANGED <<managerVars, creationVars, holder, closeVars, expired>>

\* The lease is closed by a supervised task, which goes on without the request.
CancelProxyClose(r) ==
    /\ pc[r] \in {"refused", "failed"}
    /\ root' = [root EXCEPT ![built[r]] = "failed"]
    /\ Leave(r)
    /\ UNCHANGED <<managerVars, creationVars, lockVars, closer, alive, expired>>

\* Discarding runs in the request: cancelled, it still starts to close the proxy.
CancelDiscard(r) ==
    /\ pc[r] = "discard"
    /\ pc' = [pc EXCEPT ![r] = "unwind"]
    /\ root' = [root EXCEPT ![built[r]] = IF @ = "context" THEN "unwinding" ELSE "failed"]
    /\ UNCHANGED <<managerVars, creationVars, lockVars, closer, alive, cmd, target, sess, built,
                   expired>>

CancelInContext(r) == Within(r, "page", "pages") \/ Within(r, "solve", "pages")

-----------------------------------------------------------------------------
(***************************************************************************)
(* Closing tasks.                                                          *)
(***************************************************************************)
CleaningBegins(s) ==
    /\ holder' = [holder EXCEPT ![s] = "closer"]
    /\ closer' = [closer EXCEPT ![s] = "cleaning"]
    /\ root' = [root EXCEPT ![s] = "context"]

\* A bug for UseIsExclusive to find: the closing task does not wait for the lock.
CloseSessionBargesIn(s) ==
    /\ closer[s] = "created"
    /\ CleaningBegins(s)
    /\ UNCHANGED <<managerVars, creationVars, waiters, in_use, alive, requestVars, expired>>

\* _close_session asks for the lock, behind the requests that already wait for it.
CloseSessionStarts(s) ==
    /\ closer[s] = "created"
    /\ \/ /\ holder[s] = "nobody" /\ waiters[s] = <<>>
          /\ CleaningBegins(s)
          /\ UNCHANGED waiters
       \/ /\ ~(holder[s] = "nobody" /\ waiters[s] = <<>>)
          /\ waiters' = [waiters EXCEPT ![s] = Append(@, "closer")]
          /\ closer' = [closer EXCEPT ![s] = "queued"]
          /\ UNCHANGED <<holder, root>>
    /\ UNCHANGED <<managerVars, creationVars, in_use, alive, requestVars, expired>>

CloserLocks(s) ==
    /\ closer[s] = "queued"
    /\ holder[s] = "nobody"
    /\ Head(waiters[s]) = "closer"
    /\ waiters' = [waiters EXCEPT ![s] = Tail(@)]
    /\ CleaningBegins(s)
    /\ UNCHANGED <<managerVars, creationVars, in_use, alive, requestVars, expired>>

RootMoves(s, p, q) ==
    /\ root[s] = p
    /\ root' = [root EXCEPT ![s] = q]
    /\ UNCHANGED <<managerVars, creationVars, lockVars, closer, alive, requestVars, expired>>

\* _close_persistent_resources: the context, then the proxy, whatever became of the context.
RootProceeds(s) ==
    \/ "context" \notin alive[s] /\ (RootMoves(s, "context", "proxy")
                                     \/ RootMoves(s, "context", "unwinding"))
    \/ "proxy" \notin alive[s] /\ (\/ RootMoves(s, "proxy", "ok")
                                   \/ RootMoves(s, "proxy", "failed")
                                   \/ RootMoves(s, "unwinding", "failed"))

\* The deadline of the cleanup passes while what it closes is still there.
RootTimesOut(s) ==
    \/ RootMoves(s, "context", "unwinding")
    \/ RootMoves(s, "proxy", "failed")
    \/ RootMoves(s, "unwinding", "failed")

ResourceCloses(s) ==
    /\ \E x \in alive[s] :
         /\ \/ x = "context" /\ root[s] # "none"
            \/ x = "proxy" /\ root[s] \notin {"none", "context"}
         /\ alive' = [alive EXCEPT ![s] = @ \ {x}]
    /\ UNCHANGED <<managerVars, creationVars, lockVars, closer, root, requestVars, expired>>

\* A bug for OneSessionPerId to find: the group of cleanups is not awaited.
CloseSessionEndsEarly(s) ==
    /\ closer[s] = "cleaning"
    /\ Ended(s)
    /\ holder' = [holder EXCEPT ![s] = "nobody"]
    /\ closer' = [closer EXCEPT ![s] = "none"]
    /\ closing' = [i \in Ids |-> IF closing[i] = s THEN None ELSE closing[i]]
    /\ UNCHANGED <<registry, closed, sid, creationVars, in_use, waiters, root, alive,
                   requestVars, expired>>

\* The closing task ends once the whole group of cleanups has stopped; its done
\* callback removes the tombstone before any waiter for the task runs.
CloseSessionEnds(s) ==
    /\ closer[s] = "cleaning"
    /\ Ended(s)
    /\ alive[s] = {}
    /\ holder' = [holder EXCEPT ![s] = "nobody"]
    /\ closer' = [closer EXCEPT ![s] = "none"]
    /\ closing' = [i \in Ids |-> IF closing[i] = s THEN None ELSE closing[i]]
    /\ UNCHANGED <<registry, closed, sid, creationVars, in_use, waiters, root, alive,
                   requestVars, expired>>

SessionExpires(s) ==
    /\ s \in Registered \ expired
    /\ expired' = expired \cup {s}
    /\ UNCHANGED <<managerVars, creationVars, lockVars, closeVars, requestVars>>

\* The reaper prunes every id.
Reap ==
    /\ Expired(None) # {}
    /\ StartClosing(Expired(None))
    /\ UNCHANGED <<closed, sid, creationVars, lockVars, workVars, requestVars, expired>>

CloseManager ==
    /\ ~closed
    /\ closed' = TRUE
    /\ StartClosing(Live)
    /\ UNCHANGED <<sid, creationVars, lockVars, workVars, requestVars, expired>>

Begin(r) == \E i \in Ids : BeginCreate(r, i) \/ BeginUse(r, i) \/ BeginDestroy(r, i)

\* Steps the event loop takes on its own once they are possible.
RequestStep(r) ==
    \/ DestroyEnds(r) \/ RotateEnds(r)
    \/ BuildStarts(r) \/ BuildRefused(r) \/ BuildRegisters(r) \/ BuildDiscarded(r)
    \/ DiscardEnds(r) \/ RefusedEnds(r) \/ AwaitWoken(r) \/ FailureEnds(r)
    \/ LockTurn(r) \/ PageOpens(r) \/ SolveEnds(r) \/ ProbeSucceeds(r) \/ PagesClosed(r)

\* What goes wrong: failures, timeouts, cancellations.
RequestFails(r) ==
    \/ BuildFails(r) \/ AwaitTimesOut(r) \/ ContextUnusable(r)
    \/ CancelWaiting(r) \/ CancelLease(r) \/ CancelLock(r) \/ CancelProxyClose(r)
    \/ CancelDiscard(r) \/ CancelInContext(r)

CloserStep(s) ==
    \/ CloseSessionStarts(s) \/ CloserLocks(s) \/ RootProceeds(s) \/ ResourceCloses(s)
    \/ CloseSessionEnds(s)

Next ==
    \/ \E r \in Requests : Begin(r) \/ RequestStep(r) \/ RequestFails(r)
    \/ \E s \in Sessions : CloserStep(s) \/ RootTimesOut(s) \/ SessionExpires(s)
    \/ Reap
    \/ CloseManager

Spec == Init /\ [][Next]_vars

-----------------------------------------------------------------------------
(***************************************************************************)
(* Properties.                                                             *)
(***************************************************************************)

\* An id has at most one registered session with anything left of it, and all of them
\* together stay within MAX_SESSIONS: the tombstone outlives the last cleanup, also
\* when the session's own cleanup timed out (sessions.py:415).
HeldIds == {s \in Sessions : sid[s] # None /\ alive[s] # {}}

OneSessionPerId ==
    /\ \A s, t \in HeldIds : sid[s] = sid[t] => s = t
    /\ Cardinality(HeldIds) <= MaxSessions

\* While a request works in a session, it alone holds the lock, and the context is
\* neither gone nor being closed (sessions.py:391).
ContextHeldWhileUsed ==
    \A r \in Requests : pc[r] \in InContext =>
        /\ holder[sess[r]] = r
        /\ root[sess[r]] = "none"
        /\ "context" \in alive[sess[r]]

\* in_use counts the requests that have the session checked out, however they leave
\* (sessions.py:146 raises when it underflows).
InUseExact ==
    \A s \in Sessions :
        in_use[s] = Cardinality({r \in Requests : pc[r] \in CheckedOut /\ sess[r] = s})

\* A session is used by one request at a time, and only those that have it checked out
\* keep it from being pruned.
UseIsExclusive == ContextHeldWhileUsed /\ InUseExact

\* Whatever exists of a session belongs to the registry, to a tombstone, to the request
\* that builds or discards it, or to a cleanup that was started for it.
NoOrphanResources ==
    \A s \in Sessions : alive[s] # {} =>
        \/ s \in Registered \cup Tombstones
        \/ \E r \in Requests : built[r] = s
        \/ Ended(s)

\* A session somebody has checked out leaves the registry only when it is destroyed by
\* name, by the request that found it unusable, or at shutdown: pruning and rotation
\* respect also a waiter that was just given the lock (sessions.py:61).
CheckedOutSessionsStay ==
    [][\A r \in Requests :
         pc[r] \in CheckedOut /\ registry[target[r]] = sess[r] /\ registry'[target[r]] # sess[r] =>
            \/ closed' # closed
            \/ \E q \in Requests : /\ pc[q] = "idle" /\ pc'[q] = "destroy"
                                   /\ target'[q] = target[r]
            \/ \E q \in Requests : /\ pc[q] \in {"page", "probe"} /\ pc'[q] = "pages"
                                   /\ sess[q] = sess[r]]_vars

\* A page is opened only in a session that is registered at that moment, whatever
\* happened while the request waited for the lock (commands.py:359).
PagesOnlyInCurrentSessions ==
    [][\A r \in Requests :
         pc[r] # "page" /\ pc'[r] = "page" => registry'[target'[r]] = sess'[r]]_vars

SI == INSTANCE SessionIds WITH live <- Live, reserved <- Reserved

\* The manager keeps the promise of SessionIds.
ImplementsSessionIds == SI!Spec

(***************************************************************************)
(* Liveness.  A request in a session ends because the controller cancels   *)
(* it at its deadline; a cleanup ends by its deadline, and what it closes  *)
(* ends because the supervisor cancels it then.                            *)
(***************************************************************************)
FairSpec ==
    /\ Spec
    /\ \A r \in Requests : WF_vars(RequestStep(r))
    /\ \A s \in Sessions : WF_vars(CloserStep(s))

\* Every tombstone goes: no id stays reserved for ever (sessions.py:422).
IdsComeFree == \A i \in Ids : closing[i] # None ~> closing[i] = None

\* Every request ends, also one that waits for the lock, a tombstone or a winner.
RequestsEnd == \A r \in Requests : pc[r] # "idle" ~> pc[r] = "idle"

\* Neither the ids nor the requests for them are stuck (sessions.py:394).
SessionsMove == IdsComeFree /\ RequestsEnd
=============================================================================
