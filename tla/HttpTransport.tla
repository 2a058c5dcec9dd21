---------------------------- MODULE HttpTransport ----------------------------
(***************************************************************************)
(* Admission to the HTTP transport, class HttpTransport of                 *)
(* src/camouflare/http_transport.py: a bounded number of fetches, a queue  *)
(* of those that wait for a slot, and a shutdown that drains them.  What a *)
(* fetch does is in HttpFetch.                                             *)
(***************************************************************************)
EXTENDS Naturals, FiniteSetsExt, SequencesExt

CONSTANTS Requests,       \* callers of fetch
          MaxConcurrency  \* max_concurrency

VARIABLES
    pc,         \* request -> where it is; "granted" has a slot but did not resume
    queue,      \* waiters of the semaphore, first first
    free,       \* value of the semaphore
    active,     \* _active
    accepting,  \* _accepting
    idle,       \* _idle is set
    closer      \* where close() is

vars == <<pc, queue, free, active, accepting, idle, closer>>

TypeOK ==
    /\ pc \in [Requests -> {"out", "queued", "granted", "active"}]
    /\ queue \in Seq(Requests)
    /\ free \in 0 .. MaxConcurrency
    /\ active \in 0 .. MaxConcurrency
    /\ accepting \in BOOLEAN
    /\ idle \in BOOLEAN
    /\ closer \in {"none", "waiting", "woken", "done"}

Init ==
    /\ pc = [r \in Requests |-> "out"]
    /\ queue = <<>>
    /\ free = MaxConcurrency
    /\ active = 0
    /\ accepting = TRUE
    /\ idle = TRUE
    /\ closer = "none"

In(p) == {r \in Requests : pc[r] = p}

\* Semaphore.locked(): no free slot, or somebody is still in line for one.
Locked == free = 0 \/ In("queued") \cup In("granted") # {}

\* Request r goes to p and adds back slots to the semaphore, whose wake-ups then pass
\* one slot each to the first waiters.
PassOn(r, p, back, wakeups) ==
    LET n == Min({wakeups, free + back, Len(queue)})
    IN  /\ pc' = [q \in Requests |-> IF q = r THEN p
                                    ELSE IF \E i \in 1 .. n : queue[i] = q THEN "granted"
                                    ELSE pc[q]]
        /\ queue' = SubSeq(queue, n + 1, Len(queue))
        /\ free' = free + back - n

\* Semaphore.release().
GiveSlot(r, p) == PassOn(r, p, 1, 1)

\* Who resumes with a slot wakes the next waiter when there is another one.
MoreWakeups == IF free > 0 THEN 1 ELSE 0

-----------------------------------------------------------------------------
\* A free slot is taken without suspending.
FetchAtOnce(r) ==
    /\ pc[r] = "out"
    /\ accepting /\ ~Locked
    /\ pc' = [pc EXCEPT ![r] = "active"]
    /\ free' = free - 1
    /\ active' = active + 1
    /\ idle' = FALSE
    /\ UNCHANGED <<queue, accepting, closer>>

\* Without wait_for_capacity the request would fail at once instead.
FetchQueues(r) ==
    /\ pc[r] = "out"
    /\ accepting /\ Locked
    /\ pc' = [pc EXCEPT ![r] = "queued"]
    /\ queue' = Append(queue, r)
    /\ UNCHANGED <<free, active, accepting, idle, closer>>

Admitted(r) ==
    /\ pc[r] = "granted"
    /\ accepting
    /\ PassOn(r, "active", 0, MoreWakeups)
    /\ active' = active + 1
    /\ idle' = FALSE
    /\ UNCHANGED <<accepting, closer>>

\* A bug for AdmissionIsExact to find: the slot of a refused request is lost.
RefusedKeeping(r) ==
    /\ pc[r] = "granted"
    /\ ~accepting
    /\ PassOn(r, "out", 0, MoreWakeups)
    /\ UNCHANGED <<active, accepting, idle, closer>>

\* Shutdown began while it waited: the slot goes on to the next, which will also learn.
Refused(r) ==
    /\ pc[r] = "granted"
    /\ ~accepting
    /\ PassOn(r, "out", 1, 1 + MoreWakeups)
    /\ UNCHANGED <<active, accepting, idle, closer>>

\* The deadline or a cancellation, also in the turn in which the slot was granted.
GivesUp(r) ==
    \/ /\ pc[r] = "queued"
       /\ pc' = [pc EXCEPT ![r] = "out"]
       /\ queue' = RemoveFirst(queue, r)
       /\ UNCHANGED <<free, active, accepting, idle, closer>>
    \/ /\ pc[r] = "granted"
       /\ GiveSlot(r, "out")
       /\ UNCHANGED <<active, accepting, idle, closer>>

\* A bug for TransportMoves to find: the slot is given back without waking who waits.
ReleaseSilently(r) ==
    /\ pc[r] = "active"
    /\ active' = active - 1
    /\ PassOn(r, "out", 1, 0)
    /\ idle' = (idle \/ active' = 0)
    /\ closer' = IF active' = 0 /\ closer = "waiting" THEN "woken" ELSE closer
    /\ UNCHANGED accepting

\* _release, however the fetch ended.
Release(r) ==
    /\ pc[r] = "active"
    /\ active' = active - 1
    /\ GiveSlot(r, "out")
    /\ idle' = (idle \/ active' = 0)
    /\ closer' = IF active' = 0 /\ closer = "waiting" THEN "woken" ELSE closer
    /\ UNCHANGED accepting

\* quiesce(), and close() up to its wait.
Close ==
    /\ closer = "none"
    /\ accepting' = FALSE
    /\ closer' = IF idle THEN "done" ELSE "waiting"
    /\ UNCHANGED <<pc, queue, free, active, idle>>

\* The connections of the connector are closed.
CloseResumes ==
    /\ closer = "woken"
    /\ closer' = "done"
    /\ UNCHANGED <<pc, queue, free, active, accepting, idle>>

Next ==
    \/ \E r \in Requests : \/ FetchAtOnce(r) \/ FetchQueues(r) \/ Admitted(r) \/ Refused(r)
                           \/ GivesUp(r) \/ Release(r)
    \/ Close \/ CloseResumes

Spec == Init /\ [][Next]_vars

(***************************************************************************)
(* A fetch ends by its own timeout; close() is called by the shutdown of   *)
(* the runtime, which need not happen.                                     *)
(***************************************************************************)
Fairness ==
    /\ \A r \in Requests : WF_vars(Release(r)) /\ WF_vars(Admitted(r)) /\ WF_vars(Refused(r))
    /\ WF_vars(CloseResumes)

FairSpec == Spec /\ Fairness

-----------------------------------------------------------------------------
\* Once the connections are closed no request uses them, nor will one: the check after
\* the wait for a slot (http_transport.py:261) covers every request that was queued.
ConnectorQuiet ==
    closer = "done" => active = 0 /\ In("active") = {}

\* No slot is lost or lent twice, whatever race of grants, timeouts and shutdown.
SlotsConserved ==
    free + Cardinality(In("granted")) + Cardinality(In("active")) = MaxConcurrency

\* close() returns once the fetches in flight have ended, however many were queued.
CloseEnds == closer = "waiting" ~> closer = "done"

\* A queued request gets a slot, an error or gives up.
QueueMoves == \A r \in Requests : pc[r] = "queued" ~> pc[r] # "queued"
=============================================================================
