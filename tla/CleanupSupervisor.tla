-------------------------- MODULE CleanupSupervisor --------------------------
(***************************************************************************)
(* The owner of background cleanups, src/camouflare/cleanup.py.  One       *)
(* action is the code between two awaits, a callback of the event loop or  *)
(* a step of a supervised task.                                            *)
(*                                                                         *)
(* Time is abstract: an armed deadline may expire in any state.  The group *)
(* of a task started outside any scope is named by the task itself.        *)
(***************************************************************************)
EXTENDS Naturals, Sequences, FiniteSets

CONSTANTS Tasks,     \* supervised tasks
          Runs,      \* those that run() starts, the others are started by start()
          Holds,     \* CleanupScopeHold objects
          Waiters,   \* callers of wait_for_group
          Events,    \* asyncio.Event objects of groups
          None

VARIABLES
    ts,          \* task -> where it is; "cancelled" means asked to stop
    result,      \* task -> how it ended
    groups,      \* task -> groups that own it
    timed_out,   \* _timed_out
    reported,    \* task -> outcomes given to metrics.record_cleanup
    run,         \* task -> where the run() that started it is
    answer,      \* task -> what that run() gave its caller
    held,        \* hold -> groups it keeps, {} when it is released
    group_holds, \* group -> _group_holds
    event,       \* group -> _group_events, None when it has none
    set,         \* events that are set
    waiter,      \* waiter -> the group and the event it waits for
    closer,      \* where close() is
    closing,     \* tasks close() waits for
    past         \* the shutdown deadline has passed

taskVars  == <<ts, result, groups>>
runVars   == <<timed_out, reported, run, answer>>
groupVars == <<held, group_holds, event, set>>
closeVars == <<closer, closing, past>>
vars == <<taskVars, runVars, groupVars, waiter, closeVars>>

\* A task ends with a result or an exception of its own, or with its cancellation.
Results == {"own", "cancelled"}

Idle == [group |-> None, event |-> None]

TypeOK ==
    /\ ts \in [Tasks -> {"none", "running", "cancelled", "ended", "gone"}]
    /\ result \in [Tasks -> Results \cup {None}]
    /\ groups \in [Tasks -> SUBSET Tasks]
    /\ timed_out \subseteq Tasks
    /\ reported \in [Tasks -> Seq(Results \cup {"timeout"})]
    /\ run \in [Tasks -> {"none", "waiting", "timer", "cancelled", "over"}]
    /\ answer \in [Tasks -> {"timeout", "result", "cancelled", None}]
    /\ held \in [Holds -> SUBSET Tasks]
    /\ group_holds \in [Tasks -> Nat]
    /\ event \in [Tasks -> Events \cup {None}]
    /\ set \subseteq Events
    /\ waiter \in [Waiters -> [group : Tasks \cup {None}, event : Events \cup {None}]]
    /\ closer \in {"idle", "empty", "wait", "settle", "last", "done"}
    /\ closing \subseteq Tasks
    /\ past \in BOOLEAN

Init ==
    /\ ts = [t \in Tasks |-> "none"]
    /\ result = [t \in Tasks |-> None]
    /\ groups = [t \in Tasks |-> {}]
    /\ timed_out = {}
    /\ reported = [t \in Tasks |-> <<>>]
    /\ run = [t \in Tasks |-> "none"]
    /\ answer = [t \in Tasks |-> None]
    /\ held = [h \in Holds |-> {}]
    /\ group_holds = [g \in Tasks |-> 0]
    /\ event = [g \in Tasks |-> None]
    /\ set = {}
    /\ waiter = [w \in Waiters |-> Idle]
    /\ closer = "idle"
    /\ closing = {}
    /\ past = FALSE

-----------------------------------------------------------------------------
Active  == {t \in Tasks : ts[t] \in {"running", "cancelled"}}
Tracked == {t \in Tasks : ts[t] \in {"running", "cancelled", "ended"}}

\* run() counts as a waiter of its task.
RunWaits(t) == run[t] \in {"waiting", "timer", "cancelled"}

Members(g) == {t \in Tracked : g \in groups[t]}
Busy(g)    == Members(g) # {} \/ group_holds[g] > 0

Unused == Events \ ({event[g] : g \in Tasks} \cup {waiter[w].event : w \in Waiters})

\* A bug for GroupsAreAwaited to find: an event is replaced although it is not set.
RearmAlways(gs) ==
    /\ event' = [g \in Tasks |-> IF g \in gs THEN None ELSE event[g]]
    /\ set' = set \cap ({event'[g] : g \in Tasks} \cup {waiter[w].event : w \in Waiters})

\* Groups that get a task or a hold: an event that is already set is replaced.  The
\* next waiter creates the new one, as nobody can tell it from one created here.
Rearm(gs) ==
    /\ event' = [g \in Tasks |-> IF g \in gs /\ event[g] \in set THEN None ELSE event[g]]
    /\ set' = set \cap ({event'[g] : g \in Tasks} \cup {waiter[w].event : w \in Waiters})

\* Task t of the groups gs is gone, or a hold on them: wake who waits for those that
\* have neither tasks nor holds left.
FinishIdle(gs, t, holds) ==
    set' = set \cup {event[g] : g \in {x \in gs : /\ Members(x) \ {t} = {}
                                                  /\ holds[x] = 0
                                                  /\ event[x] # None}}

\* A bug for RunsAnswerTruly to find: a task that has ended is marked as well.
MarkEnded(marked) ==
    /\ timed_out' = timed_out \cup (marked \cap Tracked)
    /\ reported' = [t \in Tasks |-> IF t \in (marked \cap Tracked) \ timed_out
                                    THEN Append(reported[t], "timeout") ELSE reported[t]]
    /\ ts' = [t \in Tasks |-> IF t \in marked \cap Active THEN "cancelled" ELSE ts[t]]

\* _mark_timed_out: the outcome is reported now, the task is asked to stop.
MarkTimedOut(marked) ==
    LET late == (marked \cap Active) \ timed_out IN
    /\ timed_out' = timed_out \cup late
    /\ reported' = [t \in Tasks |-> IF t \in late THEN Append(reported[t], "timeout")
                                    ELSE reported[t]]
    /\ ts' = [t \in Tasks |-> IF t \in late THEN "cancelled" ELSE ts[t]]

-----------------------------------------------------------------------------
(***************************************************************************)
(* Starting and ending cleanups.                                           *)
(***************************************************************************)
\* track() of a new task that the groups gs own.
Track(t, gs) ==
    /\ ts[t] = "none"
    /\ ts' = [ts EXCEPT ![t] = "running"]
    /\ groups' = [groups EXCEPT ![t] = gs]
    /\ Rearm(gs)
    /\ run' = [run EXCEPT ![t] = IF t \in Runs THEN "waiting" ELSE "none"]
    /\ UNCHANGED <<result, timed_out, reported, answer, held, group_holds, waiter, closeVars>>

StartRoot(t) == Track(t, {t})

\* Started by a supervised task: its scope is inherited.
StartNested(t) == \E u \in Active : Track(t, groups[u])

\* Started with a scope that was captured earlier, whether or not a hold still keeps it.
StartScoped(t) ==
    \E gs \in {groups[u] : u \in Tasks} \cup {held[h] : h \in Holds} : gs # {} /\ Track(t, gs)

\* track() of a task already tracked: it is owned by the groups of both scopes.
Adopt(t) ==
    \E u \in Active :
        LET new == groups[u] \ groups[t] IN
        /\ t \in Active /\ t # u
        /\ new # {}
        /\ groups' = [groups EXCEPT ![t] = @ \cup new]
        /\ Rearm(new)
        /\ UNCHANGED <<ts, result, runVars, held, group_holds, waiter, closeVars>>

\* The task ends by itself, or by the cancellation it may also have swallowed.  Its
\* callbacks run in the next turn of the loop.
TaskEnds(t) ==
    /\ t \in Active
    /\ \E o \in Results :
         /\ o = "cancelled" => ts[t] = "cancelled"
         /\ result' = [result EXCEPT ![t] = o]
    /\ ts' = [ts EXCEPT ![t] = "ended"]
    /\ UNCHANGED <<groups, runVars, groupVars, waiter, closeVars>>

\* _task_finished.  A run() whose wake-up was scheduled before the task ended resumes
\* first; one that waits is woken by a later callback.
TaskFinished(t) ==
    /\ ts[t] = "ended"
    /\ run[t] \notin {"timer", "cancelled"}
    /\ ts' = [ts EXCEPT ![t] = "gone"]
    /\ IF t \in timed_out
       THEN /\ timed_out' = IF RunWaits(t) THEN timed_out ELSE timed_out \ {t}
            /\ UNCHANGED reported
       ELSE /\ reported' = [reported EXCEPT ![t] = Append(@, result[t])]
            /\ UNCHANGED timed_out
    /\ FinishIdle(groups[t], t, group_holds)
    /\ UNCHANGED <<result, groups, run, answer, held, group_holds, event, waiter, closeVars>>

DeadlineExpired(t) ==
    /\ t \in Active \ timed_out
    /\ MarkTimedOut({t})
    /\ UNCHANGED <<result, groups, run, answer, groupVars, waiter, closeVars>>

(***************************************************************************)
(* run(): wait for the task until the deadline.                            *)
(***************************************************************************)
\* The timer of asyncio.wait, for the same deadline as the task's own.
RunWakes(t) ==
    /\ run[t] = "waiting"
    /\ t \in Active
    /\ run' = [run EXCEPT ![t] = "timer"]
    /\ UNCHANGED <<taskVars, timed_out, reported, answer, groupVars, waiter, closeVars>>

\* The caller of run() is cancelled; the task goes on.
RunCancelled(t) ==
    /\ run[t] = "waiting"
    /\ t \in Active
    /\ run' = [run EXCEPT ![t] = "cancelled"]
    /\ UNCHANGED <<taskVars, timed_out, reported, answer, groupVars, waiter, closeVars>>

\* The finally block forgets the mark of a task that is done; otherwise the mark of a
\* task that is not done is set first.
RunLeaves(t) ==
    /\ run' = [run EXCEPT ![t] = "over"]
    /\ IF t \in Active
       THEN MarkTimedOut(IF run[t] = "timer" THEN {t} ELSE {})
       ELSE timed_out' = timed_out \ {t} /\ UNCHANGED <<ts, reported>>

RunResumes(t) ==
    /\ run[t] \in {"timer", "cancelled"} \/ (run[t] = "waiting" /\ ts[t] = "gone")
    /\ answer' = [answer EXCEPT ![t] =
                    IF run[t] = "cancelled" THEN "cancelled"
                    ELSE IF t \in Active \cup timed_out THEN "timeout" ELSE "result"]
    /\ RunLeaves(t)
    /\ UNCHANGED <<result, groups, groupVars, waiter, closeVars>>

-----------------------------------------------------------------------------
(***************************************************************************)
(* Holds and group waiters.                                                *)
(***************************************************************************)
\* retain_scope by a supervised task, for a hand-off.
Retain(h) ==
    /\ held[h] = {}
    /\ \E u \in Active :
         /\ held' = [held EXCEPT ![h] = groups[u]]
         /\ group_holds' = [g \in Tasks |-> IF g \in groups[u] THEN group_holds[g] + 1
                                            ELSE group_holds[g]]
         /\ Rearm(groups[u])
    /\ UNCHANGED <<taskVars, runVars, waiter, closeVars>>

\* The first release; the others do nothing.
Release(h) ==
    /\ held[h] # {}
    /\ held' = [held EXCEPT ![h] = {}]
    /\ group_holds' = [g \in Tasks |-> IF g \in held[h] THEN group_holds[g] - 1
                                       ELSE group_holds[g]]
    /\ FinishIdle(held[h], None, group_holds')
    /\ UNCHANGED <<taskVars, runVars, event, waiter, closeVars>>

\* The loop of wait_for_group from its test, with the events ev left for the groups.
TestGroup(w, g, ev) ==
    IF ~Busy(g)
    THEN /\ waiter' = [waiter EXCEPT ![w] = Idle]
         /\ event' = ev
    ELSE \E e \in IF ev[g] # None THEN {ev[g]} ELSE {CHOOSE x \in Unused : TRUE} :
            /\ event' = [ev EXCEPT ![g] = e]
            /\ waiter' = [waiter EXCEPT ![w] = [group |-> g, event |-> e]]

WaitBegins(w) ==
    /\ waiter[w] = Idle
    /\ \E g \in Tasks : g \in Tracked /\ TestGroup(w, g, event)
    /\ UNCHANGED <<taskVars, runVars, held, group_holds, set, closeVars>>

\* The event was set some time ago: it is dropped when it is still the group's, and
\* the group is tested again.
WaitResumes(w) ==
    LET g == waiter[w].group
        e == waiter[w].event
    IN  /\ e \in set
        /\ TestGroup(w, g, IF event[g] = e THEN [event EXCEPT ![g] = None] ELSE event)
        /\ set' = set \cap ({event'[x] : x \in Tasks} \cup {waiter'[x].event : x \in Waiters})
        /\ UNCHANGED <<taskVars, runVars, held, group_holds, closeVars>>

WaitCancelled(w) ==
    /\ waiter[w] # Idle
    /\ waiter' = [waiter EXCEPT ![w] = Idle]
    /\ set' = set \cap ({event[x] : x \in Tasks} \cup {waiter'[x].event : x \in Waiters})
    /\ UNCHANGED <<taskVars, runVars, held, group_holds, event, closeVars>>

-----------------------------------------------------------------------------
(***************************************************************************)
(* close(): cancel and drain until the shutdown deadline.                  *)
(***************************************************************************)
\* The head of the loop: without tasks one more turn, else all are cancelled.
CloseLoops ==
    /\ closing' = Tracked
    /\ ts' = [t \in Tasks |-> IF t \in Active THEN "cancelled" ELSE ts[t]]
    /\ closer' = IF Tracked = {} THEN "empty" ELSE IF past THEN "settle" ELSE "wait"

CloseBegins ==
    /\ closer = "idle"
    /\ CloseLoops
    /\ UNCHANGED <<past, result, groups, runVars, groupVars, waiter>>

CloseFindsNone ==
    /\ closer = "empty"
    /\ IF Tracked = {} THEN closer' = "done" /\ UNCHANGED <<ts, closing>> ELSE CloseLoops
    /\ UNCHANGED <<past, result, groups, runVars, groupVars, waiter>>

\* A bug for ServiceMoves to find: cancelled tasks are awaited without a limit.
CloseWaitsForAll ==
    /\ closer = "wait"
    /\ closing \cap Tracked = {}
    /\ closer' = "settle"
    /\ UNCHANGED <<closing, past, taskVars, runVars, groupVars, waiter>>

CloseWaitEnds ==
    /\ closer = "wait"
    /\ closing \cap Tracked = {} \/ past
    /\ closer' = "settle"
    /\ UNCHANGED <<closing, past, taskVars, runVars, groupVars, waiter>>

\* A turn later: what is left at the deadline is marked, otherwise the loop goes on.
CloseSettles ==
    /\ closer = "settle"
    /\ IF past
       THEN /\ MarkTimedOut(Tracked)
            /\ closer' = "last"
            /\ UNCHANGED <<closing, run, answer>>
       ELSE CloseLoops /\ UNCHANGED runVars
    /\ UNCHANGED <<past, result, groups, groupVars, waiter>>

CloseReturns ==
    /\ closer = "last"
    /\ closer' = "done"
    /\ UNCHANGED <<closing, past, taskVars, runVars, groupVars, waiter>>

ShutdownDeadline ==
    /\ closer \notin {"idle", "done"} /\ ~past
    /\ past' = TRUE
    /\ UNCHANGED <<closer, closing, taskVars, runVars, groupVars, waiter>>

CloserStep == CloseFindsNone \/ CloseWaitEnds \/ CloseSettles \/ CloseReturns

Start(t) == StartRoot(t) \/ StartNested(t) \/ StartScoped(t) \/ Adopt(t)

Next ==
    \/ \E t \in Tasks : \/ Start(t) \/ TaskEnds(t) \/ TaskFinished(t) \/ DeadlineExpired(t)
                        \/ RunWakes(t) \/ RunCancelled(t) \/ RunResumes(t)
    \/ \E h \in Holds : Retain(h) \/ Release(h)
    \/ \E w \in Waiters : WaitBegins(w) \/ WaitResumes(w) \/ WaitCancelled(w)
    \/ CloseBegins \/ CloserStep \/ ShutdownDeadline

Spec == Init /\ [][Next]_vars

-----------------------------------------------------------------------------
(***************************************************************************)
(* Properties.                                                             *)
(***************************************************************************)

\* Who waits for a group waits on the event its last task or hold will set: replacing
\* and dropping events (cleanup.py:172, 232) leaves no waiter behind.
NoLostWaiter ==
    \A w \in Waiters : waiter[w] # Idle /\ waiter[w].event \notin set =>
        /\ event[waiter[w].group] = waiter[w].event
        /\ Busy(waiter[w].group)

\* A group with work never keeps a set event: its waiter would loop without ever
\* giving the event loop a turn (cleanup.py:229).
SetMeansIdle == \A g \in Tasks : event[g] # None /\ event[g] \in set => ~Busy(g)

\* A group is held once for every hold that is not released: no hand-off is forgotten,
\* none keeps its group for ever (cleanup.py:394 raises on underflow).
HoldsExact == \A g \in Tasks : group_holds[g] = Cardinality({h \in Holds : g \in held[h]})

\* What run() tells its caller is the outcome that was reported first: a late result
\* never passes for a success, nor a timely one for a timeout (cleanup.py:258).
AnswerMatchesOutcome ==
    \A t \in Tasks : reported[t] # <<>> =>
        /\ answer[t] = "timeout" => Head(reported[t]) = "timeout"
        /\ answer[t] = "result" => Head(reported[t]) = result[t]

\* Once a task is gone and its run() is over no mark of it stays (cleanup.py:268, 323).
TimedOutForgotten ==
    \A t \in timed_out : ts[t] # "gone" \/ RunWaits(t)

\* When close() returns for want of tasks or gives up at its deadline, nothing is at work
\* that was not asked to stop and reported, not even what was registered while it drained
\* (cleanup.py:292, 304).
CloseTellsAll ==
    [][closer # "last" /\ closer' \in {"last", "done"} /\ closer' # closer =>
          \A t \in Active' : ts'[t] = "cancelled" /\ t \in timed_out']_vars

(***************************************************************************)
(* Liveness.  Timers fire and the loop runs what is ready; that a task     *)
(* which was cancelled ends is not assumed.                                *)
(***************************************************************************)
Fairness ==
    /\ \A t \in Tasks : /\ WF_vars(TaskFinished(t)) /\ WF_vars(DeadlineExpired(t))
                        /\ WF_vars(RunWakes(t)) /\ WF_vars(RunResumes(t))
    /\ WF_vars(CloserStep) /\ WF_vars(ShutdownDeadline)

FairSpec == Spec /\ Fairness

\* The shutdown of the supervisor is bounded, whatever its tasks do (cleanup.py:288).
CloseEnds == closer # "idle" ~> closer = "done"

\* run() returns by its deadline, also for a task that swallows its cancellation.
RunsEnd == \A t \in Runs : run[t] = "waiting" ~> run[t] = "over"
=============================================================================
