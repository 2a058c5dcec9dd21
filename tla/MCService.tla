------------------------------ MODULE MCService ------------------------------
(***************************************************************************)
(* The lifespan of the service (RuntimeShutdown, whose names are used as   *)
(* they are), the supervisor of cleanups and the readiness check, for TLC. *)
(* They share no state, so a behavior runs one of them; the others rest in *)
(* their initial states, where none of their fair actions is enabled.      *)
(***************************************************************************)
EXTENDS RuntimeShutdown, FiniteSets

CONSTANTS Tasks, Runners, Holds, Waiters, Events, None,  \* CleanupSupervisor
          Checks, Slots                                  \* Readiness

ASSUME ServiceAssumption ==
    /\ IsFiniteSet(Tasks) /\ IsFiniteSet(Holds) /\ IsFiniteSet(Waiters) /\ IsFiniteSet(Checks)
    /\ Runners \subseteq Tasks
    /\ None \notin Tasks \cup Events \cup {"timeout", "result", "cancelled"}
    \* asyncio.Event() makes a new one while every group and every waiter has its own.
    /\ IsFiniteSet(Events) /\ Cardinality(Events) >= Cardinality(Tasks) + Cardinality(Waiters)
    /\ Slots \in Nat \ {0}

VARIABLES
    running,  \* the part that runs
    ts, result, groups, timed_out, reported, run, answer, held, group_holds, event, set, waiter,
    closer, closing, past,
    check, probe, outcome, cancelled, tracked, others, browser

supervisorVars == <<ts, result, groups, timed_out, reported, run, answer, held, group_holds, event,
                    set, waiter, closer, closing, past>>
readyVars == <<check, probe, outcome, cancelled, tracked, others, browser>>
serviceVars == <<running, vars, supervisorVars, readyVars>>

Supervisor == INSTANCE CleanupSupervisor WITH Runs <- Runners
Ready == INSTANCE Readiness

-----------------------------------------------------------------------------
ServiceInit ==
    /\ running \in {"shutdown", "groups", "runs", "ready"}
    /\ Init /\ Supervisor!Init /\ Ready!Init

\* The supervisor runs with hand-offs and waiters, or with a shutdown and callers of run()
\* that are cancelled.
NoRunCancelled == \A t \in Tasks : run'[t] # "cancelled"

ServiceNext ==
    /\ UNCHANGED running
    /\ \/ running = "shutdown" /\ Next /\ UNCHANGED <<supervisorVars, readyVars>>
       \/ running = "groups" /\ Supervisor!Next /\ NoRunCancelled
          /\ UNCHANGED <<closer, vars, readyVars>>
       \/ running = "runs" /\ Supervisor!Next /\ UNCHANGED <<held, waiter, vars, readyVars>>
       \/ running = "ready" /\ Ready!Next /\ UNCHANGED <<vars, supervisorVars>>

ServiceSpec ==
    /\ ServiceInit /\ [][ServiceNext]_serviceVars
    /\ Fairness /\ Supervisor!Fairness /\ Ready!Fairness

-----------------------------------------------------------------------------
\* Who waits for a group of cleanups is woken by its last task or hold, and never loops on
\* an event that is already set (cleanup.py:229).
GroupsAreAwaited ==
    Supervisor!TypeOK /\ Supervisor!NoLostWaiter /\ Supervisor!SetMeansIdle /\ Supervisor!HoldsExact

\* What run() tells its caller is the outcome that was reported first, and no mark of a
\* deadline outlives its task (cleanup.py:258).
RunsAnswerTruly ==
    Supervisor!TypeOK /\ Supervisor!AnswerMatchesOutcome /\ Supervisor!TimedOutForgotten

\* A probe that its check has left is owned until it ends (app.py:637).
ProbesAreOwned == Ready!TypeOK /\ Ready!ProbesAreOwned

\* The host leaves and the periodic tasks go on until it does; run() and the shutdown of
\* the supervisor end, and the shutdown leaves no task at work that it has not reported;
\* checks are answered, by a probe that ended in the turn of the deadline as well, and
\* their contexts come back.
ServiceMoves ==
    /\ ShutdownIsBounded /\ UpkeepGoesOn
    /\ Supervisor!CloseEnds /\ Supervisor!CloseTellsAll /\ Supervisor!RunsEnd
    /\ Ready!ChecksAreAnswered /\ Ready!LateResultCounts /\ Ready!ContextsComeBack
=============================================================================
