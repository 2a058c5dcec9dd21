--------------------------- MODULE RuntimeShutdown ---------------------------
(***************************************************************************)
(* The lifespan of the service, src/camouflare/runtime.py: the session     *)
(* reaper and the pool maintainer while it serves, then a finalizer that   *)
(* closes the resources in order under one deadline, while the host that   *)
(* waits for it may be cancelled.  What closing a resource does is in the  *)
(* models of the resources; here a phase may fail, overrun and ignore its  *)
(* cancellation.                                                           *)
(***************************************************************************)
EXTENDS Naturals, Sequences

CONSTANT MaxCancels   \* cancellations of the host

ASSUME CancelsAssumption == MaxCancels \in Nat

Phases == <<"pool.quiesce", "http.quiesce", "sessions.close", "pool.close", "http.close",
            "cleanup.close">>

Upkeep == {"reaper", "maintainer"}

VARIABLES
    host,       \* the task that runs lifespan
    cancels,    \* its cancellations
    upkeep,     \* periodic task -> state
    finalizer,  \* finalize_runtime, with the tasks it awaits
    step,       \* the phase it is in
    at,         \* where it is in close_resource
    phase,      \* the task of each phase; "cut" was cancelled and still runs
    expired     \* the deadline has passed

vars == <<host, cancels, upkeep, finalizer, step, at, phase, expired>>

TypeOK ==
    /\ host \in {"starting", "serving", "waiting", "cancelled", "failed", "left"}
    /\ cancels \in 0 .. MaxCancels
    /\ upkeep \in [Upkeep -> {"none", "sleeping", "working", "ended"}]
    /\ finalizer \in {"none", "stopping", "closing", "done"}
    /\ step \in 0 .. Len(Phases)
    /\ at \in {"none", "turn", "wait", "inline"}
    /\ phase \in [1 .. Len(Phases) -> {"idle", "created", "running", "cut", "ended", "never"}]
    /\ expired \in BOOLEAN
    /\ at = "inline" => step = Len(Phases)

Init ==
    /\ host = "starting"
    /\ cancels = 0
    /\ upkeep = [u \in Upkeep |-> "none"]
    /\ finalizer = "none"
    /\ step = 0
    /\ at = "none"
    /\ phase = [i \in 1 .. Len(Phases) |-> "idle"]
    /\ expired = FALSE

-----------------------------------------------------------------------------
(***************************************************************************)
(* The host and the periodic tasks.                                        *)
(***************************************************************************)
\* pool.start() returns or raises.
StartEnds ==
    /\ host = "starting"
    /\ \/ host' = "failed" /\ UNCHANGED upkeep
       \/ host' = "serving" /\ upkeep' = [u \in Upkeep |-> "sleeping"]
    /\ UNCHANGED <<cancels, finalizer, step, at, phase, expired>>

SetUpkeep(u, state) ==
    /\ upkeep' = [upkeep EXCEPT ![u] = state]
    /\ UNCHANGED <<host, cancels, finalizer, step, at, phase, expired>>

\* What a tick leaves behind, whether it returns or raises.
AfterTick == "sleeping"

UpkeepStep(u) ==
    /\ finalizer = "none"
    /\ \/ upkeep[u] = "sleeping" /\ SetUpkeep(u, "working")
       \/ upkeep[u] = "working" /\ SetUpkeep(u, AfterTick)

\* The finalizer has cancelled it.
UpkeepEnds(u) ==
    /\ finalizer = "stopping" /\ upkeep[u] # "ended"
    /\ SetUpkeep(u, "ended")

\* The application is done, by itself or by a cancellation at its yield.
StopServing ==
    /\ host = "serving"
    /\ host' = "waiting"
    /\ finalizer' = "stopping"
    /\ UNCHANGED <<cancels, upkeep, step, at, phase, expired>>

\* The first cancellation leads to a second wait for the finalizer, whose own
\* cancellation is suppressed, and then the first is raised.
Interrupted == IF host = "waiting" THEN "cancelled" ELSE "left"

CancelHost ==
    /\ host \in {"waiting", "cancelled"} /\ cancels < MaxCancels
    /\ cancels' = cancels + 1
    /\ host' = Interrupted
    /\ UNCHANGED <<upkeep, finalizer, step, at, phase, expired>>

HostLeaves ==
    /\ host \in {"waiting", "cancelled"} /\ finalizer = "done"
    /\ host' = "left"
    /\ UNCHANGED <<cancels, upkeep, finalizer, step, at, phase, expired>>

-----------------------------------------------------------------------------
(***************************************************************************)
(* The finalizer.                                                          *)
(***************************************************************************)
\* The next phase begins: as a task of its own, or, for the supervisor of the cleanups,
\* in the finalizer itself.
Begin(i, tasks) ==
    /\ step' = i
    /\ at' = IF Phases[i] = "cleanup.close" THEN "inline" ELSE "turn"
    /\ phase' = [tasks EXCEPT ![i] = IF Phases[i] = "cleanup.close" THEN "running" ELSE "created"]

UpkeepGathered == \A u \in Upkeep : upkeep[u] = "ended"

ShutdownBegins ==
    /\ finalizer = "stopping" /\ UpkeepGathered
    /\ finalizer' = "closing"
    /\ Begin(1, phase)
    /\ UNCHANGED <<host, cancels, upkeep, expired>>

DeadlinePasses ==
    /\ finalizer = "closing" /\ ~expired
    /\ expired' = TRUE
    /\ UNCHANGED <<host, cancels, upkeep, finalizer, step, at, phase>>

\* A phase takes its first step, which may be its last.
PhaseStarts(i) ==
    /\ phase[i] = "created"
    /\ \E state \in {"running", "ended"} : phase' = [phase EXCEPT ![i] = state]
    /\ UNCHANGED <<host, cancels, upkeep, finalizer, step, at, expired>>

\* It returns, fails or cancels itself, on time or after it was cut off.
PhaseEnds(i) ==
    /\ phase[i] \in {"running", "cut"} /\ Phases[i] # "cleanup.close"
    /\ phase' = [phase EXCEPT ![i] = "ended"]
    /\ UNCHANGED <<host, cancels, upkeep, finalizer, step, at, expired>>

\* A task that is cancelled before its first step never runs.
CutOff(i) == [phase EXCEPT ![i] = IF phase[i] = "created" THEN "never" ELSE "cut"]

GoOn ==
    /\ phase[step] = "ended"
    /\ Begin(step + 1, phase)

\* A bug for ShutdownInOrder to find: past the deadline a phase is cancelled at once.
TurnSkipped == expired \/ phase[step] # "created"

\* sleep(0) lets the phase take its first step.
TurnTaken == phase[step] # "created"

CutPhase ==
    /\ phase[step] # "ended" /\ expired
    /\ Begin(step + 1, CutOff(step))

AwaitPhase ==
    /\ phase[step] # "ended" /\ ~expired
    /\ at' = "wait"
    /\ UNCHANGED <<step, phase>>

CloseResource ==
    /\ finalizer = "closing"
    /\ \/ at = "turn" /\ TurnTaken /\ (GoOn \/ CutPhase \/ AwaitPhase)
       \/ at = "wait" /\ (GoOn \/ CutPhase)
    /\ UNCHANGED <<host, cancels, upkeep, finalizer, expired>>

\* The supervisor's close() drains what it can and returns by the deadline.
ShutdownEnds ==
    /\ finalizer = "closing" /\ at = "inline"
    /\ phase' = [phase EXCEPT ![step] = "ended"]
    /\ finalizer' = "done"
    /\ UNCHANGED <<host, cancels, upkeep, step, at, expired>>

Next ==
    \/ StartEnds \/ StopServing \/ CancelHost \/ HostLeaves
    \/ \E u \in Upkeep : UpkeepStep(u) \/ UpkeepEnds(u)
    \/ ShutdownBegins \/ DeadlinePasses \/ CloseResource \/ ShutdownEnds
    \/ \E i \in 1 .. Len(Phases) : PhaseStarts(i) \/ PhaseEnds(i)

Spec == Init /\ [][Next]_vars

\* Time passes, the loop runs what is ready, and the periodic tasks end when they are
\* cancelled.  A phase need not end.
Fairness ==
    /\ WF_vars(ShutdownBegins) /\ WF_vars(DeadlinePasses) /\ WF_vars(CloseResource)
    /\ WF_vars(ShutdownEnds) /\ WF_vars(HostLeaves)
    /\ \A u \in Upkeep : WF_vars(UpkeepStep(u)) /\ WF_vars(UpkeepEnds(u))
    /\ \A i \in 1 .. Len(Phases) : WF_vars(PhaseStarts(i))

FairSpec == Spec /\ Fairness

-----------------------------------------------------------------------------
Started(i) == phase[i] \in {"running", "cut", "ended"}

\* However the phases before it went, every phase has taken its first step when the
\* shutdown is over (runtime.py:168).
EveryPhaseRuns ==
    finalizer = "done" => \A i \in 1 .. Len(Phases) : Started(i)

\* A phase begins only when those before it have ended, unless the deadline cut one off
\* (runtime.py:186).
OneAtATime ==
    \A i, j \in 1 .. Len(Phases) :
        i < j /\ phase[j] # "idle" => phase[i] \in {"ended", "cut"} /\ (phase[i] = "cut" => expired)

\* No session is pruned and no browser replaced while the resources close
\* (runtime.py:53).
UpkeepQuiet ==
    \A i \in 1 .. Len(Phases), u \in Upkeep : phase[i] # "idle" => upkeep[u] = "ended"

\* A host that is cancelled once leaves after the shutdown (runtime.py:71).
OneCancellationWaits ==
    host = "left" /\ cancels <= 1 => finalizer = "done"

\* The shutdown as a whole: every phase, in order, after the periodic tasks, while the host
\* waits (runtime.py:44).
ShutdownInOrder ==
    TypeOK /\ EveryPhaseRuns /\ OneAtATime /\ UpkeepQuiet /\ OneCancellationWaits

\* A service that stops serving ends, although no phase does (runtime.py:186).
ShutdownIsBounded == host = "waiting" ~> host = "left" /\ finalizer = "done"

\* The periodic tasks work again and again, whatever a tick raises (runtime.py:103).
UpkeepGoesOn ==
    \A u \in Upkeep :
        host = "serving" /\ upkeep[u] # "working" ~> upkeep[u] = "working" \/ host # "serving"
=============================================================================
