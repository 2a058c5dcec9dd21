---------------------------- MODULE BrowserLaunch ----------------------------
(***************************************************************************)
(* The serialised launch of make_camoufox_browser_factory in               *)
(* src/camouflare/browser.py: one lock around entering Camoufox's manager  *)
(* and around tearing down one that was entered half.  The manager is      *)
(* external: entering it may take any time, fail, or ignore a              *)
(* cancellation.  Cancellations come from the pool when it abandons the    *)
(* launch, and again from the deadline under which the abandoned launch is *)
(* tracked (pool.py:1478).                                                 *)
(***************************************************************************)
EXTENDS Naturals, Sequences, FiniteSets, SequencesExt

CONSTANTS Launches,   \* calls of the factory
          MaxCancels  \* cancellations of one launch

VARIABLES
    pc,       \* launch -> where it is
    queue,    \* waiters of launch_lock, first first
    manager,  \* launch -> its manager
    cancels,  \* launch -> cancellations so far
    asked     \* launches with a cancellation that has not been raised yet

vars == <<pc, queue, manager, cancels, asked>>

TypeOK ==
    /\ pc \in [Launches -> {"out", "queued", "entering", "leaving", "up", "failed"}]
    /\ queue \in Seq(Launches)
    /\ ToSet(queue) = {l \in Launches : pc[l] = "queued"}
    /\ manager \in [Launches -> {"none", "entering", "up", "exiting", "exited"}]
    /\ cancels \in [Launches -> 0 .. MaxCancels]
    /\ asked \subseteq Launches

Init ==
    /\ pc = [l \in Launches |-> "out"]
    /\ queue = <<>>
    /\ manager = [l \in Launches |-> "none"]
    /\ cancels = [l \in Launches |-> 0]
    /\ asked = {}

-----------------------------------------------------------------------------
Goto(l, p) == pc' = [pc EXCEPT ![l] = p]

SetManager(l, state) == manager' = [manager EXCEPT ![l] = state]

\* launch_lock is taken.
Held == \E l \in Launches : pc[l] \in {"entering", "leaving"}

\* A free lock that nobody waits for is taken at once.
Launch(l) ==
    /\ pc[l] = "out"
    /\ IF Held \/ queue # <<>>
       THEN Goto(l, "queued") /\ queue' = Append(queue, l) /\ UNCHANGED manager
       ELSE Goto(l, "entering") /\ SetManager(l, "entering") /\ UNCHANGED queue
    /\ UNCHANGED <<cancels, asked>>

LockTaken(l) ==
    /\ pc[l] = "queued" /\ l \notin asked /\ ~Held
    /\ queue # <<>> /\ Head(queue) = l
    /\ queue' = Tail(queue)
    /\ Goto(l, "entering") /\ SetManager(l, "entering")
    /\ UNCHANGED <<cancels, asked>>

QueueLeft(l) == RemoveFirst(queue, l)

Cancel(l) ==
    /\ pc[l] \in {"queued", "entering", "leaving"} /\ cancels[l] < MaxCancels
    /\ cancels' = [cancels EXCEPT ![l] = @ + 1]
    /\ asked' = asked \cup {l}
    /\ UNCHANGED <<pc, queue, manager>>

\* The manager was entered, perhaps in spite of a cancellation.
Entered(l) ==
    /\ pc[l] = "entering"
    /\ Goto(l, "up") /\ SetManager(l, "up")
    /\ asked' = asked \ {l}
    /\ UNCHANGED <<queue, cancels>>

\* Entering failed, or the cancellation arrived: the exit is a task of its own.
EnterFails(l) ==
    /\ pc[l] = "entering"
    /\ Goto(l, "leaving") /\ SetManager(l, "exiting")
    /\ asked' = asked \ {l}
    /\ UNCHANGED <<queue, cancels>>

ExitEnds(l) ==
    /\ manager[l] = "exiting"
    /\ SetManager(l, "exited")
    /\ UNCHANGED <<pc, queue, cancels, asked>>

LaunchFailed(l) ==
    /\ pc[l] = "leaving" /\ manager[l] = "exited"
    /\ Goto(l, "failed")
    /\ asked' = asked \ {l}
    /\ UNCHANGED <<queue, manager, cancels>>

\* A bug for BrowsersMove to find: the exit is cancelled with its launch.
ExitLost(l) == IF manager[l] = "exiting" THEN "entering" ELSE manager[l]

\* The exit is shielded.
ManagerAfter(l) == manager[l]

\* A cancellation ends the wait for the lock, or, being suppressed with all else, the
\* wait for the exit.
CancelRaised(l) ==
    /\ l \in asked /\ pc[l] \in {"queued", "leaving"}
    /\ Goto(l, "failed")
    /\ queue' = QueueLeft(l)
    /\ SetManager(l, ManagerAfter(l))
    /\ asked' = asked \ {l}
    /\ UNCHANGED cancels

Next == \E l \in Launches :
    \/ Launch(l) \/ LockTaken(l) \/ Cancel(l) \/ Entered(l) \/ EnterFails(l)
    \/ ExitEnds(l) \/ LaunchFailed(l) \/ CancelRaised(l)

Spec == Init /\ [][Next]_vars

\* Every manager is entered or fails, and every exit ends.
Fairness ==
    \A l \in Launches :
        /\ WF_vars(LockTaken(l)) /\ WF_vars(Entered(l) \/ EnterFails(l))
        /\ WF_vars(ExitEnds(l)) /\ WF_vars(LaunchFailed(l)) /\ WF_vars(CancelRaised(l))

FairSpec == Spec /\ Fairness

-----------------------------------------------------------------------------
\* Managers whose virtual display is being set up or torn down by a launch.
InDisplay == {l \in Launches : manager[l] \in {"entering", "exiting"}}

\* While every teardown is waited for by its launch, no two launches overlap, nor does a
\* launch with the teardown of a failed one (browser.py:333).
LaunchesSerial ==
    (\A l \in Launches : manager[l] = "exiting" => pc[l] = "leaving")
        => Cardinality(InDisplay) <= 1

\* Whoever waits for the lock gets it or gives up, as long as no launch hangs
\* (browser.py:336).
QueueMoves == \A l \in Launches : pc[l] = "queued" ~> pc[l] # "queued"

\* A launch that failed leaves no manager behind (browser.py:350).
FailedTornDown ==
    \A l \in Launches : pc[l] = "failed" ~> manager[l] \in {"none", "exited"}
=============================================================================
