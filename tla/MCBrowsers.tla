------------------------------ MODULE MCBrowsers ------------------------------
(***************************************************************************)
(* What a browser process goes through, for TLC: its launch, its physical  *)
(* close and the SOCKS bridge to its proxy.  They share no state, so a     *)
(* behavior runs one of them; the others rest in their initial states,     *)
(* where none of their fair actions is enabled.                            *)
(***************************************************************************)
EXTENDS Naturals, FiniteSets

CONSTANTS Launches, MaxCancels,  \* BrowserLaunch
          Callers, None,         \* BrowserHandle
          Clients                \* SocksBridge

ASSUME BrowsersAssumption ==
    /\ IsFiniteSet(Launches) /\ IsFiniteSet(Callers) /\ IsFiniteSet(Clients)
    /\ MaxCancels \in Nat
    /\ None \notin Callers

VARIABLES
    running,  \* the part that runs
    launch, queue, manager, cancels, asked,
    handleClosed, close_task, exits, called_back, awaits, caller,
    closed, closer, writers, handler, cancel, wire, pipe, reply

launchVars == <<launch, queue, manager, cancels, asked>>
handleVars == <<handleClosed, close_task, exits, called_back, awaits, caller>>
bridgeVars == <<closed, closer, writers, handler, cancel, wire, pipe, reply>>
vars == <<running, launchVars, handleVars, bridgeVars>>

Launch == INSTANCE BrowserLaunch WITH pc <- launch
Handle == INSTANCE BrowserHandle WITH closed <- handleClosed, pc <- caller
Bridge == INSTANCE SocksBridge WITH pc <- handler

-----------------------------------------------------------------------------
Init ==
    /\ running \in {"launch", "handle", "bridge"}
    /\ Launch!Init /\ Handle!Init /\ Bridge!Init

Next ==
    /\ UNCHANGED running
    /\ \/ running = "launch" /\ Launch!Next /\ UNCHANGED <<handleVars, bridgeVars>>
       \/ running = "handle" /\ Handle!Next /\ UNCHANGED <<launchVars, bridgeVars>>
       \/ running = "bridge" /\ Bridge!Next /\ UNCHANGED <<launchVars, handleVars>>

Spec ==
    /\ Init /\ [][Next]_vars
    /\ Launch!Fairness /\ Handle!Fairness /\ Bridge!Fairness

-----------------------------------------------------------------------------
\* While every teardown is waited for, launches do not overlap (browser.py:333); however
\* many callers share a close, the browser is left by one task at a time, not again after
\* it succeeded, and nobody is told otherwise (browser.py:49).
BrowsersExitOnce ==
    /\ Launch!TypeOK /\ Launch!LaunchesSerial
    /\ Handle!TypeOK /\ Handle!OneExitAtATime /\ Handle!ClosedOnce /\ Handle!AnswersAreTrue

\* However a handler ends it leaves no socket open, and after close() there is neither
\* (proxy.py:84).
TunnelsAreClosed == Bridge!TypeOK /\ Bridge!NothingAfterClose /\ Bridge!HandlersOwnSockets

\* The line for the launch lock moves, failed launches are torn down, failed closes make
\* room for others, and tunnels, which carry nothing but their data, end with the bridge
\* or with one of their peers.
BrowsersMove ==
    /\ Launch!QueueMoves /\ Launch!FailedTornDown
    /\ Handle!FailuresAreRetried
    /\ Bridge!CloseLeavesNothing /\ Bridge!ErrorsEndTunnel /\ Bridge!NoReplyInTunnel
=============================================================================
