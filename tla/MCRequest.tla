------------------------------ MODULE MCRequest ------------------------------
(***************************************************************************)
(* A request to solve, for TLC: its way from the controller to its answer  *)
(* (SolveRequest, whose names are used as they are), the time that its     *)
(* navigation and its waits share, and the media routes of the context it  *)
(* runs in.  They share no state, so a behavior runs one of them; the      *)
(* others rest where none of their fair actions is enabled.                *)
(***************************************************************************)
EXTENDS SolveRequest, Integers, Sequences, FiniteSets

CONSTANTS StageCap, NavigationTimeout, NavigationLate,      \* Navigation
          ClearPoll, IdleCap, WaitTimeout, WaitLate,        \* ChallengeWait
          ResultReserve,                                    \* both
          Contexts, Patterns, MaxRoutes                     \* MediaRoutes

ASSUME RequestAssumption ==
    /\ {StageCap, NavigationTimeout, ClearPoll, IdleCap, WaitTimeout, ResultReserve, MaxRoutes}
          \subseteq Nat \ {0}
    /\ {NavigationLate, WaitLate} \subseteq Nat
    /\ IsFiniteSet(Patterns)

VARIABLES
    running,  \* the part that runs
    nav_req, nav_now, nav_late, stage, nav, brw, began, committed, early, error, nav_answer,
    raised, marked, emitted,
    wait_req, wait_now, wait_late, waiting, doc, status, wait_state, seen, budget, waited, nap,
    wait_answer,
    media, asked, left, attached, own, recorded, stale, partial

navigationVars == <<nav_req, nav_now, nav_late, stage, nav, brw, began, committed, early, error,
                    nav_answer, raised, marked, emitted>>
waitVars == <<wait_req, wait_now, wait_late, waiting, doc, status, wait_state, seen, budget,
              waited, nap, wait_answer>>
mediaVars == <<media, asked, left, attached, own, recorded, stale, partial>>
requestVars == <<running, vars, navigationVars, waitVars, mediaVars>>

Navigate == INSTANCE Navigation WITH
    MaxTimeout <- NavigationTimeout, MaxLate <- NavigationLate,
    req <- nav_req, now <- nav_now, late <- nav_late, pc <- stage, answer <- nav_answer
Waits == INSTANCE ChallengeWait WITH
    MaxTimeout <- WaitTimeout, MaxLate <- WaitLate,
    req <- wait_req, now <- wait_now, late <- wait_late, pc <- waiting, state <- wait_state,
    answer <- wait_answer
Media == INSTANCE MediaRoutes WITH pc <- media

-----------------------------------------------------------------------------
\* A request that got no browser has been told so.
SolveRests ==
    /\ req = [cmd |-> "get", cookies_only |-> FALSE, wait |-> FALSE]
    /\ pc = "ended"
    /\ captcha = "none"
    /\ started = FALSE /\ sent = FALSE
    /\ response = "none" /\ body = "none" /\ state = "none"
    /\ result = {<<"pool", Told("POOL", TRUE, FALSE)>>}
    /\ cancelled = FALSE
    /\ answer = {Told("POOL", TRUE, FALSE)}

NavigationRests ==
    /\ Navigate!Init
    /\ nav_req = [timeout |-> 1, start |-> 0, direct |-> FALSE, kind |-> "plain"]

\* Nothing was asked to be waited for.
WaitRests ==
    /\ wait_req = [timeout |-> 1, wait |-> 0, real |-> TRUE]
    /\ wait_now = 0 /\ wait_late = 0
    /\ waiting = "done" /\ wait_answer = "collect"
    /\ doc = "page" /\ status = FALSE
    /\ wait_state = "cleared" /\ seen = "cleared"
    /\ budget = 0 /\ waited = 0 /\ nap = 0

RequestInit ==
    /\ Media!Init
    /\ \/ running = "solve" /\ Init /\ NavigationRests /\ WaitRests
       \/ running = "navigate" /\ SolveRests /\ Navigate!Init /\ WaitRests
       \/ running = "wait" /\ SolveRests /\ NavigationRests /\ Waits!Init
       \/ running = "media" /\ SolveRests /\ NavigationRests /\ WaitRests

RequestNext ==
    /\ UNCHANGED running
    /\ \/ running = "solve" /\ Next /\ UNCHANGED <<navigationVars, waitVars, mediaVars>>
       \/ running = "navigate" /\ Navigate!Next /\ UNCHANGED <<vars, waitVars, mediaVars>>
       \/ running = "wait" /\ Waits!Next /\ UNCHANGED <<vars, navigationVars, mediaVars>>
       \/ running = "media" /\ Media!Next /\ UNCHANGED <<vars, navigationVars, waitVars>>

RequestSpec == RequestInit /\ [][RequestNext]_requestVars /\ Fairness /\ Waits!Fairness

-----------------------------------------------------------------------------
\* The stages of a navigation leave each other, the fallback and the result their time, a
\* committed page is kept and errors are reported once; media are loaded as
\* asked, but where an interrupted change of the routes says otherwise
\* (navigation.py:127, solver.py:681).
PagesAsAsked ==
    /\ Navigate!TypeOK /\ Navigate!ReserveKept /\ Navigate!FallbackHasItsShare
    /\ Navigate!CommitHasTime /\ Navigate!CommittedPageStays /\ Navigate!ErrorsReported
    /\ Media!TypeOK /\ Media!BlockedAsAsked /\ Media!MediaAsAsked

\* The poll for a challenge uses the time up to the reserve and no more (challenge.py:153).
WaitsUseTheirTime ==
    Waits!TypeOK /\ Waits!SleepKeepsReserve /\ Waits!PollsToTheReserve

\* A block page is final, and a challenge is over only when something else has been seen
\* (solver.py:402, challenge.py:153).
LooksAreFinal == BlockIsFinal /\ Waits!ClearedIsSeen

\* Every request is answered, the captcha's context is closed and the waits end.
RequestMoves == EveryRequestAnswered /\ CaptchaReleased /\ Waits!WaitEnds
=============================================================================
