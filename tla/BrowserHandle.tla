---------------------------- MODULE BrowserHandle ----------------------------
(***************************************************************************)
(* The shared physical close of a browser, CamoufoxBrowserHandle of        *)
(* src/camouflare/browser.py.  The exit of Camoufox's manager is external: *)
(* it may return, fail, be cancelled by the deadline of a cleanup, or      *)
(* never end.                                                              *)
(***************************************************************************)
EXTENDS Naturals, FiniteSets

CONSTANTS Callers,   \* calls of close(), or of start_close() whose task is awaited
          None

\* No call starts more than one exit, which is named by the call.
VARIABLES
    closed,      \* _closed
    close_task,  \* _close_task
    exits,       \* call -> the exit it started
    called_back, \* exits whose done callback has run
    awaits,      \* call -> the exit it waits for
    pc

vars == <<closed, close_task, exits, called_back, awaits, pc>>

Ended == {"returned", "raised"}

TypeOK ==
    /\ closed \in BOOLEAN
    /\ close_task \in Callers \cup {None}
    /\ exits \in [Callers -> {"none", "running"} \cup Ended]
    /\ called_back \subseteq {c \in Callers : exits[c] \in Ended}
    /\ awaits \in [Callers -> Callers \cup {None}]
    /\ pc \in [Callers -> {"out", "waiting", "cancelled"} \cup Ended]

Init ==
    /\ closed = FALSE
    /\ close_task = None
    /\ exits = [c \in Callers |-> "none"]
    /\ called_back = {}
    /\ awaits = [c \in Callers |-> None]
    /\ pc = [c \in Callers |-> "out"]

-----------------------------------------------------------------------------
Leave(c, how) == pc' = [pc EXCEPT ![c] = how]

AlreadyClosed(c) ==
    /\ pc[c] = "out" /\ closed
    /\ Leave(c, "returned")
    /\ UNCHANGED <<closed, close_task, exits, called_back, awaits>>

\* A bug for BrowsersExitOnce to find: every call starts an exit.
StartsAlways == TRUE

StartsExit == close_task = None

\* start_close(), and the wait for its task.  One that is done already is not waited for.
Close(c) ==
    /\ pc[c] = "out" /\ ~closed
    /\ IF StartsExit
       THEN /\ close_task' = c
            /\ exits' = [exits EXCEPT ![c] = "running"]
            /\ awaits' = [awaits EXCEPT ![c] = c]
            /\ Leave(c, "waiting")
       ELSE /\ awaits' = [awaits EXCEPT ![c] = close_task]
            /\ Leave(c, IF exits[close_task] \in Ended THEN exits[close_task] ELSE "waiting")
            /\ UNCHANGED <<close_task, exits>>
    /\ UNCHANGED <<closed, called_back>>

ExitEnds(e) ==
    /\ exits[e] = "running"
    /\ \E how \in Ended : exits' = [exits EXCEPT ![e] = how]
    /\ UNCHANGED <<closed, close_task, called_back, awaits, pc>>

Succeeded(e) == exits[e] = "returned"

\* The task of a failed close makes room for another, unless it already has.
Cleared(e) == IF close_task = e THEN None ELSE close_task

Finished(e) == exits[e] \in Ended

BrowserCloseFinished(e) ==
    /\ Finished(e) /\ e \notin called_back
    /\ called_back' = called_back \cup {e}
    /\ IF Succeeded(e) THEN closed' = TRUE /\ UNCHANGED close_task
       ELSE close_task' = Cleared(e) /\ UNCHANGED closed
    /\ UNCHANGED <<exits, awaits, pc>>

\* The callback of the handle was the first to be added and has run before.
Resume(c) ==
    /\ pc[c] = "waiting" /\ awaits[c] \in called_back
    /\ Leave(c, exits[awaits[c]])
    /\ UNCHANGED <<closed, close_task, exits, called_back, awaits>>

\* The shield leaves the exit alone.
CallerCancelled(c) ==
    /\ pc[c] = "waiting"
    /\ Leave(c, "cancelled")
    /\ UNCHANGED <<closed, close_task, exits, called_back, awaits>>

Next == \E c \in Callers :
    \/ AlreadyClosed(c) \/ Close(c) \/ Resume(c) \/ CallerCancelled(c)
    \/ ExitEnds(c) \/ BrowserCloseFinished(c)

Spec == Init /\ [][Next]_vars

Fairness == \A c \in Callers : WF_vars(BrowserCloseFinished(c)) /\ WF_vars(Resume(c))

FairSpec == Spec /\ Fairness

-----------------------------------------------------------------------------
\* However many callers share it, the browser's manager is left by one task at a time
\* (browser.py:55).
OneExitAtATime == Cardinality({e \in Callers : exits[e] = "running"}) <= 1

\* A browser whose close succeeded is not closed again, once that is known
\* (browser.py:49).
ClosedOnce ==
    /\ closed <=> \E e \in called_back : exits[e] = "returned"
    /\ closed => \A e \in Callers : exits[e] # "running"

\* A caller that is told the browser is closed has been told the truth, whoever was
\* cancelled meanwhile and whichever attempts failed (browser.py:73).
AnswersAreTrue ==
    \A c \in Callers : pc[c] = "returned" => \E e \in Callers : exits[e] = "returned"

\* The task of a failed close does not stay in the way of the next (browser.py:75).
FailuresAreRetried ==
    \A e \in Callers : exits[e] = "raised" ~> close_task # e
=============================================================================
