------------------------------- MODULE Readiness -------------------------------
(***************************************************************************)
(* GET /ready and _await_with_hard_deadline, src/camouflare/app.py: checks *)
(* that probe the browser while requests hold its contexts, a deadline     *)
(* that may fire in the turn in which the probe ends, and clients that go  *)
(* away.  The pool is one browser with Slots contexts; BrowserPool and     *)
(* CleanupSupervisor model it and the owner of tracked tasks.              *)
(***************************************************************************)
EXTENDS Naturals, FiniteSets

CONSTANTS
    Checks,   \* requests of /ready
    Slots     \* contexts of the browser

VARIABLES
    check,      \* check -> where the handler is, or its answer
    probe,      \* check -> where its probe is
    outcome,    \* check -> how the probe ended
    cancelled,  \* probes that are to be cancelled
    tracked,    \* probes that the cleanup supervisor owns
    others,     \* contexts held by requests
    browser     \* its process

probeVars == <<probe, outcome>>
vars == <<check, probeVars, cancelled, tracked, others, browser>>

Leased == {c \in Checks : probe[c] \in {"leased", "closing"}}

Answers == {"ok", "saturated", "unavailable", "timeout"}

TypeOK ==
    /\ check \in [Checks -> {"idle", "refresh", "waiting", "woken", "left"} \cup Answers]
    /\ probe \in [Checks -> {"none", "created", "queued", "leased", "closing", "ended"}]
    /\ outcome \in [Checks -> {"none", "ok", "failed", "cancelled"}]
    /\ cancelled \subseteq Checks /\ tracked \subseteq Checks
    /\ others \in 0 .. Slots
    /\ others + Cardinality(Leased) <= Slots
    /\ browser \in {"live", "dead", "retired"}
    /\ \A c \in Checks : probe[c] = "ended" <=> outcome[c] # "none"

Init ==
    /\ check = [c \in Checks |-> "idle"]
    /\ probe = [c \in Checks |-> "none"]
    /\ outcome = [c \in Checks |-> "none"]
    /\ cancelled = {} /\ tracked = {}
    /\ others = 0
    /\ browser = "live"

SetCheck(c, where) == check' = [check EXCEPT ![c] = where]
SetProbe(c, where) == probe' = [probe EXCEPT ![c] = where] /\ UNCHANGED outcome

ProbeEnds(c, how) ==
    /\ probe' = [probe EXCEPT ![c] = "ended"]
    /\ outcome' = [outcome EXCEPT ![c] = how]

-----------------------------------------------------------------------------
(***************************************************************************)
(* The pool, as far as a probe sees it.                                    *)
(***************************************************************************)

Free == others + Cardinality(Leased) < Slots

IsFullAndServing == browser = "live" /\ ~Free

RequestsComeAndGo ==
    /\ \/ browser = "live" /\ Free /\ others' = others + 1
       \/ others > 0 /\ others' = others - 1
    /\ UNCHANGED <<check, probeVars, cancelled, tracked, browser>>

BrowserChanges ==
    /\ \/ browser = "live" /\ browser' = "dead"
       \/ browser = "retired" /\ others = 0 /\ Leased = {} /\ browser' = "live"
    /\ UNCHANGED <<check, probeVars, cancelled, tracked, others>>

-----------------------------------------------------------------------------
(***************************************************************************)
(* The handler.                                                            *)
(***************************************************************************)
Ready(c) ==
    /\ check[c] = "idle"
    /\ SetCheck(c, "refresh")
    /\ UNCHANGED <<probeVars, cancelled, tracked, others, browser>>

\* pool.refresh(), and at once the decision whether there is anything to probe.
Refresh(c) ==
    /\ check[c] = "refresh"
    /\ browser' = IF browser = "dead" THEN "retired" ELSE browser
    /\ IF IsFullAndServing
       THEN SetCheck(c, "saturated") /\ UNCHANGED probeVars
       ELSE SetCheck(c, "waiting") /\ SetProbe(c, "created")
    /\ UNCHANGED <<cancelled, tracked, others>>

\* asyncio.wait() is woken by the end of the probe or by its timeout, which may come first.
WaitEnds(c) == TRUE

Wakes(c) ==
    /\ check[c] = "waiting" /\ WaitEnds(c)
    /\ SetCheck(c, "woken")
    /\ UNCHANGED <<probeVars, cancelled, tracked, others, browser>>

\* A bug for ProbesAreOwned to find: the cancelled probe is left to itself.
Unowned(c) == {}

\* What the handler leaves to the cleanup supervisor.
Owned(c) == {c}

GiveUp(c, how) ==
    /\ SetCheck(c, how)
    /\ cancelled' = IF probe[c] = "ended" THEN cancelled ELSE cancelled \cup {c}
    /\ tracked' = IF probe[c] = "ended" THEN tracked ELSE tracked \cup Owned(c)

\* Whether the task is not among those that asyncio.wait() found done.
TimedOut(c) == probe[c] # "ended"

Resume(c) ==
    /\ check[c] = "woken"
    /\ \/ /\ probe[c] = "ended"
          /\ SetCheck(c, IF outcome[c] = "ok" THEN "ok" ELSE "unavailable")
          /\ UNCHANGED <<cancelled, tracked>>
       \/ TimedOut(c) /\ GiveUp(c, "timeout")
    /\ UNCHANGED <<probeVars, others, browser>>

\* The client goes away, or the server does.
HandlerCancelled(c) ==
    /\ \/ check[c] = "refresh" /\ SetCheck(c, "left") /\ UNCHANGED <<cancelled, tracked>>
       \/ check[c] \in {"waiting", "woken"} /\ GiveUp(c, "left")
    /\ UNCHANGED <<probeVars, others, browser>>

-----------------------------------------------------------------------------
(***************************************************************************)
(* _readiness_probe.                                                       *)
(***************************************************************************)
Forget(c) == tracked' = tracked \ {c}

\* A probe that is cancelled before its first step never takes one.
ProbeStarts(c) ==
    /\ probe[c] = "created"
    /\ IF c \in cancelled
       THEN ProbeEnds(c, "cancelled") /\ Forget(c)
       ELSE SetProbe(c, "queued") /\ UNCHANGED tracked
    /\ UNCHANGED <<check, cancelled, others, browser>>

Acquire(c) ==
    /\ probe[c] = "queued"
    /\ \/ c \notin cancelled /\ browser = "live" /\ Free /\ SetProbe(c, "leased")
          /\ UNCHANGED tracked
       \/ c \notin cancelled /\ ProbeEnds(c, "failed") /\ Forget(c)
       \/ c \in cancelled /\ ProbeEnds(c, "cancelled") /\ Forget(c)
    /\ UNCHANGED <<check, cancelled, others, browser>>

\* new_page() and evaluate() end, fail or are cancelled; the page is closed either way.
Evaluate(c) ==
    /\ probe[c] = "leased"
    /\ SetProbe(c, "closing")
    /\ UNCHANGED <<check, cancelled, tracked, others, browser>>

\* Whether a probe leaves the block of its lease.
Leaves(c) == TRUE

Release(c) ==
    /\ probe[c] = "closing" /\ (c \in cancelled => Leaves(c))
    /\ \/ c \in cancelled /\ ProbeEnds(c, "cancelled")
       \/ c \notin cancelled /\ browser = "live" /\ ProbeEnds(c, "ok")
       \/ c \notin cancelled /\ ProbeEnds(c, "failed")
    /\ Forget(c)
    /\ UNCHANGED <<check, cancelled, others, browser>>

Next ==
    \/ RequestsComeAndGo \/ BrowserChanges
    \/ \E c \in Checks :
          \/ Ready(c) \/ Refresh(c) \/ Wakes(c) \/ Resume(c) \/ HandlerCancelled(c)
          \/ ProbeStarts(c) \/ Acquire(c) \/ Evaluate(c) \/ Release(c)

Spec == Init /\ [][Next]_vars

\* The deadline passes; a cancelled probe unwinds, and closing its page is bounded.  A probe
\* that is not cancelled may wait for ever.
Fairness ==
    \A c \in Checks :
          /\ WF_vars(Refresh(c)) /\ WF_vars(Wakes(c)) /\ WF_vars(Resume(c))
          /\ WF_vars(ProbeStarts(c)) /\ WF_vars(Release(c))
          /\ WF_vars(c \in cancelled /\ (Acquire(c) \/ Evaluate(c)))

FairSpec == Spec /\ Fairness

-----------------------------------------------------------------------------
(***************************************************************************)
(* Properties.                                                             *)
(***************************************************************************)
\* A probe that its handler has left is owned until it has ended, so that shutdown waits
\* for it and nothing runs on unseen.  _await_with_hard_deadline, both ways out.
ProbesAreOwned ==
    \A c \in Checks :
        check[c] \in {"timeout", "left"} /\ probe[c] \notin {"none", "ended"} => c \in tracked

\* A probe that ended in the turn of the deadline is its result, not a timeout.
LateResultCounts ==
    [][\A c \in Checks :
          (check[c] # "timeout" /\ check'[c] = "timeout") => probe[c] # "ended"]_vars

\* Every check is answered, unless its client leaves, although its probe never ends.
ChecksAreAnswered ==
    \A c \in Checks : check[c] = "refresh" ~> check[c] \in Answers \cup {"left"}

\* The context a probe leases comes back although the probe hangs.
ContextsComeBack == \A c \in Checks : c \in Leased ~> c \notin Leased

=============================================================================
