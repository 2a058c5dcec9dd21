------------------------------ MODULE Navigation ------------------------------
(***************************************************************************)
(* navigate_get, src/camouflare/navigation.py: how one request.get divides *)
(* what is left of its deadline between a direct attempt, the browser's    *)
(* two stages, a direct fallback and the collection of the result.         *)
(*                                                                         *)
(* Times are in units of the instance.  A stage with a timeout may return  *)
(* later than it by what is left of MaxLate; an await without one takes    *)
(* from the same allowance.  HttpFetch models the direct attempt itself.   *)
(***************************************************************************)
EXTENDS Integers, Sequences

CONSTANTS
    StageCap,       \* DOMCONTENTLOADED_NAVIGATION_TIMEOUT_MS
    ResultReserve,  \* CHALLENGE_RESULT_RESERVE_MS
    MaxTimeout,     \* the longest maxTimeout
    MaxLate         \* by how much stages overrun, in all

\* What an error is to is_timeout_error, is_best_effort_browser_error and the handlers.
ErrorKinds == {"timeout", "closed", "limit", "failed", "invalid"}

\* "closed_timeout", say, is {"closed", "timeout"}: the two tests are independent.
BrowserErrors == SUBSET {"timeout", "closed"}

VARIABLES
    req,        \* the request, and how much of its time has gone before navigation
    now,        \* the time since the request's timer started
    late,       \* by how much stages have overrun
    pc,         \* where navigate_get is
    nav,        \* the deadline of the navigation timer; 0: none yet
    brw,        \* the deadline of the browser timer; 0: none yet
    began,      \* when the browser's stages began
    committed,  \* the page holds a committed document of the target
    early,      \* it did when the wait for the commit began
    error,      \* the browser error being handled
    answer,     \* what navigate_get returns: the page, a direct response or an error
    raised,     \* the error it raises
    marked,     \* fallback_used of the response
    emitted     \* fallback_used of the transport errors it reports

clock == <<now, late>>
plan == <<nav, brw, began>>
pageVars == <<committed, early>>
result == <<answer, raised, marked, emitted>>
vars == <<req, clock, pc, plan, pageVars, error, result>>

Smaller(a, b) == IF a < b THEN a ELSE b
Larger(a, b) == IF a < b THEN b ELSE a

TypeOK ==
    /\ req \in [timeout : 1 .. MaxTimeout, start : 0 .. MaxTimeout, direct : BOOLEAN,
                kind : {"plain", "ajax", "headers", "headers_screenshot"}]
    /\ now \in req.start .. req.timeout + MaxLate + 1
    /\ late \in 0 .. MaxLate
    /\ pc \in {"enter", "origin", "first", "plan", "goto", "commit", "timeout", "closed", "done"}
    /\ nav \in 0 .. req.timeout - 1 /\ brw \in 0 .. nav /\ began \in 0 .. now
    /\ committed \in BOOLEAN /\ early \in BOOLEAN
    /\ error \in BrowserErrors
    /\ answer \in {"none", "page", "direct", "raised"}
    /\ raised \subseteq ErrorKinds
    /\ marked \in BOOLEAN
    /\ emitted \in {<<>>, <<TRUE>>, <<FALSE>>}
    /\ pc = "done" <=> answer # "none"

Init ==
    /\ req \in [timeout : 1 .. MaxTimeout, start : 0 .. MaxTimeout, direct : BOOLEAN,
                kind : {"plain", "ajax", "headers", "headers_screenshot"}]
    /\ req.start <= req.timeout
    /\ now = req.start
    /\ late = 0
    /\ pc = "enter"
    /\ nav = 0 /\ brw = 0 /\ began = 0
    /\ committed = FALSE /\ early = FALSE
    /\ error = {}
    /\ answer = "none" /\ raised = {} /\ marked = FALSE /\ emitted = <<>>

-----------------------------------------------------------------------------
(***************************************************************************)
(* Timers.                                                                 *)
(***************************************************************************)
Unspent(deadline) == deadline - now

\* _timer_keeping; no deadline when what is left is not more than the reserve.
Keeping(deadline, reserve) ==
    IF Unspent(deadline) <= reserve THEN 0 ELSE Larger(1, deadline - reserve)

ResultReserveOf(timeout) == Smaller(ResultReserve, Larger(1, timeout \div 2))

NavigationEnd ==
    Keeping(req.timeout, Smaller(ResultReserveOf(req.timeout),
                                 Larger(1, Unspent(req.timeout) \div 2)))

TimeoutFallback == req.direct /\ req.kind = "ajax"

BrowserEnd ==
    Keeping(nav, IF TimeoutFallback THEN Smaller(StageCap, Larger(0, Unspent(nav)) \div 2) ELSE 0)

StageTimeout(reserve) == Smaller(StageCap, Larger(1, Unspent(brw) - reserve))

\* An await with this timeout ends.
Passes(limit) ==
    \E t \in 0 .. limit + MaxLate - late :
        /\ now' = now + t
        /\ late' = late + Larger(0, t - limit)

Return(how, fallback) ==
    /\ pc' = "done"
    /\ answer' = how
    /\ marked' = fallback
    /\ UNCHANGED <<raised, error>>

Raise(kinds) ==
    /\ pc' = "done"
    /\ answer' = "raised"
    /\ raised' = kinds
    /\ UNCHANGED <<marked, error>>

GoTo(label) == pc' = label /\ UNCHANGED <<answer, raised, marked>>

-----------------------------------------------------------------------------
(***************************************************************************)
(* The direct attempts.                                                    *)
(***************************************************************************)
\* Headers the browser would send to other origins too have no browser alternative.
Enter ==
    /\ pc = "enter"
    /\ LET headers == req.kind \in {"headers", "headers_screenshot"}
           refused == headers /\ (~req.direct \/ req.kind = "headers_screenshot")
           next == IF headers THEN "origin"
                   ELSE IF req.direct /\ req.kind = "ajax" THEN "first" ELSE "plan"
       IN  \/ refused /\ Raise({"invalid"}) /\ UNCHANGED nav
           \/ /\ ~refused
              /\ nav' = NavigationEnd
              /\ IF nav' = 0 THEN Raise({"timeout"}) ELSE GoTo(next) /\ UNCHANGED error
    /\ UNCHANGED <<req, clock, brw, began, pageVars, emitted>>

\* How fetching directly and importing the cookies ends: a good page, an answer that is
\* no 2xx or a challenge, cookies the context refuses, a limit, another failure.
Outcomes == {"good", "unusable", "cookies", "limit", "failed"}

Direct(label) ==
    /\ pc = label
    /\ Passes(Larger(1, Unspent(nav)))
    /\ UNCHANGED <<req, plan, pageVars>>

OriginBound ==
    /\ Direct("origin")
    /\ \E outcome \in Outcomes :
          \/ outcome \in {"good", "unusable"} /\ Return("direct", FALSE)
          \/ outcome \in {"cookies", "failed"} /\ Raise({"failed"})
          \/ outcome = "limit" /\ Raise({"limit"})
    /\ UNCHANGED emitted

TryFirst ==
    /\ Direct("first")
    /\ \E outcome \in Outcomes :
          \/ outcome = "good" /\ Return("direct", FALSE)
          \/ outcome = "limit" /\ Raise({"limit"})
          \/ outcome \in {"unusable", "cookies", "failed"} /\ GoTo("plan") /\ UNCHANGED error
    /\ UNCHANGED emitted

AfterTimeout ==
    /\ Direct("timeout")
    /\ \E outcome \in Outcomes :
          \/ outcome = "good" /\ Return("direct", TRUE)
          \/ outcome = "limit" /\ Raise({"limit"})
          \/ /\ outcome \in {"unusable", "cookies", "failed"}
             /\ IF "closed" \in error THEN GoTo("closed") /\ UNCHANGED error ELSE Raise(error)
    /\ UNCHANGED emitted

\* What a request is told when its fallback fails.
FirstError == error

\* _fallback_after_browser_transport takes any answer, and keeps it without its cookies.
AfterClosed ==
    /\ Direct("closed")
    /\ \E outcome \in Outcomes :
          \/ /\ outcome \in {"good", "unusable", "cookies"}
             /\ Return("direct", TRUE)
             /\ emitted' = Append(emitted, TRUE)
          \/ /\ outcome \in {"limit", "failed"}
             /\ Raise(IF outcome = "limit" THEN {"limit"} ELSE FirstError)
             /\ emitted' = Append(emitted, FALSE)

-----------------------------------------------------------------------------
(***************************************************************************)
(* The browser's stages.                                                   *)
(***************************************************************************)
\* Both stages need a positive timeout: a navigation without them does not begin.
PlanBrowser ==
    /\ pc = "plan"
    /\ brw' = BrowserEnd
    /\ began' = now
    /\ IF brw' = 0 \/ brw' - now < 2
       THEN Raise({"timeout"})
       ELSE GoTo("goto") /\ UNCHANGED error
    /\ UNCHANGED <<req, clock, nav, pageVars, emitted>>

\* An error that is no timeout, or that no timeout fallback takes.
Unfinished(kinds) ==
    \/ /\ "closed" \notin kinds
       /\ Raise(kinds)
       /\ UNCHANGED emitted
    \/ /\ "closed" \in kinds /\ req.direct
       /\ GoTo("closed")
       /\ error' = kinds
       /\ UNCHANGED emitted
    \/ /\ "closed" \in kinds /\ ~req.direct
       /\ emitted' = Append(emitted, FALSE)
       /\ pc' = "done" /\ answer' = "raised" /\ raised' = kinds /\ error' = kinds
       /\ UNCHANGED marked

FirstStage == StageTimeout(1)

\* A bug for PagesAsAsked to find: a timeout goes to the fallback at once.
TimedOutAtOnce == IF TimeoutFallback THEN "timeout" ELSE "commit"

AfterFirstStage == "commit"

Goto ==
    /\ pc = "goto"
    /\ Passes(FirstStage)
    /\ committed' \in {committed, TRUE}
    /\ \/ /\ committed'
          /\ Return("page", FALSE)
          /\ UNCHANGED <<early, emitted>>
       \/ \E kinds \in BrowserErrors :
             \/ /\ "timeout" \in kinds
                /\ GoTo(AfterFirstStage)
                /\ early' = committed'
                /\ UNCHANGED <<error, emitted>>
             \/ /\ "timeout" \notin kinds
                /\ Unfinished(kinds)
                /\ UNCHANGED early
    /\ UNCHANGED <<req, plan>>

\* wait_for_url(wait_until="commit") resolves at once when the document is there.
Commit ==
    /\ pc = "commit"
    /\ \/ /\ committed
          /\ committed' = TRUE
          /\ UNCHANGED clock
       \/ /\ ~committed
          /\ Passes(StageTimeout(0))
          /\ committed' \in BOOLEAN
    /\ \/ /\ committed'
          /\ Return("page", FALSE)
          /\ UNCHANGED emitted
       \/ \E kinds \in BrowserErrors :
             /\ "timeout" \in kinds => ~committed
             /\ IF TimeoutFallback /\ "timeout" \in kinds /\ nav - now' > 0
                THEN GoTo("timeout") /\ error' = kinds /\ UNCHANGED emitted
                ELSE Unfinished(kinds)
    /\ UNCHANGED <<req, plan, early>>

Next ==
    \/ Enter \/ OriginBound \/ TryFirst \/ AfterTimeout \/ AfterClosed
    \/ PlanBrowser \/ Goto \/ Commit

Spec == Init /\ [][Next]_vars

-----------------------------------------------------------------------------
(***************************************************************************)
(* Properties.                                                             *)
(***************************************************************************)
\* Whatever the stages did, the result has its time: the reserve of the request, or half
\* of what was left when navigation began, less what the stages overran and the least
\* timeout a last attempt gets.  _navigation_timer, _timer_keeping.
ReserveKept ==
    pc = "done" /\ nav # 0 =>
        LET kept == Smaller(ResultReserveOf(req.timeout),
                            Larger(1, (req.timeout - req.start) \div 2))
        IN  req.timeout - now >= kept - late - (IF emitted = <<>> THEN 0 ELSE 1)

\* A fallback after a timeout finds the share the browser had to leave it, less the
\* overrun, and never begins with nothing left.  navigate_get, fallback_reserve_ms.
FallbackHasItsShare ==
    pc = "timeout" =>
        /\ Unspent(nav) > 0
        /\ Unspent(nav) >= Smaller(StageCap, (nav - began) \div 2) - late

\* The wait that decides whether the page has committed has time left although the wait
\* for the document used all of its own.  _stage_timeout_ms and its reserve.
CommitHasTime ==
    pc = "commit" => Unspent(brw) + late >= 1

\* A document that was there when the first stage timed out is kept: no direct answer
\* replaces it while the browser lives.  navigate_get, the wait for the commit.
CommittedPageStays ==
    pc = "done" /\ early /\ answer = "direct" => "closed" \in error

\* A browser transport that failed is reported once, and as what became of the request: a
\* direct answer, marked as such, or the browser's own error and never the fallback's,
\* unless the fallback met a limit.  _fallback_after_browser_transport.
ErrorsReported ==
    pc = "done" =>
        /\ "closed" \in raised => emitted = <<FALSE>>
        /\ emitted = <<TRUE>> => answer = "direct" /\ marked
        /\ emitted = <<FALSE>> => answer = "raised" /\ raised \in {error, {"limit"}}

=============================================================================
