---------------------------- MODULE ChallengeWait ----------------------------
(***************************************************************************)
(* The waits of one solve between navigation and collection: settling,     *)
(* the challenge solver, the poll for its clearance and waitInSeconds;     *)
(* src/camouflare/challenge.py.  The page changes by itself while they     *)
(* look at it.                                                             *)
(*                                                                         *)
(* Times are in units of the instance.  An await with a timeout may return *)
(* later by what is left of MaxLate; a look at the page, which has none,   *)
(* takes from the same allowance.  Injected sleeps do not move the clock.  *)
(***************************************************************************)
EXTENDS Integers

CONSTANTS
    ClearPoll,      \* CHALLENGE_CLEAR_POLL_MS
    ResultReserve,  \* CHALLENGE_RESULT_RESERVE_MS
    IdleCap,        \* the longest wait for networkidle
    MaxTimeout,     \* the longest maxTimeout
    MaxLate         \* by how much awaits overrun, in all

\* A document: a page, a challenge, a block page, one that only a 403 tells from a page.
Documents == {"page", "challenge", "block", "denied"}

VARIABLES
    req,     \* maxTimeout, waitInSeconds, and whether sleeps move the clock
    now,     \* the time since the timer started
    late,    \* by how much awaits have overrun
    pc,      \* where the solve is
    doc,     \* the document in the page
    status,  \* whether the response that brought the first document was a 403
    state,   \* what the first look returned
    seen,    \* what the last look returned
    budget,  \* of the poll
    waited,  \* by the poll
    nap,     \* the sleep it is in
    answer   \* how the waits end

clock == <<now, late>>
poll == <<budget, waited, nap>>
vars == <<req, clock, pc, doc, status, state, seen, poll, answer>>

Smaller(a, b) == IF a < b THEN a ELSE b
Larger(a, b) == IF a < b THEN b ELSE a

TypeOK ==
    /\ req \in [timeout : 1 .. MaxTimeout, wait : 0 .. MaxTimeout, real : BOOLEAN]
    /\ now \in 0 .. req.timeout + MaxLate + 1 /\ late \in 0 .. MaxLate
    /\ pc \in {"settle", "classify", "solve", "first", "poll", "sleep", "look", "wait", "done"}
    /\ doc \in Documents /\ status \in BOOLEAN
    /\ {state, seen} \subseteq {"none", "present", "cleared", "blocked", "unknown"}
    /\ budget \in 0 .. Larger(0, req.timeout - ResultReserve)
    /\ waited \in 0 .. budget /\ nap \in 0 .. Smaller(ClearPoll, waited)
    /\ answer \in {"none", "collect", "failed", "remained", "timed_out"}

Init ==
    /\ req \in [timeout : 1 .. MaxTimeout, wait : {0, 1, MaxTimeout}, real : BOOLEAN]
    /\ now \in 0 .. req.timeout - 1
    /\ late = 0
    /\ pc = "settle"
    /\ doc \in Documents /\ status \in BOOLEAN
    /\ state = "none" /\ seen = "none"
    /\ budget = 0 /\ waited = 0 /\ nap = 0
    /\ answer = "none"

-----------------------------------------------------------------------------
Unspent == req.timeout - now

\* TimeoutTimer.remaining_ms
Remaining == Larger(1, Unspent)

Takes(t, limit) ==
    /\ t <= limit + MaxLate - late
    /\ now' = now + t
    /\ late' = late + Larger(0, t - limit)

\* An await with this timeout ends.
Passes(limit) == \E t \in 0 .. limit + MaxLate - late : Takes(t, limit)

End(how) == pc' = "done" /\ answer' = how

\* The document the page goes on to; a block page is the end of it.
Becomes(d) == d = doc \/ doc # "block"

\* What challenge_state makes of a page it cannot read.
Unread(title) == IF title THEN "present" ELSE "unknown"

\* content_state and the title; the status is known for the first document only.
Reads(title, content, forbidden) ==
    IF content = "block" \/ (content = "denied" /\ forbidden) THEN "blocked"
    ELSE IF content = "challenge" \/ title THEN "present"
    ELSE "cleared"

\* challenge_state reads the title, which may fail, and then the content, which may too.
Look(forbidden) ==
    /\ Passes(0)
    /\ \E d \in Documents, title \in {doc = "challenge", FALSE} :
          /\ Becomes(d)
          /\ doc' = d
          /\ seen' \in {Reads(title, d, forbidden), Unread(title)}

-----------------------------------------------------------------------------
\* wait_networkidle_best_effort never takes the reserve.
Settle ==
    /\ pc = "settle"
    /\ LET left == Smaller(IdleCap,
                           Unspent - Smaller(ResultReserve, Larger(1, req.timeout \div 2)))
       IN  IF left <= 0 THEN UNCHANGED clock ELSE Passes(left)
    /\ pc' = "classify"
    /\ UNCHANGED <<req, doc, status, state, seen, poll, answer>>

Classify ==
    /\ pc = "classify"
    /\ Look(status)
    /\ state' = seen'
    /\ pc' = IF state' = "present" THEN "solve" ELSE "wait"
    /\ UNCHANGED <<req, status, poll, answer>>

\* wait_for(provider.solve()): it returns, fails or is cut off.
Solve ==
    /\ pc = "solve"
    /\ Passes(Remaining)
    /\ \/ pc' = "first" /\ UNCHANGED answer
       \/ End("failed")
       \/ now' >= now + Remaining /\ End("timed_out")
    /\ UNCHANGED <<req, doc, status, state, seen, poll>>

Resolved == {"cleared", "blocked"}

FirstLook ==
    /\ pc = "first"
    /\ Look(FALSE)
    /\ pc' = IF seen' \in Resolved THEN "wait" ELSE "poll"
    /\ budget' = IF seen' \in Resolved THEN budget
                 ELSE Larger(0, Larger(1, req.timeout - now') - ResultReserve)
    /\ UNCHANGED <<req, status, state, waited, nap, answer>>

\* A bug for WaitsUseTheirTime to find: only the budget bounds a step.
StepBlind == Smaller(ClearPoll, budget - waited)

Step == Smaller(Smaller(ClearPoll, budget - waited), Remaining - ResultReserve)

GivesUp == waited >= budget \/ Step <= 0

Counted == waited + Step

PollStep ==
    /\ pc = "poll"
    /\ IF GivesUp
       THEN End("remained") /\ UNCHANGED <<waited, nap>>
       ELSE /\ pc' = "sleep"
            /\ nap' = Step
            /\ waited' = Counted
            /\ UNCHANGED answer
    /\ UNCHANGED <<req, clock, doc, status, state, seen, budget>>

\* A sleep lasts at least as long as it is asked to.
Sleep ==
    /\ pc = "sleep"
    /\ IF req.real
       THEN \E extra \in 0 .. MaxLate : Takes(nap + extra, nap)
       ELSE UNCHANGED clock
    /\ pc' = "look"
    /\ nap' = 0
    /\ UNCHANGED <<req, doc, status, state, seen, budget, waited, answer>>

LookAgain ==
    /\ pc = "look"
    /\ Look(FALSE)
    /\ pc' = IF seen' \in Resolved THEN "wait" ELSE "poll"
    /\ UNCHANGED <<req, status, state, poll, answer>>

\* waitInSeconds, for a first state that is not blocked.
WaitRequested ==
    /\ pc = "wait"
    /\ \/ (state = "blocked" \/ req.wait = 0) /\ End("collect") /\ UNCHANGED clock
       \/ /\ state # "blocked" /\ req.wait > 0 /\ ~req.real
          /\ End("collect")
          /\ UNCHANGED clock
       \/ /\ state # "blocked" /\ req.wait > 0 /\ req.real
          /\ \E extra \in 0 .. MaxLate :
                LET asked == Smaller(req.wait, Remaining)
                IN  Takes(asked + extra, asked)
          /\ \/ req.wait <= Remaining /\ End("collect")
             \/ req.wait >= Remaining /\ End("timed_out")
    /\ UNCHANGED <<req, doc, status, state, seen, poll>>

Next ==
    \/ Settle \/ Classify \/ Solve \/ FirstLook \/ PollStep \/ Sleep \/ LookAgain
    \/ WaitRequested

Spec == Init /\ [][Next]_vars

\* Every await ends: the sleeps and the waits by their timeouts, a look because the
\* browser answers or fails.
Fairness == WF_vars(Next)

FairSpec == Spec /\ Fairness

-----------------------------------------------------------------------------
(***************************************************************************)
(* Properties.                                                             *)
(***************************************************************************)
\* No sleep of the poll is begun that would end inside the reserve, whatever the looks
\* before it took.  wait_for_challenge_cleared, the step it computes.
SleepKeepsReserve ==
    pc = "sleep" => now + nap <= req.timeout - ResultReserve

\* A challenge is given up only when nothing but the reserve is left, or, with sleeps
\* that do not move the clock, when they add up to it.
PollsToTheReserve ==
    answer = "remained" => Unspent <= ResultReserve \/ (~req.real /\ waited = budget)

\* The poll ends as cleared only on a look that saw something other than the challenge,
\* never because the page could not be read.  challenge_state and _RESOLVED_STATES.
ClearedIsSeen ==
    [][(pc \in {"first", "look"} /\ pc' = "wait") => doc' # "challenge"]_vars

\* The waits end, although the challenge stays and although the sleeps are injected ones.
WaitEnds == <>(pc = "done")

=============================================================================
