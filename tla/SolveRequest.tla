----------------------------- MODULE SolveRequest -----------------------------
(***************************************************************************)
(* One request.get or request.post from the controller to its answer:      *)
(* execute_request, solve_request and _run_solve_inner, with the deadline  *)
(* of controller_v1 racing them.  What the client is told about a POST     *)
(* that failed depends on how far it got and on which of them noticed.     *)
(*                                                                         *)
(* Navigation and ChallengeWait refine two of the steps; here they return  *)
(* or fail in every way they can.                                          *)
(***************************************************************************)
EXTENDS Naturals

\* How large an answer grows: TRUE if it can exceed MAX_SOLUTION_BYTES.
CONSTANT MayExceed

ASSUME MayExceedAssumption == MayExceed \in BOOLEAN

Classes == {"page", "challenge", "block"}

VARIABLES
    req,        \* the command, cookies-only or not, waitInSeconds or not
    pc,         \* where the command's task is
    captcha,    \* the provider's context
    started,    \* _PostRequestState.started
    sent,       \* whether the target has received the POST
    response,   \* what navigation returned; "raw" and "fallback" are buffered
    body,       \* what the buffered body is
    state,      \* the classification
    result,     \* what the command's task ends with
    cancelled,  \* the task has been cancelled
    answer      \* the controller's

postVars == <<started, sent>>
contentVars == <<response, body, state>>
vars == <<req, pc, captcha, postVars, contentVars, result, cancelled, answer>>

Codes == {"OK", "INVALID", "LIMIT", "POOL", "TIMEOUT", "NAVIGATION", "CLOSED", "CHALLENGE",
          "BLOCKED", "SESSION", "INTERNAL"}

Answers == [code : Codes, retryable : BOOLEAN, unknown : BOOLEAN]

Kinds == {"response", "camouflare", "limit", "pool", "timeout", "other", "cancelled"}

Buffered == response \in {"raw", "fallback"}

TypeOK ==
    /\ req \in [cmd : {"get", "post"}, cookies_only : BOOLEAN, wait : BOOLEAN]
    /\ pc \in {"lease", "prepare", "setup", "navigate", "posting", "classify", "solve", "clear",
               "wait", "collect", "closing", "ended"}
    /\ captcha \in {"none", "entered", "closing", "closed"}
    /\ started \in BOOLEAN /\ sent \in BOOLEAN /\ cancelled \in BOOLEAN
    /\ response \in {"none", "page", "raw", "fallback"}
    /\ body \in Classes \cup {"none"}
    /\ state \in {"none", "present", "cleared", "blocked", "unknown"}
    /\ result = {} \/ \E r \in Answers, k \in Kinds : result = {<<k, r>>}
    /\ answer = {} \/ \E r \in Answers : answer = {r}
    /\ Buffered <=> body # "none"
    /\ sent => started /\ req.cmd = "post"
    /\ pc \in {"closing", "ended"} <=> result # {}

Init ==
    /\ req \in [cmd : {"get", "post"}, cookies_only : BOOLEAN, wait : BOOLEAN]
    /\ pc = "lease"
    /\ captcha = "none"
    /\ started = FALSE /\ sent = FALSE
    /\ response = "none" /\ body = "none" /\ state = "none"
    /\ result = {} /\ cancelled = FALSE /\ answer = {}

IsPost == req.cmd = "post"

Told(code, retryable, unknown) ==
    [code |-> code, retryable |-> retryable, unknown |-> unknown]

-----------------------------------------------------------------------------
(***************************************************************************)
(* How the solve ends: with a response or with an exception.               *)
(***************************************************************************)
Finish(kind, told) ==
    /\ pc' = "closing"
    /\ result' = {<<kind, told>>}

\* What _run_solve turns into _post_request_failure.
Wrapped(kind) == started

CodeOf(kind) ==
    CASE kind = "limit" -> "LIMIT"
      [] kind = "timeout" -> "NAVIGATION"
      [] OTHER -> "INTERNAL"

Escape(kind) ==
    IF Wrapped(kind)
    THEN Finish("camouflare", Told(CodeOf(kind), FALSE, TRUE))
    ELSE Finish(kind, Told(CodeOf(kind), FALSE, FALSE))

\* Each response collects a solution first, which may be over a limit.
Respond(code, retryable, unknown) ==
    Finish("response", Told(code, retryable, unknown)) \/ Escape("limit")

Running == pc \notin {"closing", "ended"} /\ ~cancelled

At(label) == pc = label /\ Running

-----------------------------------------------------------------------------
(***************************************************************************)
(* Before the target is contacted.                                         *)
(***************************************************************************)
\* The session or the lease, and the page; errors escape execute_request as they are.
Lease ==
    /\ At("lease")
    /\ \/ pc' = "prepare" /\ UNCHANGED result
       \/ /\ pc' = "ended"
          /\ \/ result' = {<<"pool", Told("POOL", TRUE, FALSE)>>}
             \/ result' = {<<"camouflare", Told("SESSION", TRUE, FALSE)>>}
             \/ result' = {<<"camouflare", Told("CLOSED", ~IsPost, FALSE)>>}
             \/ \E kind \in {"timeout", "other"} :
                   result' = {<<kind, Told("INTERNAL", FALSE, FALSE)>>}
    /\ UNCHANGED <<req, captcha, postVars, contentVars, cancelled, answer>>

\* enter_async_context(provider.prepare()); what fails to enter is not on the stack.
Prepare ==
    /\ At("prepare")
    /\ \/ pc' = "setup" /\ captcha' = "entered" /\ UNCHANGED result
       \/ Escape("other") /\ UNCHANGED captcha
    /\ UNCHANGED <<req, postVars, contentVars, cancelled, answer>>

Setup ==
    /\ At("setup")
    /\ \/ pc' = "navigate" /\ UNCHANGED result
       \/ Respond("INTERNAL", FALSE, FALSE)
    /\ UNCHANGED <<req, captcha, postVars, contentVars, cancelled, answer>>

-----------------------------------------------------------------------------
(***************************************************************************)
(* Navigation.                                                             *)
(***************************************************************************)
\* An error of navigation; a domain error says itself whether to retry.
NavigationFails(post) ==
    \/ Escape("limit")
    \/ \E retryable \in BOOLEAN :
          ~post /\ Respond("INVALID", retryable /\ ~started, started)
    \/ Respond("NAVIGATION", ~post /\ ~started, started)
    \/ Respond("INTERNAL", FALSE, started)

Arrives(kind, class) ==
    /\ response' = kind
    /\ body' = class
    /\ pc' = "classify"
    /\ UNCHANGED <<state, result>>

\* What the failure of a POST that was refused says of its outcome.
UnknownWhenRefused == started

Get ==
    /\ At("navigate") /\ ~IsPost
    /\ \/ Arrives("page", "none")
       \/ \E kind \in {"raw", "fallback"}, class \in Classes : Arrives(kind, class)
       \/ NavigationFails(FALSE) /\ UNCHANGED contentVars
    /\ UNCHANGED <<req, captcha, postVars, cancelled, answer>>

\* submit_post refuses a screenshot, and a context without a request transport; then the
\* request is marked as started and goes out, or is lost on the way.
SubmitPost ==
    /\ At("navigate") /\ IsPost
    /\ \/ /\ Respond("INVALID", FALSE, UnknownWhenRefused)
          /\ UNCHANGED postVars
       \/ /\ started' = TRUE
          /\ sent' \in BOOLEAN
          /\ pc' = "posting"
          /\ UNCHANGED result
    /\ UNCHANGED <<req, captcha, contentVars, cancelled, answer>>

\* A cookies-only POST does not read its body.
Posting ==
    /\ At("posting")
    /\ \/ /\ sent
          /\ \E class \in Classes :
                (req.cookies_only => class = "page") /\ Arrives("raw", class)
       \/ NavigationFails(TRUE) /\ UNCHANGED contentVars
    /\ UNCHANGED <<req, captcha, postVars, cancelled, answer>>

-----------------------------------------------------------------------------
(***************************************************************************)
(* Classification.                                                         *)
(***************************************************************************)
StateOf(class) ==
    CASE class = "block" -> "blocked" [] class = "challenge" -> "present" [] OTHER -> "cleared"

\* A look at the page, which is blank unless a navigation has been tried in it.
Seen == IF response = "raw" THEN {"cleared", "unknown"}
        ELSE {"present", "cleared", "blocked", "unknown"}

Classify ==
    /\ At("classify")
    /\ \/ \E seen \in Seen :
             /\ state' = IF Buffered /\ body = "block" THEN "blocked" ELSE seen
             /\ pc' = IF state' = "present" THEN "solve"
                      ELSE IF state' # "blocked" /\ req.wait THEN "wait" ELSE "collect"
             /\ UNCHANGED result
       \/ ~req.cookies_only /\ Escape("limit") /\ UNCHANGED state
    /\ UNCHANGED <<req, captcha, postVars, response, body, cancelled, answer>>

Solve ==
    /\ At("solve")
    /\ \/ pc' = "clear" /\ UNCHANGED result
       \/ Respond("CHALLENGE", FALSE, started)
    /\ UNCHANGED <<req, captcha, postVars, contentVars, cancelled, answer>>

Clear ==
    /\ At("clear")
    /\ \/ pc' = (IF req.wait THEN "wait" ELSE "collect") /\ UNCHANGED result
       \/ Respond("CHALLENGE", FALSE, started)
       \/ ~req.cookies_only /\ Escape("limit")
    /\ UNCHANGED <<req, captcha, postVars, contentVars, cancelled, answer>>

\* A bug for AnswersAreTrue to find: a timeout may always be tried again.
RetryAlways == TRUE

RetryAfterWait == ~IsPost

WaitRequested ==
    /\ At("wait")
    /\ \/ pc' = "collect" /\ UNCHANGED result
       \/ Respond("TIMEOUT", RetryAfterWait, started)
    /\ UNCHANGED <<req, captcha, postVars, contentVars, cancelled, answer>>

\* The last classification: of the buffered body or the page, and of the page's title.
LastContent ==
    IF Buffered
    THEN {StateOf(body)} \cup (IF StateOf(body) = "cleared" /\ response = "fallback"
                               THEN {"present"} ELSE {})
    ELSE {"present", "cleared", "blocked"}

\* A cookies-only answer looks at the page, and then at the buffered body.
LastLook ==
    {s \in Seen : s \in {"blocked", "present"} \/ ~Buffered}
        \cup (IF Buffered THEN {StateOf(body)} ELSE {})

\* A bug for LooksAreFinal to find: the last look decides alone.
LastStateAnew == IF req.cookies_only THEN LastLook ELSE LastContent

LastState ==
    IF state = "blocked" THEN {"blocked"}
    ELSE IF req.cookies_only THEN LastLook ELSE LastContent

Collect ==
    /\ At("collect")
    /\ state' \in LastState
    /\ \/ state' = "blocked" /\ Respond("BLOCKED", FALSE, started)
       \/ state' = "present" /\ Respond("CHALLENGE", FALSE, started)
       \/ state' \in {"cleared", "unknown"} /\ Respond("OK", FALSE, FALSE)
       \/ ~req.cookies_only /\ Escape("limit")
    /\ UNCHANGED <<req, captcha, postVars, response, body, cancelled, answer>>

-----------------------------------------------------------------------------
(***************************************************************************)
(* The end of the task, and the controller.                                *)
(***************************************************************************)
\* supervisor.run(stack.aclose()): its errors and its timeout are only logged.
Close ==
    /\ pc = "closing"
    /\ \/ captcha \in {"none", "closed"} /\ pc' = "ended" /\ UNCHANGED captcha
       \/ captcha = "entered" /\ captcha' = "closing" /\ UNCHANGED pc
       \/ captcha = "closing" /\ pc' = "ended" /\ captcha' \in {"closing", "closed"}
    /\ UNCHANGED <<req, postVars, contentVars, result, cancelled, answer>>

\* The close goes on after run() has left it.
CaptchaCloses ==
    /\ captcha = "closing" /\ pc = "ended"
    /\ captcha' = "closed"
    /\ UNCHANGED <<req, pc, postVars, contentVars, result, cancelled, answer>>

\* A bug for RequestMoves to find: a cancelled task leaves without closing.
UnwindAtOnce == "ended"

\* Where a cancelled task goes on.
Unwind == IF pc = "lease" THEN "ended" ELSE "closing"

Cancelled ==
    /\ cancelled /\ pc \notin {"closing", "ended"}
    /\ pc' = Unwind
    /\ result' = {<<"cancelled", Told("INTERNAL", FALSE, FALSE)>>}
    /\ UNCHANGED <<req, captcha, postVars, contentVars, cancelled, answer>>

AnsweredAtDeadline == {Told("TIMEOUT", ~IsPost, IsPost)}

\* asyncio.wait() times out while the task runs: the client is answered at once.
Deadline ==
    /\ answer = {} /\ pc # "ended" /\ ~cancelled
    /\ cancelled' = TRUE
    /\ answer' = AnsweredAtDeadline
    /\ UNCHANGED <<req, pc, captcha, postVars, contentVars, result>>

\* controller_v1: what it makes of what the task ended with.
Controller(kind, told) ==
    CASE kind = "timeout" -> Told("TIMEOUT", ~IsPost, IsPost)
      [] OTHER -> told

\* A solution over the limit is replaced by an error that says only that.
TooLarge == Told("LIMIT", FALSE, FALSE)

Answer ==
    /\ answer = {} /\ pc = "ended" /\ ~cancelled
    /\ \E r \in result :
          \/ answer' = {Controller(r[1], r[2])}
          \/ MayExceed /\ r[1] = "response" /\ answer' = {TooLarge}
    /\ UNCHANGED <<req, pc, captcha, postVars, contentVars, result, cancelled>>

Step ==
    \/ Lease \/ Prepare \/ Setup \/ Get \/ SubmitPost \/ Posting \/ Classify \/ Solve \/ Clear
    \/ WaitRequested \/ Collect

Next == Step \/ Close \/ CaptchaCloses \/ Cancelled \/ Deadline \/ Answer

Spec == Init /\ [][Next]_vars

\* The deadline passes unless the answer comes first; a cancelled task unwinds, and the
\* supervisor bounds every close.  Nothing makes a step of the solve end.
Fairness ==
    /\ WF_vars(Close) /\ WF_vars(CaptchaCloses) /\ WF_vars(Cancelled)
    /\ WF_vars(Deadline \/ Answer)

FairSpec == Spec /\ Fairness

-----------------------------------------------------------------------------
(***************************************************************************)
(* Properties.                                                             *)
(***************************************************************************)
Failed(a) == a.code # "OK"

\* A client is never invited to repeat a POST that the target has received, whoever
\* noticed the failure: the solve, its wrapper, the controller or the deadline.
PostFailureIsFinal ==
    \A a \in answer : sent /\ Failed(a) => ~a.retryable

\* Nor is it left to think that such a POST was not received, unless its answer was
\* replaced for its size.  _run_solve and _post_request_failure.
PostFailureIsMarked ==
    \A a \in answer :
        sent /\ Failed(a) => a.unknown \/ (a = TooLarge /\ \E r \in result : r[1] = "response")

\* The outcome is called unknown only of a request that was started or that ran out of
\* time: a refusal before that says the target has not seen it.
UnsentIsKnown ==
    \A a \in answer : a.unknown => started \/ a.code = "TIMEOUT"

\* A block page is final: it is not solved, not waited on and never told as a success.
\* _run_solve_inner, the uses of state after the first classification.
BlockIsFinal ==
    [][state = "blocked" => state' = "blocked" /\ pc' \notin {"solve", "clear", "wait"}]_vars

\* A success with a buffered response is about that response, not about the page, which
\* never held it.  _effective_response and _buffered_response_text.
BufferedSpeaks ==
    \A a \in answer : a.code = "OK" /\ Buffered => body = "page"

\* What the client is told is true of what happened: execute_request, solve_request and
\* controller_v1 together.
AnswersAreTrue ==
    TypeOK /\ PostFailureIsFinal /\ PostFailureIsMarked /\ UnsentIsKnown /\ BufferedSpeaks

\* Every request is answered, however long the solve takes.
EveryRequestAnswered == <>(answer # {})

\* What the captcha provider entered is closed, also after a cancellation at any await.
CaptchaReleased == captcha = "entered" ~> captcha = "closed"

=============================================================================
