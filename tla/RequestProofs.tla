---------------------------- MODULE RequestProofs ----------------------------
(***************************************************************************)
(* What holds of a request to solve, whatever its deadlines and reserves   *)
(* are and whether or not an answer can exceed MAX_SOLUTION_BYTES: what a  *)
(* client may rely on in the answer, whichever part of the program noticed *)
(* the failure, how its time is shared, and which media it sees.           *)
(***************************************************************************)
EXTENDS MCRequest, TLAPS

\* What an answer may say of the request as it stands.
Honest(told) ==
    /\ started => ~told.retryable
    /\ started /\ Failed(told) => told.unknown
    /\ told.unknown => started
    /\ Failed(told) \/ (Buffered => body = "page")

\* How far the request got limits what can have happened.
Stages ==
    /\ pc \in {"lease", "prepare", "setup", "navigate"} => ~started
    /\ started => IsPost
    /\ state = "blocked" => pc \in {"collect", "closing", "ended"}
    /\ answer # {} => cancelled \/ pc = "ended"

\* What the task ended with is honest, unless the deadline has answered for it.
ResultTold == \A r \in result : ~cancelled => Honest(r[2])

AnswerTold == PostFailureIsFinal /\ PostFailureIsMarked /\ UnsentIsKnown /\ BufferedSpeaks

IInv == TypeOK /\ Stages /\ ResultTold /\ AnswerTold

\* A task ends with some honest result.
EndsHonestly ==
    \E k \in Kinds, told \in Answers : Finish(k, told) /\ Honest(told)

-----------------------------------------------------------------------------
\* The fields of what is told.
LEMMA ToldFields ==
    ASSUME NEW code \in Codes, NEW retryable \in BOOLEAN, NEW unknown \in BOOLEAN
    PROVE  /\ Told(code, retryable, unknown) \in Answers
           /\ Told(code, retryable, unknown).code = code
           /\ Told(code, retryable, unknown).retryable = retryable
           /\ Told(code, retryable, unknown).unknown = unknown
  BY DEF Told, Answers

\* What the client is told when its time is up.
LEMMA TimeoutTold ==
    /\ Told("TIMEOUT", ~IsPost, IsPost) \in Answers
    /\ Told("TIMEOUT", ~IsPost, IsPost).code = "TIMEOUT"
    /\ Told("TIMEOUT", ~IsPost, IsPost).retryable = ~IsPost
    /\ Told("TIMEOUT", ~IsPost, IsPost).unknown = IsPost
  <1>1. (~IsPost) \in BOOLEAN /\ IsPost \in BOOLEAN /\ "TIMEOUT" \in Codes
    BY DEF IsPost, Codes
  <1> QED BY <1>1, ToldFields

\* The invariant holds when the command begins.
LEMMA InitHolds == Init => IInv
  BY DEF Init, IInv, TypeOK, Buffered, Classes, Stages, ResultTold, AnswerTold, IsPost,
         PostFailureIsFinal, PostFailureIsMarked, UnsentIsKnown, BufferedSpeaks

\* An exception that escapes a request that was started says so.
LEMMA EscapesHonestly ==
    ASSUME TypeOK, NEW kind \in Kinds, Escape(kind)
    PROVE  EndsHonestly
  <1>1. started \in BOOLEAN
    BY DEF TypeOK
  <1>2. CodeOf(kind) \in Codes /\ CodeOf(kind) # "OK"
    BY DEF CodeOf, Codes
  <1>3. CASE started
    <2>1. Finish("camouflare", Told(CodeOf(kind), FALSE, TRUE))
      BY <1>3 DEF Escape, Wrapped
    <2>2. Honest(Told(CodeOf(kind), FALSE, TRUE))
      BY <1>2, <1>3, ToldFields DEF Honest, Failed
    <2> QED BY <1>2, <2>1, <2>2, ToldFields DEF EndsHonestly, Kinds
  <1>4. CASE ~started
    <2>1. Finish(kind, Told(CodeOf(kind), FALSE, FALSE))
      BY <1>4 DEF Escape, Wrapped
    <2>2. Honest(Told(CodeOf(kind), FALSE, FALSE))
      BY <1>2, <1>4, ToldFields DEF Honest, Failed
    <2> QED BY <1>2, <2>1, <2>2, ToldFields DEF EndsHonestly
  <1> QED BY <1>1, <1>3, <1>4

\* A failure is reported honestly when it calls the outcome unknown just if it was started.
LEMMA FailureHonest ==
    ASSUME TypeOK, NEW code \in Codes, code # "OK", NEW retryable \in BOOLEAN,
           started => ~retryable, Respond(code, retryable, started)
    PROVE  EndsHonestly
  <1>1. started \in BOOLEAN /\ "limit" \in Kinds /\ "response" \in Kinds
    BY DEF TypeOK, Kinds
  <1>2. CASE Escape("limit")
    BY <1>1, <1>2, EscapesHonestly
  <1>3. CASE Finish("response", Told(code, retryable, started))
    <2>1. Honest(Told(code, retryable, started))
      BY <1>1, ToldFields DEF Honest, Failed
    <2> QED BY <1>1, <1>3, <2>1, ToldFields DEF EndsHonestly
  <1> QED BY <1>2, <1>3 DEF Respond

\* The same for the errors of navigation.
LEMMA NavigationHonest ==
    ASSUME TypeOK, NEW post \in BOOLEAN, NavigationFails(post)
    PROVE  EndsHonestly
  <1>1. /\ started \in BOOLEAN /\ "limit" \in Kinds
        /\ {"INVALID", "NAVIGATION", "INTERNAL"} \subseteq Codes
    BY DEF TypeOK, Kinds, Codes
  <1>2. CASE Escape("limit")
    BY <1>1, <1>2, EscapesHonestly
  <1>3. CASE \E retryable \in BOOLEAN : ~post /\ Respond("INVALID", retryable /\ ~started, started)
    BY <1>1, <1>3, FailureHonest
  <1>4. CASE Respond("NAVIGATION", ~post /\ ~started, started)
    BY <1>1, <1>4, FailureHonest
  <1>5. CASE Respond("INTERNAL", FALSE, started)
    BY <1>1, <1>5, FailureHonest
  <1> QED BY <1>2, <1>3, <1>4, <1>5 DEF NavigationFails

-----------------------------------------------------------------------------
\* While the task runs it has no result and the client no answer.
LEMMA NothingYet ==
    ASSUME IInv, Running
    PROVE  result = {} /\ answer = {} /\ pc \notin {"closing", "ended"} /\ ~cancelled
  BY DEF IInv, TypeOK, Stages, Running

\* A running task ends honestly.
LEMMA TaskEnds ==
    ASSUME IInv, Running, EndsHonestly,
           UNCHANGED <<req, captcha, postVars, response, body, cancelled, answer>>,
           state' \in {"none", "present", "cleared", "blocked", "unknown"}
    PROVE  IInv'
  <1>1. result = {} /\ answer = {} /\ pc \notin {"closing", "ended"} /\ ~cancelled
    BY NothingYet
  <1>2. PICK k \in Kinds, told \in Answers :
            pc' = "closing" /\ result' = {<<k, told>>} /\ Honest(told)
    BY DEF EndsHonestly, Finish
  <1>3. TypeOK'
    BY <1>1, <1>2 DEF IInv, TypeOK, postVars, Buffered
  <1>4. Stages'
    BY <1>1, <1>2 DEF IInv, Stages, postVars, IsPost
  <1>5. ResultTold'
    BY <1>1, <1>2 DEF ResultTold, Honest, postVars, Buffered, Failed
  <1>6. AnswerTold'
    BY <1>1 DEF AnswerTold, PostFailureIsFinal, PostFailureIsMarked, UnsentIsKnown, BufferedSpeaks
  <1> QED BY <1>3, <1>4, <1>5, <1>6 DEF IInv

\* A running task goes on at another await.
LEMMA TaskGoesOn ==
    ASSUME IInv, Running, UNCHANGED <<req, result, cancelled, answer>>,
           TypeOK', (Stages)'
    PROVE  IInv'
  <1>1. result = {} /\ answer = {}
    BY NothingYet
  <1> QED BY <1>1 DEF IInv, ResultTold, AnswerTold, PostFailureIsFinal, PostFailureIsMarked,
                      UnsentIsKnown, BufferedSpeaks

\* The steps before the target is contacted.
LEMMA EarlySteps ==
    ASSUME IInv, Lease \/ Prepare \/ Setup
    PROVE  IInv'
  <1>1. CASE Lease
    <2>1. Running /\ pc = "lease" /\ ~started
      BY <1>1 DEF Lease, At, IInv, Stages
    <2>2. result = {} /\ answer = {} /\ ~cancelled
      BY <2>1, NothingYet
    <2>3. UNCHANGED <<req, captcha, postVars, contentVars, cancelled, answer>>
      BY <1>1 DEF Lease
    <2>4. CASE pc' = "prepare" /\ UNCHANGED result
      <3>1. TypeOK' /\ Stages'
        BY <2>1, <2>2, <2>3, <2>4
        DEF IInv, TypeOK, Stages, postVars, contentVars, Buffered, IsPost
      <3> QED BY <2>1, <2>3, <2>4, <3>1, TaskGoesOn
    <2>5. CASE pc' = "ended" /\ \E k \in Kinds, told \in Answers :
                   result' = {<<k, told>>} /\ Failed(told) /\ ~told.unknown
      <3>1. PICK k \in Kinds, told \in Answers :
                result' = {<<k, told>>} /\ Failed(told) /\ ~told.unknown
        BY <2>5
      <3>2. TypeOK'
        BY <2>1, <2>3, <2>5, <3>1 DEF IInv, TypeOK, postVars, contentVars, Buffered
      <3>3. Stages'
        BY <2>1, <2>2, <2>3, <2>5 DEF IInv, Stages, postVars, contentVars, IsPost
      <3>4. ResultTold'
        BY <2>1, <2>3, <3>1 DEF ResultTold, Honest, postVars, contentVars, Buffered, Failed
      <3>5. AnswerTold'
        BY <2>2, <2>3
        DEF AnswerTold, PostFailureIsFinal, PostFailureIsMarked, UnsentIsKnown, BufferedSpeaks
      <3> QED BY <3>2, <3>3, <3>4, <3>5 DEF IInv
    <2>6. /\ {"POOL", "SESSION", "CLOSED", "INTERNAL"} \subseteq Codes
          /\ {"pool", "camouflare", "timeout", "other"} \subseteq Kinds
      BY DEF Codes, Kinds
    <2>7. \A code \in Codes \ {"OK"}, retryable \in BOOLEAN :
             /\ Told(code, retryable, FALSE) \in Answers
             /\ Failed(Told(code, retryable, FALSE))
             /\ ~Told(code, retryable, FALSE).unknown
      BY ToldFields DEF Failed
    <2>8. ASSUME pc' = "ended", NEW k \in Kinds, NEW code \in Codes \ {"OK"},
                 NEW retryable \in BOOLEAN, result' = {<<k, Told(code, retryable, FALSE)>>}
          PROVE  IInv'
      BY <2>5, <2>7, <2>8
    <2>9. CASE pc' = "ended" /\ result' = {<<"pool", Told("POOL", TRUE, FALSE)>>}
      BY <2>6, <2>8, <2>9
    <2>10. CASE pc' = "ended" /\ result' = {<<"camouflare", Told("SESSION", TRUE, FALSE)>>}
      BY <2>6, <2>8, <2>10
    <2>11. CASE pc' = "ended" /\ result' = {<<"camouflare", Told("CLOSED", ~IsPost, FALSE)>>}
      <3>1. (~IsPost) \in BOOLEAN
        OBVIOUS
      <3> QED BY <2>6, <2>8, <2>11, <3>1
    <2>12. CASE pc' = "ended" /\ \E kind \in {"timeout", "other"} :
                                    result' = {<<kind, Told("INTERNAL", FALSE, FALSE)>>}
      BY <2>6, <2>8, <2>12
    <2> QED BY <1>1, <2>4, <2>9, <2>10, <2>11, <2>12 DEF Lease
  <1>2. CASE Prepare
    <2>1. Running /\ pc = "prepare" /\ ~started
      BY <1>2 DEF Prepare, At, IInv, Stages
    <2>2. UNCHANGED <<req, postVars, contentVars, cancelled, answer>>
      BY <1>2 DEF Prepare
    <2>3. CASE pc' = "setup" /\ captcha' = "entered" /\ UNCHANGED result
      <3>1. TypeOK' /\ Stages'
        BY <2>1, <2>2, <2>3, NothingYet
        DEF IInv, TypeOK, Stages, postVars, contentVars, Buffered, IsPost
      <3> QED BY <2>1, <2>2, <2>3, <3>1, TaskGoesOn
    <2>4. CASE Escape("other") /\ UNCHANGED captcha
      <3>1. EndsHonestly
        BY <2>4, EscapesHonestly DEF IInv, Kinds
      <3> QED BY <2>1, <2>2, <2>4, <3>1, TaskEnds DEF IInv, TypeOK, contentVars
    <2> QED BY <1>2, <2>3, <2>4 DEF Prepare
  <1>3. CASE Setup
    <2>1. Running /\ pc = "setup" /\ ~started /\ started \in BOOLEAN
      BY <1>3 DEF Setup, At, IInv, Stages, TypeOK
    <2>2. UNCHANGED <<req, captcha, postVars, contentVars, cancelled, answer>>
      BY <1>3 DEF Setup
    <2>3. CASE pc' = "navigate" /\ UNCHANGED result
      <3>1. TypeOK' /\ Stages'
        BY <2>1, <2>2, <2>3, NothingYet
        DEF IInv, TypeOK, Stages, postVars, contentVars, Buffered, IsPost
      <3> QED BY <2>1, <2>2, <2>3, <3>1, TaskGoesOn
    <2>4. CASE Respond("INTERNAL", FALSE, FALSE)
      <3>1. EndsHonestly
        BY <2>1, <2>4, FailureHonest DEF IInv, Codes
      <3> QED BY <2>1, <2>2, <3>1, TaskEnds DEF IInv, TypeOK, contentVars
    <2> QED BY <1>3, <2>3, <2>4 DEF Setup
  <1> QED BY <1>1, <1>2, <1>3

\* The steps of navigation.
LEMMA NavigationSteps ==
    ASSUME IInv, Get \/ SubmitPost \/ Posting
    PROVE  IInv'
  <1>0. \A kind \in {"page", "raw", "fallback"}, class \in Classes \cup {"none"} :
           Arrives(kind, class) =>
              response' = kind /\ body' = class /\ pc' = "classify" /\ UNCHANGED <<state, result>>
    BY DEF Arrives
  <1>a. ASSUME Running, pc \in {"navigate", "posting"},
               UNCHANGED <<req, captcha, started, sent, cancelled, answer>>,
               NEW kind \in {"page", "raw", "fallback"}, NEW class \in Classes \cup {"none"},
               kind = "page" <=> class = "none", Arrives(kind, class)
        PROVE  IInv'
    <2>1. response' = kind /\ body' = class /\ pc' = "classify" /\ UNCHANGED <<state, result>>
      BY <1>0, <1>a
    <2>2. TypeOK'
      BY <1>a, <2>1, NothingYet DEF IInv, TypeOK, Buffered, Classes
    <2>3. (Stages)'
      BY <1>a, <2>1, NothingYet DEF IInv, Stages, IsPost
    <2> QED BY <1>a, <2>1, <2>2, <2>3, TaskGoesOn
  <1>1. CASE Get
    <2>1. /\ Running /\ pc = "navigate"
          /\ UNCHANGED <<req, captcha, postVars, cancelled, answer>>
      BY <1>1 DEF Get, At
    <2>2. CASE Arrives("page", "none")
      BY <1>a, <2>1, <2>2 DEF postVars
    <2>3. CASE \E kind \in {"raw", "fallback"}, class \in Classes : Arrives(kind, class)
      BY <1>a, <2>1, <2>3 DEF postVars, Classes
    <2>4. CASE NavigationFails(FALSE) /\ UNCHANGED contentVars
      <3>1. EndsHonestly
        BY <2>4, NavigationHonest DEF IInv
      <3> QED BY <2>1, <2>4, <3>1, TaskEnds DEF IInv, TypeOK, contentVars
    <2> QED BY <1>1, <2>2, <2>3, <2>4 DEF Get
  <1>2. CASE SubmitPost
    <2>1. /\ Running /\ pc = "navigate" /\ IsPost /\ started \in BOOLEAN
          /\ UNCHANGED <<req, captcha, contentVars, cancelled, answer>>
      BY <1>2 DEF SubmitPost, At, IInv, TypeOK
    <2>2. CASE Respond("INVALID", FALSE, UnknownWhenRefused) /\ UNCHANGED postVars
      <3>1. EndsHonestly
        BY <2>1, <2>2, FailureHonest DEF IInv, Codes, UnknownWhenRefused
      <3> QED BY <2>1, <2>2, <3>1, TaskEnds DEF IInv, TypeOK, contentVars
    <2>3. CASE started' = TRUE /\ sent' \in BOOLEAN /\ pc' = "posting" /\ UNCHANGED result
      <3>1. TypeOK'
        BY <2>1, <2>3, NothingYet DEF IInv, TypeOK, contentVars, Buffered, IsPost
      <3>2. (Stages)'
        BY <2>1, <2>3, NothingYet DEF IInv, Stages, contentVars, IsPost
      <3> QED BY <2>1, <2>3, <3>1, <3>2, TaskGoesOn
    <2> QED BY <1>2, <2>2, <2>3 DEF SubmitPost
  <1>3. CASE Posting
    <2>1. /\ Running /\ pc = "posting"
          /\ UNCHANGED <<req, captcha, postVars, cancelled, answer>>
      BY <1>3 DEF Posting, At
    <2>2. CASE \E class \in Classes : Arrives("raw", class)
      BY <1>a, <2>1, <2>2 DEF postVars, Classes
    <2>3. CASE NavigationFails(TRUE) /\ UNCHANGED contentVars
      <3>1. EndsHonestly
        BY <2>3, NavigationHonest DEF IInv
      <3> QED BY <2>1, <2>3, <3>1, TaskEnds DEF IInv, TypeOK, contentVars
    <2> QED BY <1>3, <2>2, <2>3 DEF Posting
  <1> QED BY <1>1, <1>2, <1>3

\* A success at the end is about the buffered response, when there is one.
LEMMA LastLookIsHonest ==
    ASSUME TypeOK, state' \in LastState, state' \in {"cleared", "unknown"}, Buffered
    PROVE  body = "page"
  <1>1. body \in Classes
    BY DEF TypeOK, Buffered
  <1>2. state' = StateOf(body)
    <2>1. state # "blocked"
      BY DEF LastState
    <2>2. CASE req.cookies_only
      BY <2>1, <2>2 DEF LastState, LastLook
    <2>3. CASE ~req.cookies_only
      BY <2>1, <2>3 DEF LastState, LastContent
    <2> QED BY <2>2, <2>3
  <1> QED BY <1>1, <1>2 DEF StateOf, Classes

\* The steps of the classification and of the challenge.
LEMMA ChallengeSteps ==
    ASSUME IInv, Classify \/ Solve \/ Clear \/ WaitRequested
    PROVE  IInv'
  <1>0. started \in BOOLEAN /\ "limit" \in Kinds /\ {"CHALLENGE", "TIMEOUT"} \subseteq Codes
    BY DEF IInv, TypeOK, Kinds, Codes
  <1>1. CASE Classify
    <2>1. /\ Running /\ pc = "classify"
          /\ UNCHANGED <<req, captcha, postVars, response, body, cancelled, answer>>
      BY <1>1 DEF Classify, At
    <2>2. CASE \E found \in Seen :
             /\ state' = IF Buffered /\ body = "block" THEN "blocked" ELSE found
             /\ pc' = IF state' = "present" THEN "solve"
                      ELSE IF state' # "blocked" /\ req.wait THEN "wait" ELSE "collect"
             /\ UNCHANGED result
      <3>1. state' \in {"present", "cleared", "blocked", "unknown"}
        BY <2>2 DEF Seen
      <3>2. /\ pc' \in {"solve", "wait", "collect"} /\ UNCHANGED result
            /\ state' = "blocked" => pc' = "collect"
        BY <2>2
      <3>3. TypeOK'
        BY <2>1, <3>1, <3>2, NothingYet DEF IInv, TypeOK, postVars, Buffered
      <3>4. (Stages)'
        BY <2>1, <3>1, <3>2, NothingYet DEF IInv, Stages, postVars, IsPost
      <3> QED BY <2>1, <3>2, <3>3, <3>4, TaskGoesOn
    <2>3. CASE Escape("limit") /\ UNCHANGED state
      <3>1. EndsHonestly
        BY <1>0, <2>3, EscapesHonestly DEF IInv
      <3> QED BY <2>1, <2>3, <3>1, TaskEnds DEF IInv, TypeOK
    <2> QED BY <1>1, <2>2, <2>3 DEF Classify
  <1>a. ASSUME Running, pc \in {"solve", "clear", "wait"}, pc' \in {"clear", "wait", "collect"},
               UNCHANGED <<req, captcha, postVars, contentVars, cancelled, answer, result>>
        PROVE  IInv'
    <2>1. TypeOK'
      BY <1>a, NothingYet DEF IInv, TypeOK, postVars, contentVars, Buffered
    <2>2. (Stages)'
      BY <1>a, NothingYet DEF IInv, Stages, postVars, contentVars, IsPost
    <2> QED BY <1>a, <2>1, <2>2, TaskGoesOn
  <1>b. ASSUME Running, EndsHonestly,
               UNCHANGED <<req, captcha, postVars, contentVars, cancelled, answer>>
        PROVE  IInv'
    BY <1>b, TaskEnds DEF IInv, TypeOK, contentVars
  <1>2. CASE Solve
    <2>1. /\ Running /\ pc = "solve"
          /\ UNCHANGED <<req, captcha, postVars, contentVars, cancelled, answer>>
      BY <1>2 DEF Solve, At
    <2>2. CASE pc' = "clear" /\ UNCHANGED result
      BY <1>a, <2>1, <2>2
    <2>3. CASE Respond("CHALLENGE", FALSE, started)
      BY <1>0, <1>b, <2>1, <2>3, FailureHonest DEF IInv
    <2> QED BY <1>2, <2>2, <2>3 DEF Solve
  <1>3. CASE Clear
    <2>1. /\ Running /\ pc = "clear"
          /\ UNCHANGED <<req, captcha, postVars, contentVars, cancelled, answer>>
      BY <1>3 DEF Clear, At
    <2>2. CASE pc' = (IF req.wait THEN "wait" ELSE "collect") /\ UNCHANGED result
      BY <1>a, <2>1, <2>2
    <2>3. CASE Respond("CHALLENGE", FALSE, started)
      BY <1>0, <1>b, <2>1, <2>3, FailureHonest DEF IInv
    <2>4. CASE Escape("limit")
      BY <1>0, <1>b, <2>1, <2>4, EscapesHonestly DEF IInv
    <2> QED BY <1>3, <2>2, <2>3, <2>4 DEF Clear
  <1>4. CASE WaitRequested
    <2>1. /\ Running /\ pc = "wait"
          /\ UNCHANGED <<req, captcha, postVars, contentVars, cancelled, answer>>
      BY <1>4 DEF WaitRequested, At
    <2>2. CASE pc' = "collect" /\ UNCHANGED result
      BY <1>a, <2>1, <2>2
    <2>3. CASE Respond("TIMEOUT", RetryAfterWait, started)
      <3>1. RetryAfterWait \in BOOLEAN /\ (started => ~RetryAfterWait)
        BY DEF RetryAfterWait, IInv, Stages, IsPost
      <3> QED BY <1>0, <1>b, <2>1, <2>3, <3>1, FailureHonest DEF IInv
    <2> QED BY <1>4, <2>2, <2>3 DEF WaitRequested
  <1> QED BY <1>1, <1>2, <1>3, <1>4

\* The end of a solve.
LEMMA CollectStep ==
    ASSUME IInv, Collect
    PROVE  IInv'
  <1>0. /\ started \in BOOLEAN /\ {"limit", "response"} \subseteq Kinds
        /\ {"BLOCKED", "CHALLENGE", "OK"} \subseteq Codes
    BY DEF IInv, TypeOK, Kinds, Codes
  <1>1. /\ Running /\ pc = "collect" /\ state' \in LastState
        /\ UNCHANGED <<req, captcha, postVars, response, body, cancelled, answer>>
    BY DEF Collect, At
  <1>2. state' \in {"none", "present", "cleared", "blocked", "unknown"}
    <2>1. \A class : StateOf(class) \in {"blocked", "present", "cleared"}
      BY DEF StateOf
    <2> QED BY <1>1, <2>1 DEF LastState, LastLook, LastContent, Seen
  <1>3. CASE Respond("BLOCKED", FALSE, started) \/ Respond("CHALLENGE", FALSE, started)
    <2>1. EndsHonestly
      BY <1>0, <1>3, FailureHonest DEF IInv
    <2> QED BY <1>1, <1>2, <2>1, TaskEnds
  <1>4. CASE Escape("limit")
    <2>1. EndsHonestly
      BY <1>0, <1>4, EscapesHonestly DEF IInv
    <2> QED BY <1>1, <1>2, <2>1, TaskEnds
  <1>5. CASE state' \in {"cleared", "unknown"} /\ Finish("response", Told("OK", FALSE, FALSE))
    <2>1. Buffered => body = "page"
      BY <1>1, <1>5, LastLookIsHonest DEF IInv
    <2>2. Honest(Told("OK", FALSE, FALSE))
      BY <1>0, <2>1, ToldFields DEF Honest, Failed
    <2>3. EndsHonestly
      BY <1>0, <1>5, <2>2, ToldFields DEF EndsHonestly
    <2> QED BY <1>1, <1>2, <2>3, TaskEnds
  <1> QED BY <1>3, <1>4, <1>5 DEF Collect, Respond

\* The steps of the controller and of what goes on beside the task.
LEMMA OutsideSteps ==
    ASSUME IInv, Close \/ CaptchaCloses \/ Cancelled \/ Deadline \/ Answer
    PROVE  IInv'
  <1>1. CASE Close
    <2>1. /\ pc = "closing" /\ pc' \in {"closing", "ended"}
          /\ captcha' \in {"none", "entered", "closing", "closed"}
          /\ UNCHANGED <<req, started, sent, response, body, state, result, cancelled, answer>>
      BY <1>1 DEF Close, postVars, contentVars, IInv, TypeOK
    <2>2. TypeOK'
      BY <2>1 DEF IInv, TypeOK, Buffered
    <2>3. (Stages)' /\ ResultTold'
      BY <2>1 DEF IInv, Stages, ResultTold, Honest, Buffered, IsPost, Failed
    <2>4. AnswerTold'
      BY <2>1
      DEF IInv, AnswerTold, PostFailureIsFinal, PostFailureIsMarked, UnsentIsKnown,
          BufferedSpeaks, Buffered, Failed, TooLarge
    <2> QED BY <2>2, <2>3, <2>4 DEF IInv
  <1>2. CASE CaptchaCloses
    <2>1. /\ captcha' = "closed"
          /\ UNCHANGED <<req, pc, started, sent, response, body, state, result, cancelled, answer>>
      BY <1>2 DEF CaptchaCloses, postVars, contentVars
    <2>2. TypeOK'
      BY <2>1 DEF IInv, TypeOK, Buffered
    <2>3. (Stages)' /\ ResultTold'
      BY <2>1 DEF IInv, Stages, ResultTold, Honest, Buffered, IsPost, Failed
    <2>4. AnswerTold'
      BY <2>1
      DEF IInv, AnswerTold, PostFailureIsFinal, PostFailureIsMarked, UnsentIsKnown,
          BufferedSpeaks, Buffered, Failed, TooLarge
    <2> QED BY <2>2, <2>3, <2>4 DEF IInv
  <1>3. CASE Cancelled
    <2>1. /\ cancelled /\ pc \notin {"closing", "ended"} /\ pc' \in {"closing", "ended"}
          /\ result' = {<<"cancelled", Told("INTERNAL", FALSE, FALSE)>>}
          /\ UNCHANGED <<req, captcha, started, sent, response, body, state, cancelled, answer>>
      BY <1>3 DEF Cancelled, Unwind, postVars, contentVars
    <2>2. Told("INTERNAL", FALSE, FALSE) \in Answers /\ "cancelled" \in Kinds /\ result = {}
      BY <2>1, ToldFields DEF Codes, Kinds, IInv, TypeOK
    <2>3. TypeOK'
      <3>1. (\E r \in Answers, k \in Kinds : result' = {<<k, r>>}) /\ result' # {}
        BY <2>1, <2>2
      <3>2. pc' \in {"closing", "ended"} <=> result' # {}
        BY <2>1, <3>1
      <3>3. UNCHANGED <<req, captcha, started, sent, response, body, state, cancelled, answer>>
        BY <2>1
      <3>4. pc' \in {"closing", "ended"}
        BY <2>1
      <3> QED BY <3>1, <3>2, <3>3, <3>4 DEF IInv, TypeOK, Buffered
    <2>4. (Stages)' /\ ResultTold'
      BY <2>1 DEF IInv, Stages, ResultTold, IsPost
    <2>5. AnswerTold'
      BY <2>1, <2>2
      DEF IInv, AnswerTold, PostFailureIsFinal, PostFailureIsMarked, UnsentIsKnown,
          BufferedSpeaks, Buffered, Failed, TooLarge
    <2> QED BY <2>3, <2>4, <2>5 DEF IInv
  <1>4. CASE Deadline
    <2>1. /\ cancelled' = TRUE /\ answer' = {Told("TIMEOUT", ~IsPost, IsPost)}
          /\ UNCHANGED <<req, pc, captcha, started, sent, response, body, state, result>>
      BY <1>4 DEF Deadline, AnsweredAtDeadline, postVars, contentVars
    <2>3. TypeOK'
      BY <2>1, TimeoutTold DEF IInv, TypeOK, Buffered
    <2>4. (Stages)' /\ ResultTold'
      BY <2>1 DEF IInv, Stages, ResultTold, IsPost
    <2>5. sent => IsPost
      BY DEF IInv, TypeOK, IsPost
    <2>6. AnswerTold'
      BY <2>1, <2>5, TimeoutTold
      DEF AnswerTold, PostFailureIsFinal, PostFailureIsMarked, UnsentIsKnown, BufferedSpeaks,
          Failed
    <2> QED BY <2>3, <2>4, <2>6 DEF IInv
  <1>5. CASE Answer
    <2>1. /\ answer = {} /\ pc = "ended" /\ ~cancelled
          /\ UNCHANGED <<req, pc, captcha, started, sent, response, body, state, result,
                         cancelled>>
      BY <1>5 DEF Answer, postVars, contentVars
    <2>2. PICK r \in result : \/ answer' = {Controller(r[1], r[2])}
                              \/ r[1] = "response" /\ answer' = {TooLarge}
      BY <1>5 DEF Answer
    <2>3. r[2] \in Answers /\ Honest(r[2])
      BY <2>1, <2>2 DEF IInv, TypeOK, ResultTold
    <2>4. /\ IsPost \in BOOLEAN /\ (~IsPost) \in BOOLEAN
          /\ started \in BOOLEAN /\ (sent => started) /\ (started => IsPost)
      BY DEF IInv, TypeOK, Stages, IsPost
    <2>5. PICK a \in Answers :
             /\ answer' = {a}
             /\ sent => ~a.retryable
             /\ sent /\ Failed(a) => a.unknown \/ (a = TooLarge /\ r[1] = "response")
             /\ a.unknown => started \/ a.code = "TIMEOUT"
             /\ a.code = "OK" /\ Buffered => body = "page"
      <3>1. CASE answer' = {TooLarge}
        <4>1. TooLarge \in Answers /\ TooLarge.code = "LIMIT" /\ ~TooLarge.retryable
              /\ ~TooLarge.unknown
          BY ToldFields DEF TooLarge, Codes
        <4>2. r[1] = "response" \/ TooLarge = Controller(r[1], r[2])
          BY <2>2, <3>1
        <4>3. Controller(r[1], r[2]) = TooLarge /\ r[1] # "response" => (sent => r[2] = TooLarge)
          <5>1. r[1] = "timeout" => Controller(r[1], r[2]) = Told("TIMEOUT", ~IsPost, IsPost)
            BY DEF Controller
          <5>2. r[1] # "timeout" => Controller(r[1], r[2]) = r[2]
            BY DEF Controller
          <5> QED BY <4>1, <5>1, <5>2, TimeoutTold
        <4>4. sent /\ r[1] # "response" => FALSE
          BY <2>3, <2>4, <4>1, <4>2, <4>3 DEF Honest, Failed
        <4> QED BY <3>1, <4>1, <4>4
      <3>2. CASE r[1] = "timeout" /\ answer' = {Controller(r[1], r[2])}
        <4>1. Controller(r[1], r[2]) = Told("TIMEOUT", ~IsPost, IsPost)
          BY <3>2 DEF Controller
        <4> QED BY <2>4, <3>2, <4>1, TimeoutTold
      <3>3. CASE r[1] # "timeout" /\ answer' = {Controller(r[1], r[2])}
        <4>1. Controller(r[1], r[2]) = r[2]
          BY <3>3 DEF Controller
        <4> QED BY <2>3, <2>4, <3>3, <4>1 DEF Honest, Failed
      <3> QED BY <2>2, <3>1, <3>2, <3>3
    <2>6. TypeOK'
      BY <2>1, <2>5 DEF IInv, TypeOK, Buffered
    <2>7. (Stages)' /\ ResultTold'
      BY <2>1 DEF IInv, Stages, ResultTold, Honest, Buffered, IsPost, Failed
    <2>8. AnswerTold'
      BY <2>1, <2>2, <2>5
      DEF AnswerTold, PostFailureIsFinal, PostFailureIsMarked, UnsentIsKnown, BufferedSpeaks,
          Failed, Buffered, TooLarge
    <2> QED BY <2>6, <2>7, <2>8 DEF IInv
  <1> QED BY <1>1, <1>2, <1>3, <1>4, <1>5

\* Every step preserves the invariant.
LEMMA NextHolds == IInv /\ [Next]_vars => IInv'
  <1> SUFFICES ASSUME IInv, [Next]_vars PROVE IInv'
    OBVIOUS
  <1>1. CASE UNCHANGED vars
    <2>1. UNCHANGED <<req, pc, captcha, started, sent, response, body, state, result, cancelled,
                      answer>>
      BY <1>1 DEF vars, postVars, contentVars
    <2>2. TypeOK'
      BY <2>1 DEF IInv, TypeOK, Buffered
    <2>3. (Stages)' /\ ResultTold'
      BY <2>1 DEF IInv, Stages, ResultTold, Honest, Buffered, IsPost, Failed
    <2>4. AnswerTold'
      BY <2>1
      DEF IInv, AnswerTold, PostFailureIsFinal, PostFailureIsMarked, UnsentIsKnown,
          BufferedSpeaks, Buffered, Failed, TooLarge
    <2> QED BY <2>2, <2>3, <2>4 DEF IInv
  <1>2. CASE Next
    BY <1>2, EarlySteps, NavigationSteps, ChallengeSteps, CollectStep, OutsideSteps DEF Next, Step
  <1> QED BY <1>1, <1>2

\* The inductive invariant of a command and its answer.
THEOREM SolveInvariant == Spec => []IInv
  BY InitHolds, NextHolds, PTL DEF Spec

-----------------------------------------------------------------------------
\* The variables keep their types, and what the target received was a started POST.
THEOREM TypesHold == Spec => []TypeOK
  <1>1. IInv => TypeOK
    BY DEF IInv
  <1> QED BY <1>1, SolveInvariant, PTL

\* No answer invites the client to repeat a POST that the target has received.
THEOREM PostFailuresAreFinal == Spec => []PostFailureIsFinal
  <1>1. IInv => PostFailureIsFinal
    BY DEF IInv, AnswerTold
  <1> QED BY <1>1, SolveInvariant, PTL

\* Nor lets it think that such a POST was not received, unless it was over the limit.
THEOREM PostFailuresAreMarked == Spec => []PostFailureIsMarked
  <1>1. IInv => PostFailureIsMarked
    BY DEF IInv, AnswerTold
  <1> QED BY <1>1, SolveInvariant, PTL

\* The outcome is unknown only of a request that was started or that ran out of time.
THEOREM UnsentAreKnown == Spec => []UnsentIsKnown
  <1>1. IInv => UnsentIsKnown
    BY DEF IInv, AnswerTold
  <1> QED BY <1>1, SolveInvariant, PTL

\* A success with a buffered response is about that response.
THEOREM BufferedAlwaysSpeaks == Spec => []BufferedSpeaks
  <1>1. IInv => BufferedSpeaks
    BY DEF IInv, AnswerTold
  <1> QED BY <1>1, SolveInvariant, PTL

\* What the client is told is true of what happened.
THEOREM AnswersHold == Spec => []AnswersAreTrue
  <1>1. IInv => AnswersAreTrue
    BY DEF IInv, AnswerTold, AnswersAreTrue
  <1> QED BY <1>1, SolveInvariant, PTL

LEMMA BlockStays ==
    ASSUME IInv, Next, state = "blocked"
    PROVE  state' = "blocked" /\ pc' \notin {"solve", "clear", "wait"}
  <1>1. pc \in {"collect", "closing", "ended"}
    BY DEF IInv, Stages
  <1>2. CASE Step
    <2>1. Collect
      BY <1>1, <1>2
      DEF Step, At, Lease, Prepare, Setup, Get, SubmitPost, Posting, Classify, Solve, Clear,
          WaitRequested
    <2>2. state' = "blocked"
      BY <2>1 DEF Collect, LastState
    <2>3. pc' = "closing"
      BY <2>1 DEF Collect, Respond, Escape, Finish
    <2> QED BY <2>2, <2>3
  <1>3. CASE Close \/ CaptchaCloses \/ Cancelled \/ Deadline \/ Answer
    BY <1>1, <1>3
    DEF Close, CaptchaCloses, Cancelled, Unwind, Deadline, Answer, contentVars
  <1> QED BY <1>2, <1>3 DEF Next

\* A block page is final: it is not solved, not waited on and never told as a success.
THEOREM BlocksAreFinal == Spec => BlockIsFinal
  <1>1. IInv /\ [Next]_vars =>
           [state = "blocked" => state' = "blocked" /\ pc' \notin {"solve", "clear", "wait"}]_vars
    BY BlockStays
  <1> QED BY <1>1, SolveInvariant, PTL DEF Spec, BlockIsFinal

-----------------------------------------------------------------------------
(***************************************************************************)
(* The media routes of a context.                                          *)
(***************************************************************************)
MediaTypes ==
    /\ media \in [Contexts -> {"idle", "route", "unroute", "navigate", "unblock", "solve"}]
    /\ asked \in [Contexts -> BOOLEAN]
    /\ left \in [Contexts -> SUBSET Patterns]
    /\ attached \in [Contexts -> [Patterns -> 0 .. MaxRoutes]]
    /\ own \in [Contexts -> SUBSET Patterns]
    /\ recorded \subseteq Contexts /\ stale \subseteq Contexts /\ partial \subseteq Contexts

\* The patterns that are blocked where the request is, when every loop came to its end: what
\* a loop has done is what it has left behind.
Blocked(c) ==
    CASE media[c] = "route" -> Patterns \ left[c]
      [] media[c] \in {"unroute", "unblock"} -> left[c]
      [] OTHER -> IF c \in recorded THEN Patterns ELSE {}

\* The record decides which loop runs.
RecordFollowed(c) ==
    /\ c \in partial => c \in recorded
    /\ media[c] = "route" => asked[c] /\ c \notin recorded
    /\ media[c] = "unroute" => ~asked[c] /\ c \in recorded
    /\ media[c] = "unblock" => c \in recorded
    /\ media[c] = "navigate" => (asked[c] <=> c \in recorded)
    /\ media[c] = "solve" => c \notin recorded

\* An interrupted removal takes away too much, a lost route is too much: neither hides the
\* other's half.
RoutesSound(c) ==
    /\ \A p \in own[c] : attached[c][p] > 0
    /\ c \notin partial => Blocked(c) \subseteq own[c]
    /\ c \notin stale =>
         /\ own[c] \subseteq Blocked(c)
         /\ \A p \in Patterns : attached[c][p] = IF p \in own[c] THEN 1 ELSE 0

ContextSound(c) == RecordFollowed(c) /\ RoutesSound(c)

MediaInv == MediaTypes /\ \A c \in Contexts : ContextSound(c)

\* A step in one context leaves the others alone.
SameContext(c) ==
    /\ media'[c] = media[c] /\ (asked'[c] <=> asked[c]) /\ left'[c] = left[c]
    /\ attached'[c] = attached[c] /\ own'[c] = own[c]
    /\ (c \in recorded' <=> c \in recorded) /\ (c \in stale' <=> c \in stale)
    /\ (c \in partial' <=> c \in partial)

LEMMA SameContextKeeps ==
    ASSUME NEW c \in Contexts, ContextSound(c), SameContext(c) PROVE ContextSound(c)'
  <1>1. Blocked(c)' = Blocked(c)
    BY DEF Blocked, SameContext
  <1>2. RecordFollowed(c)'
    BY DEF ContextSound, RecordFollowed, SameContext
  <1>3. RoutesSound(c)'
    BY <1>1 DEF ContextSound, RoutesSound, SameContext
  <1> QED BY <1>2, <1>3 DEF ContextSound

LEMMA MediaKeeps == ASSUME MediaInv, Media!Next PROVE MediaInv'
  <1>t. MediaTypes /\ \A c \in Contexts : ContextSound(c)
    BY DEF MediaInv
  <1>c. PICK c \in Contexts :
          \/ Media!Request(c) \/ Media!Route(c) \/ Media!Unroute(c) \/ Media!Detected(c)
          \/ Media!RequestEnds(c) \/ Media!RequestTorn(c)
    BY DEF Media!Next
  <1>s. RecordFollowed(c) /\ RoutesSound(c)
    BY <1>t DEF ContextSound
  <1>1. ASSUME MediaTypes', RecordFollowed(c)', RoutesSound(c)',
               \A d \in Contexts : d # c => SameContext(d)
        PROVE  MediaInv'
    BY <1>1, <1>t, SameContextKeeps DEF MediaInv, ContextSound
  <1>0. ASSUME attached' = attached, own' = own,
               c \notin partial' => c \notin partial /\ Blocked(c)' \subseteq own[c],
               c \notin stale' => c \notin stale /\ own[c] \subseteq Blocked(c)'
        PROVE  RoutesSound(c)'
    BY <1>0, <1>s DEF RoutesSound
  <1>2. CASE Media!Request(c)
    <2>1. PICK enabled \in BOOLEAN :
            /\ media[c] = "idle" /\ asked' = [asked EXCEPT ![c] = enabled]
            /\ media' = [media EXCEPT ![c] = Media!BeginSetup(c, enabled)]
            /\ left' = [left EXCEPT ![c] = Patterns]
            /\ UNCHANGED <<attached, own, recorded, stale, partial>>
      BY <1>2 DEF Media!Request, Media!GoTo
    <2>2. /\ Media!BeginSetup(c, enabled) \in {"navigate", "route", "unroute"}
          /\ Media!BeginSetup(c, enabled) = "navigate" <=> (enabled <=> c \in recorded)
          /\ Media!BeginSetup(c, enabled) = "route" => enabled /\ c \notin recorded
          /\ Media!BeginSetup(c, enabled) = "unroute" => ~enabled /\ c \in recorded
      BY DEF Media!BeginSetup
    <2>3. MediaTypes' /\ \A d \in Contexts : d # c => SameContext(d)
      BY <2>1, <2>2, <1>t DEF MediaTypes, SameContext
    <2>4. /\ media'[c] = Media!BeginSetup(c, enabled) /\ (asked'[c] <=> enabled)
          /\ left'[c] = Patterns
      BY <2>1, <1>t DEF MediaTypes
    <2>5. Blocked(c) = IF c \in recorded THEN Patterns ELSE {}
      BY <2>1 DEF Blocked
    <2>6. Blocked(c)' = Blocked(c)
      BY <2>1, <2>2, <2>4, <2>5 DEF Blocked
    <2>7. RecordFollowed(c)'
      BY <2>1, <2>2, <2>4, <1>s DEF RecordFollowed
    <2>8. RoutesSound(c)'
      BY <2>1, <2>6, <1>0, <1>s DEF RoutesSound
    <2> QED BY <1>1, <2>3, <2>7, <2>8
  <1>3. CASE Media!Route(c)
    <2>0. /\ media[c] = "route" /\ asked' = asked /\ stale' = stale /\ partial' = partial
          /\ c \notin partial /\ Blocked(c) = Patterns \ left[c]
      BY <1>3, <1>s DEF Media!Route, RecordFollowed, Blocked
    <2>1. CASE left[c] = {} /\ recorded' = recorded \cup {c}
               /\ media' = [media EXCEPT ![c] = "navigate"]
               /\ UNCHANGED <<left, attached, own>>
      <3>1. MediaTypes' /\ \A d \in Contexts : d # c => SameContext(d)
        BY <2>0, <2>1, <1>t DEF MediaTypes, SameContext
      <3>2. media'[c] = "navigate" /\ c \in recorded'
        BY <2>1, <1>t DEF MediaTypes
      <3>3. Blocked(c)' = Blocked(c)
        BY <2>0, <2>1, <3>2 DEF Blocked
      <3>4. RecordFollowed(c)'
        BY <2>0, <3>2, <1>s DEF RecordFollowed
      <3>5. RoutesSound(c)'
        BY <2>0, <2>1, <3>3, <1>0, <1>s DEF RoutesSound
      <3> QED BY <1>1, <3>1, <3>4, <3>5
    <2>2. ASSUME NEW p \in left[c], attached[c][p] < MaxRoutes,
                 left' = [left EXCEPT ![c] = left[c] \ {p}],
                 attached' = [attached EXCEPT ![c][p] = attached[c][p] + 1],
                 own' = [own EXCEPT ![c] = own[c] \cup {p}],
                 UNCHANGED <<media, recorded>>
          PROVE  MediaInv'
      <3>1. /\ p \in Patterns /\ attached[c][p] \in 0 .. MaxRoutes
            /\ attached[c] \in [Patterns -> 0 .. MaxRoutes] /\ MaxRoutes \in Nat
        BY <2>2, <1>t, RequestAssumption DEF MediaTypes
      <3>2. attached[c][p] + 1 \in 0 .. MaxRoutes
        BY <2>2, <3>1
      <3>3. attached' \in [Contexts -> [Patterns -> 0 .. MaxRoutes]]
        BY <2>2, <3>1, <3>2, <1>t DEF MediaTypes
      <3>4. MediaTypes' /\ \A d \in Contexts : d # c => SameContext(d)
        BY <2>0, <2>2, <3>1, <3>3, <1>t DEF MediaTypes, SameContext
      <3>5. /\ left'[c] = left[c] \ {p} /\ own'[c] = own[c] \cup {p}
            /\ attached'[c][p] = attached[c][p] + 1
            /\ \A q \in Patterns : q # p => attached'[c][q] = attached[c][q]
        BY <2>2, <3>1, <1>t DEF MediaTypes
      <3>6. Blocked(c)' = Blocked(c) \cup {p}
        <4>1. Blocked(c)' = Patterns \ left'[c]
          BY <2>0, <2>2 DEF Blocked
        <4> QED BY <2>0, <3>1, <3>5, <4>1
      <3>7. \A q \in own'[c] : attached'[c][q] > 0
        BY <3>1, <3>5, <1>s, <1>t DEF RoutesSound, MediaTypes
      <3>8. Blocked(c)' \subseteq own'[c]
        BY <2>0, <3>5, <3>6, <1>s DEF RoutesSound
      <3>9. c \notin stale => own'[c] \subseteq Blocked(c)'
        BY <3>5, <3>6, <1>s DEF RoutesSound
      <3>10. c \notin stale => \A q \in Patterns : attached'[c][q] = IF q \in own'[c] THEN 1 ELSE 0
        <4>1. c \notin stale => p \notin own[c]
          BY <2>0, <2>2, <1>s DEF RoutesSound
        <4> QED BY <3>1, <3>5, <4>1, <1>s DEF RoutesSound
      <3>11. RecordFollowed(c)'
        BY <2>0, <2>2, <1>s DEF RecordFollowed
      <3>12. RoutesSound(c)'
        BY <2>0, <3>7, <3>8, <3>9, <3>10 DEF RoutesSound
      <3> QED BY <1>1, <3>4, <3>11, <3>12
    <2> QED BY <1>3, <2>1, <2>2 DEF Media!Route, Media!GoTo
  <1>4. CASE Media!Unroute(c)
    <2>0. /\ media[c] \in {"unroute", "unblock"} /\ asked' = asked /\ Blocked(c) = left[c]
          /\ c \in recorded
      BY <1>4, <1>s DEF Media!Unroute, Blocked, RecordFollowed
    <2>1. CASE /\ left[c] = {} /\ recorded' = recorded \ {c} /\ partial' = partial \ {c}
               /\ media' = [media EXCEPT ![c] = IF media[c] = "unroute" THEN "navigate" ELSE "solve"]
               /\ UNCHANGED <<left, attached, own, stale>>
      <3>1. MediaTypes' /\ \A d \in Contexts : d # c => SameContext(d)
        BY <2>0, <2>1, <1>t DEF MediaTypes, SameContext
      <3>2. /\ c \notin recorded' /\ media'[c] \in {"navigate", "solve"}
            /\ media'[c] = "navigate" => media[c] = "unroute"
        BY <2>1, <1>t DEF MediaTypes
      <3>3. Blocked(c)' = {} /\ Blocked(c) = {}
        BY <2>0, <2>1, <3>2 DEF Blocked
      <3>4. RecordFollowed(c)'
        BY <2>0, <2>1, <3>2, <1>s DEF RecordFollowed
      <3>5. RoutesSound(c)'
        BY <2>1, <3>3, <1>s DEF RoutesSound
      <3> QED BY <1>1, <3>1, <3>4, <3>5
    <2>2. ASSUME NEW p \in left[c], left' = [left EXCEPT ![c] = left[c] \ {p}],
                 UNCHANGED <<media, recorded, partial>>
          PROVE  /\ RecordFollowed(c)' /\ Blocked(c)' = Blocked(c) \ {p}
                 /\ left' \in [Contexts -> SUBSET Patterns] /\ p \in Patterns
                 /\ \A d \in Contexts : d # c => left'[d] = left[d]
      <3>1. left'[c] = left[c] \ {p}
        BY <2>2, <1>t DEF MediaTypes
      <3>2. Blocked(c)' = left'[c]
        BY <2>0, <2>2 DEF Blocked
      <3>3. RecordFollowed(c)'
        BY <2>0, <2>2, <1>s DEF RecordFollowed
      <3> QED BY <2>0, <2>2, <3>1, <3>2, <3>3, <1>t DEF MediaTypes
    <2>3. ASSUME NEW p \in left[c], Media!Detach(c, p), stale' = stale,
                 left' = [left EXCEPT ![c] = left[c] \ {p}],
                 UNCHANGED <<media, recorded, partial>>
          PROVE  MediaInv'
      <3>0. /\ attached' = [attached EXCEPT ![c][p] = IF p \in own[c] THEN attached[c][p] - 1
                                                       ELSE attached[c][p]]
            /\ own' = [own EXCEPT ![c] = own[c] \ {p}]
        BY <2>3 DEF Media!Detach
      <3>1. /\ p \in Patterns /\ attached[c][p] \in 0 .. MaxRoutes
            /\ attached[c] \in [Patterns -> 0 .. MaxRoutes] /\ MaxRoutes \in Nat
        BY <2>3, <1>t, RequestAssumption DEF MediaTypes
      <3> DEFINE m == IF p \in own[c] THEN attached[c][p] - 1 ELSE attached[c][p]
      <3>2. m \in 0 .. MaxRoutes
        BY <3>1, <1>s DEF RoutesSound
      <3>3. /\ attached' \in [Contexts -> [Patterns -> 0 .. MaxRoutes]]
            /\ attached'[c][p] = m
            /\ \A q \in Patterns : q # p => attached'[c][q] = attached[c][q]
            /\ \A d \in Contexts : d # c => attached'[d] = attached[d]
        <4> HIDE DEF m
        <4>1. attached' = [attached EXCEPT ![c][p] = m]
          BY <3>0 DEF m
        <4> QED BY <3>1, <3>2, <4>1, <1>t DEF MediaTypes
      <3>4. /\ RecordFollowed(c)' /\ Blocked(c)' = Blocked(c) \ {p}
            /\ left' \in [Contexts -> SUBSET Patterns]
            /\ \A d \in Contexts : d # c => left'[d] = left[d]
        BY <2>2, <2>3
      <3>5. own'[c] = own[c] \ {p} /\ own' \in [Contexts -> SUBSET Patterns]
            /\ \A d \in Contexts : d # c => own'[d] = own[d]
        BY <3>0, <1>t DEF MediaTypes
      <3>6. MediaTypes' /\ \A d \in Contexts : d # c => SameContext(d)
        BY <2>0, <2>3, <3>3, <3>4, <3>5, <1>t DEF MediaTypes, SameContext
      <3>7. \A q \in own'[c] : attached'[c][q] > 0
        BY <3>3, <3>5, <1>s, <1>t DEF RoutesSound, MediaTypes
      <3>8. c \notin stale => \A q \in Patterns : attached'[c][q] = IF q \in own'[c] THEN 1 ELSE 0
        BY <3>1, <3>3, <3>5, <1>s DEF RoutesSound
      <3>9. RoutesSound(c)'
        BY <2>3, <3>4, <3>5, <3>7, <3>8, <1>s DEF RoutesSound
      <3> QED BY <1>1, <3>4, <3>6, <3>9
    <2>4. ASSUME NEW p \in left[c], stale' = stale \cup {c}, UNCHANGED <<attached, own>>,
                 left' = [left EXCEPT ![c] = left[c] \ {p}],
                 UNCHANGED <<media, recorded, partial>>
          PROVE  MediaInv'
      <3>1. /\ RecordFollowed(c)' /\ Blocked(c)' = Blocked(c) \ {p}
            /\ left' \in [Contexts -> SUBSET Patterns]
            /\ \A d \in Contexts : d # c => left'[d] = left[d]
        BY <2>2, <2>4
      <3>2. MediaTypes' /\ \A d \in Contexts : d # c => SameContext(d)
        BY <2>0, <2>4, <3>1, <1>t DEF MediaTypes, SameContext
      <3>3. RoutesSound(c)'
        BY <2>4, <3>1, <1>s DEF RoutesSound
      <3> QED BY <1>1, <3>1, <3>2, <3>3
    <2> QED BY <1>4, <2>0, <2>1, <2>3, <2>4 DEF Media!Unroute, Media!GoTo
  <1>5. CASE Media!Detected(c)
    <2>1. /\ media[c] = "navigate" /\ left' = [left EXCEPT ![c] = Patterns]
          /\ media' = [media EXCEPT ![c] = IF c \in recorded THEN "unblock" ELSE "solve"]
          /\ UNCHANGED <<asked, attached, own, recorded, stale, partial>>
      BY <1>5 DEF Media!Detected, Media!BeginSolve, Media!GoTo
    <2>2. MediaTypes' /\ \A d \in Contexts : d # c => SameContext(d)
      BY <2>1, <1>t DEF MediaTypes, SameContext
    <2>3. /\ left'[c] = Patterns
          /\ media'[c] = IF c \in recorded THEN "unblock" ELSE "solve"
      BY <2>1, <1>t DEF MediaTypes
    <2>4. Blocked(c)' = Blocked(c)
      BY <2>1, <2>3 DEF Blocked
    <2>5. RecordFollowed(c)'
      BY <2>1, <2>3, <1>s DEF RecordFollowed
    <2>6. RoutesSound(c)'
      BY <2>1, <2>4, <1>0, <1>s DEF RoutesSound
    <2> QED BY <1>1, <2>2, <2>5, <2>6
  <1>6. CASE Media!RequestEnds(c)
    <2>1. /\ media[c] \in {"navigate", "solve"} /\ left' = [left EXCEPT ![c] = {}]
          /\ media' = [media EXCEPT ![c] = "idle"]
          /\ UNCHANGED <<asked, attached, own, recorded, stale, partial>>
      BY <1>6 DEF Media!RequestEnds, Media!Leave, Media!GoTo
    <2>2. MediaTypes' /\ \A d \in Contexts : d # c => SameContext(d)
      BY <2>1, <1>t DEF MediaTypes, SameContext
    <2>3. media'[c] = "idle"
      BY <2>1, <1>t DEF MediaTypes
    <2>4. Blocked(c)' = Blocked(c)
      BY <2>1, <2>3 DEF Blocked
    <2>5. RecordFollowed(c)'
      BY <2>1, <2>3, <1>s DEF RecordFollowed
    <2>6. RoutesSound(c)'
      BY <2>1, <2>4, <1>0, <1>s DEF RoutesSound
    <2> QED BY <1>1, <2>2, <2>5, <2>6
  <1>7. CASE Media!RequestTorn(c)
    <2>1. /\ left' = [left EXCEPT ![c] = {}] /\ media' = [media EXCEPT ![c] = "idle"]
          /\ UNCHANGED <<asked, attached, own, recorded>>
          /\ \/ media[c] = "route" /\ stale' = stale \cup {c} /\ partial' = partial
             \/ media[c] \in {"unroute", "unblock"} /\ partial' = partial \cup {c} /\ stale' = stale
      BY <1>7 DEF Media!RequestTorn, Media!Leave, Media!GoTo
    <2>2. MediaTypes' /\ \A d \in Contexts : d # c => SameContext(d)
      BY <2>1, <1>t DEF MediaTypes, SameContext
    <2>3. media'[c] = "idle"
      BY <2>1, <1>t DEF MediaTypes
    <2>4. Blocked(c)' = IF c \in recorded THEN Patterns ELSE {}
      BY <2>1, <2>3 DEF Blocked
    <2>5. RecordFollowed(c)'
      BY <2>1, <2>3, <1>s DEF RecordFollowed
    <2>6. CASE media[c] = "route"
      <3>1. c \notin recorded /\ c \in stale'
        BY <2>1, <2>6, <1>s DEF RecordFollowed
      <3> QED BY <1>1, <2>1, <2>2, <2>4, <2>5, <2>6, <3>1, <1>s DEF RoutesSound
    <2>7. CASE media[c] \in {"unroute", "unblock"}
      <3>1. c \in recorded /\ c \in partial' /\ stale' = stale
        BY <2>1, <2>7, <1>s DEF RecordFollowed
      <3>2. own[c] \subseteq Blocked(c)'
        BY <2>4, <3>1, <1>t DEF MediaTypes
      <3>3. RoutesSound(c)'
        BY <2>1, <3>1, <3>2, <1>0, <1>s DEF RoutesSound
      <3> QED BY <1>1, <2>2, <2>5, <3>3
    <2> QED BY <2>1, <2>6, <2>7
  <1> QED BY <1>c, <1>2, <1>3, <1>4, <1>5, <1>6, <1>7

LEMMA MediaBegins == ASSUME Media!Init PROVE MediaInv
  <1>1. /\ media = [c \in Contexts |-> "idle"] /\ asked = [c \in Contexts |-> FALSE]
        /\ left = [c \in Contexts |-> {}] /\ own = [c \in Contexts |-> {}]
        /\ attached = [c \in Contexts |-> [p \in Patterns |-> 0]]
        /\ recorded = {} /\ stale = {} /\ partial = {} /\ MaxRoutes \in Nat
    BY RequestAssumption DEF Media!Init
  <1> QED BY <1>1 DEF MediaInv, MediaTypes, ContextSound, RecordFollowed, RoutesSound, Blocked

LEMMA MediaAreAsAsked ==
    ASSUME MediaInv PROVE Media!TypeOK /\ Media!BlockedAsAsked /\ Media!MediaAsAsked
  <1>1. Media!TypeOK
    BY DEF MediaInv, MediaTypes, ContextSound, RecordFollowed, RoutesSound, Media!TypeOK
  <1>2. Media!BlockedAsAsked
    <2> SUFFICES ASSUME NEW c \in Contexts \ partial, media[c] = "navigate", asked[c],
                        NEW p \in Patterns
                 PROVE  attached[c][p] > 0
      BY DEF Media!BlockedAsAsked
    <2>1. RecordFollowed(c) /\ RoutesSound(c)
      BY DEF MediaInv, ContextSound
    <2>2. Blocked(c) = Patterns
      BY <2>1 DEF RecordFollowed, Blocked
    <2> QED BY <2>1, <2>2 DEF RoutesSound
  <1>3. Media!MediaAsAsked
    <2> SUFFICES ASSUME NEW c \in Contexts \ stale,
                        media[c] = "solve" \/ (media[c] = "navigate" /\ ~asked[c]),
                        NEW p \in Patterns
                 PROVE  attached[c][p] = 0
      BY DEF Media!MediaAsAsked
    <2>1. RecordFollowed(c) /\ RoutesSound(c)
      BY DEF MediaInv, ContextSound
    <2>2. Blocked(c) = {}
      BY <2>1 DEF RecordFollowed, Blocked
    <2> QED BY <2>1, <2>2 DEF RoutesSound
  <1> QED BY <1>1, <1>2, <1>3

-----------------------------------------------------------------------------
(***************************************************************************)
(* The waits for a challenge.                                              *)
(***************************************************************************)
\* The times are whole numbers.
LEMMA WaitConstants ==
    /\ WaitTimeout \in Nat \ {0} /\ WaitLate \in Nat /\ ClearPoll \in Nat \ {0}
    /\ ResultReserve \in Nat \ {0} /\ IdleCap \in Nat \ {0}
  BY RequestAssumption

WaitTypes ==
    /\ wait_req \in [timeout : 1 .. WaitTimeout, wait : 0 .. WaitTimeout, real : BOOLEAN]
    /\ wait_now \in Nat /\ wait_late \in Nat /\ wait_late <= WaitLate
    /\ waiting \in {"settle", "classify", "solve", "first", "poll", "sleep", "look", "wait", "done"}
    /\ doc \in Waits!Documents /\ status \in BOOLEAN
    /\ {wait_state, seen} \subseteq {"none", "present", "cleared", "blocked", "unknown"}
    /\ budget \in Nat /\ budget <= Waits!Larger(0, wait_req.timeout - ResultReserve)
    /\ waited \in Nat /\ waited <= budget
    /\ nap \in Nat /\ nap <= ClearPoll /\ nap <= waited
    /\ wait_answer \in {"none", "collect", "failed", "remained", "timed_out"}

\* Without what awaits overran the waits keep to the deadline: a solve and a requested wait
\* that begin without any time left get the least timeout there is.
WaitTime ==
    /\ waiting \in {"settle", "classify", "solve"} => wait_now - wait_late <= wait_req.timeout - 1
    /\ waiting # "done" => wait_now - wait_late <= wait_req.timeout
    /\ wait_now - wait_late <= wait_req.timeout + 1

\* The budget and the reserve are what was left when the poll began, so that sleeps which
\* move the clock never count for more than it moved.
PollTime ==
    /\ waiting \in {"settle", "classify", "solve", "first"} => waited = 0
    /\ waiting # "sleep" => nap = 0
    /\ waiting = "sleep" => wait_now + nap <= wait_req.timeout - ResultReserve
    /\ waiting \in {"poll", "sleep", "look"} /\ wait_req.real =>
         wait_req.timeout - wait_now <= budget - (waited - nap) + ResultReserve
    /\ waiting # "done" => wait_answer = "none"
    /\ wait_answer = "remained" =>
         \/ wait_req.timeout - wait_now <= ResultReserve
         \/ ~wait_req.real /\ waited = budget

WaitInv == WaitTypes /\ WaitTime /\ PollTime

\* The clock moves by least at least, and by most at most but for what is overrun.
ClockMoves(least, most) ==
    \E n, l \in Nat : /\ wait_now' = n /\ wait_late' = l /\ l <= WaitLate
                      /\ wait_now + least <= n
                      /\ n - l <= wait_now - wait_late + most

\* An await with a timeout ends; one that is asked to take its time does.
LEMMA PassesMoves ==
    ASSUME WaitTypes, NEW limit \in Nat, Waits!Passes(limit) PROVE ClockMoves(0, limit)
  <1>1. PICK t \in 0 .. limit + WaitLate - wait_late : Waits!Takes(t, limit)
    BY DEF Waits!Passes
  <1>2. wait_now \in Nat /\ wait_late \in Nat /\ wait_late <= WaitLate /\ WaitLate \in Nat /\ t \in Nat
    BY <1>1, WaitConstants DEF WaitTypes
  <1> DEFINE n == wait_now + t
             l == wait_late + (IF 0 < t - limit THEN t - limit ELSE 0)
  <1>3. t <= limit + WaitLate - wait_late /\ wait_now' = n /\ wait_late' = l
    BY <1>1 DEF Waits!Takes, Waits!Larger
  <1>4. /\ n \in Nat /\ l \in Nat /\ l <= WaitLate /\ wait_now + 0 <= n
        /\ n - l <= wait_now - wait_late + limit
    BY <1>2, <1>3
  <1> HIDE DEF n, l
  <1> QED BY <1>3, <1>4 DEF ClockMoves

LEMMA TakesMoves ==
    ASSUME WaitTypes, NEW limit \in Nat, NEW extra \in 0 .. WaitLate,
           Waits!Takes(limit + extra, limit)
    PROVE  ClockMoves(limit, limit)
  <1>2. /\ wait_now \in Nat /\ wait_late \in Nat /\ wait_late <= WaitLate /\ WaitLate \in Nat
        /\ extra \in Nat
    BY WaitConstants DEF WaitTypes
  <1> DEFINE n == wait_now + (limit + extra)
             l == wait_late + (IF 0 < (limit + extra) - limit THEN (limit + extra) - limit ELSE 0)
  <1>3. limit + extra <= limit + WaitLate - wait_late /\ wait_now' = n /\ wait_late' = l
    BY DEF Waits!Takes, Waits!Larger
  <1>4. /\ n \in Nat /\ l \in Nat /\ l <= WaitLate /\ wait_now + limit <= n
        /\ n - l <= wait_now - wait_late + limit
    BY <1>2, <1>3
  <1> HIDE DEF n, l
  <1> QED BY <1>3, <1>4 DEF ClockMoves

LEMMA RestsMoves ==
    ASSUME WaitTypes, UNCHANGED <<wait_now, wait_late>> PROVE ClockMoves(0, 0)
  BY WaitConstants DEF WaitTypes, ClockMoves

\* A look at the page moves the clock by what it overruns, and sees what is there.
LEMMA LookSees ==
    ASSUME WaitTypes, NEW forbidden \in BOOLEAN, Waits!Look(forbidden)
    PROVE  /\ ClockMoves(0, 0)
           /\ doc' \in Waits!Documents
           /\ seen' \in {"present", "cleared", "blocked", "unknown"}
           /\ doc' = "challenge" => seen' \notin Waits!Resolved
  <1>1. ClockMoves(0, 0)
    BY PassesMoves DEF Waits!Look
  <1>2. PICK d \in Waits!Documents, title \in {doc = "challenge", FALSE} :
          doc' = d /\ seen' \in {Waits!Reads(title, d, forbidden), Waits!Unread(title)}
    BY DEF Waits!Look
  <1>3. /\ Waits!Reads(title, d, forbidden) \in {"present", "cleared", "blocked"}
        /\ Waits!Unread(title) \in {"present", "unknown"}
        /\ d = "challenge" => Waits!Reads(title, d, forbidden) = "present"
    BY DEF Waits!Reads, Waits!Unread
  <1> QED BY <1>1, <1>2, <1>3 DEF Waits!Resolved

LEMMA WaitKeeps == ASSUME WaitInv, Waits!Next PROVE WaitInv'
  <1>t. WaitTypes /\ WaitTime /\ PollTime
    BY DEF WaitInv
  <1>n. /\ wait_req.timeout \in Nat \ {0} /\ wait_req.timeout <= WaitTimeout
        /\ wait_req.wait \in Nat /\ wait_req.real \in BOOLEAN
        /\ wait_now \in Nat /\ wait_late \in Nat
        /\ budget \in Nat /\ waited \in Nat /\ nap \in Nat
        /\ budget <= Waits!Larger(0, wait_req.timeout - ResultReserve)
        /\ waited <= budget /\ nap <= waited /\ nap <= ClearPoll
    BY <1>t, WaitConstants DEF WaitTypes, Waits!Smaller, Waits!Larger
  <1>1. CASE Waits!Settle
    <2>1. /\ waiting = "settle" /\ waiting' = "classify"
          /\ UNCHANGED <<wait_req, doc, status, wait_state, seen, budget, waited, nap, wait_answer>>
      BY <1>1 DEF Waits!Settle, Waits!poll
    <2> DEFINE rest == Waits!Smaller(ResultReserve, Waits!Larger(1, wait_req.timeout \div 2))
               limit == Waits!Smaller(IdleCap, Waits!Unspent - rest)
    <2>2. (limit <= 0 /\ UNCHANGED <<wait_now, wait_late>>) \/ (~(limit <= 0) /\ Waits!Passes(limit))
      BY <1>1 DEF Waits!Settle, Waits!clock
    <2>3. rest \in Int /\ rest >= 1
      <3>1. wait_req.timeout \div 2 \in Int
        BY <1>n
      <3> QED BY <3>1, WaitConstants DEF Waits!Smaller, Waits!Larger
    <2> HIDE DEF rest
    <2>4. limit \in Int /\ limit <= wait_req.timeout - wait_now - 1
      BY <2>3, <1>n, WaitConstants DEF Waits!Smaller, Waits!Unspent
    <2> HIDE DEF limit
    <2>5. ClockMoves(0, IF limit <= 0 THEN 0 ELSE limit)
      <3>1. CASE limit <= 0
        BY <2>2, <3>1, <1>t, RestsMoves
      <3>2. CASE ~(limit <= 0)
        BY <2>2, <2>4, <3>2, <1>t, PassesMoves
      <3> QED BY <3>1, <3>2
    <2>6. PICK n \in Nat, l \in Nat :
          /\ wait_now' = n /\ wait_late' = l /\ l <= WaitLate
          /\ wait_now + 0 <= n /\ n - l <= wait_now - wait_late + (IF limit <= 0 THEN 0 ELSE limit)
      BY <2>5 DEF ClockMoves
    <2>7. n - l <= wait_req.timeout - 1
      <3>1. wait_now - wait_late <= wait_req.timeout - 1
        BY <2>1, <1>t DEF WaitTime
      <3> QED BY <2>4, <2>6, <3>1, <1>n
    <2>8. WaitTypes'
      BY <2>1, <2>6, <1>t DEF WaitTypes
    <2>9. WaitTime'
      BY <2>1, <2>6, <2>7, <1>n DEF WaitTime
    <2>10. PollTime'
      BY <2>1, <1>t DEF PollTime
    <2> QED BY <2>8, <2>9, <2>10 DEF WaitInv
  <1>2. CASE Waits!Classify
    <2>1. /\ waiting = "classify" /\ waiting' \in {"solve", "wait"} /\ Waits!Look(status)
          /\ wait_state' = seen'
          /\ UNCHANGED <<wait_req, status, budget, waited, nap, wait_answer>>
      BY <1>2 DEF Waits!Classify, Waits!poll
    <2>2. status \in BOOLEAN
      BY <1>t DEF WaitTypes
    <2>3. /\ ClockMoves(0, 0) /\ doc' \in Waits!Documents
          /\ seen' \in {"present", "cleared", "blocked", "unknown"}
      BY <2>1, <2>2, <1>t, LookSees
    <2>4. PICK n \in Nat, l \in Nat :
          /\ wait_now' = n /\ wait_late' = l /\ l <= WaitLate
          /\ wait_now + 0 <= n /\ n - l <= wait_now - wait_late + 0
      BY <2>3 DEF ClockMoves
    <2>5. n - l <= wait_req.timeout - 1
      <3>1. wait_now - wait_late <= wait_req.timeout - 1
        BY <2>1, <1>t DEF WaitTime
      <3> QED BY <2>4, <3>1, <1>n
    <2>6. WaitTypes'
      BY <2>1, <2>3, <2>4, <1>t DEF WaitTypes
    <2>7. WaitTime'
      BY <2>1, <2>4, <2>5, <1>n DEF WaitTime
    <2>8. PollTime'
      BY <2>1, <1>t DEF PollTime
    <2> QED BY <2>6, <2>7, <2>8 DEF WaitInv
  <1>3. CASE Waits!Solve
    <2>1. /\ waiting = "solve" /\ Waits!Passes(Waits!Remaining)
          /\ UNCHANGED <<wait_req, doc, status, wait_state, seen, budget, waited, nap>>
          /\ \/ waiting' = "first" /\ wait_answer' = wait_answer
             \/ waiting' = "done" /\ wait_answer' \in {"failed", "timed_out"}
      BY <1>3 DEF Waits!Solve, Waits!poll, Waits!End
    <2>2. /\ Waits!Remaining \in Nat
          /\ Waits!Remaining <= 1 \/ Waits!Remaining = wait_req.timeout - wait_now
      BY <1>n DEF Waits!Remaining, Waits!Larger, Waits!Unspent
    <2>3. PICK n \in Nat, l \in Nat :
          /\ wait_now' = n /\ wait_late' = l /\ l <= WaitLate
          /\ wait_now + 0 <= n /\ n - l <= wait_now - wait_late + Waits!Remaining
      BY <2>1, <2>2, <1>t, PassesMoves DEF ClockMoves
    <2>4. n - l <= wait_req.timeout
      <3>1. wait_now - wait_late <= wait_req.timeout - 1
        BY <2>1, <1>t DEF WaitTime
      <3> QED BY <2>2, <2>3, <3>1, <1>n
    <2>6. WaitTypes'
      BY <2>1, <2>3, <1>t DEF WaitTypes
    <2>7. WaitTime'
      BY <2>1, <2>3, <2>4, <1>n DEF WaitTime
    <2>8. PollTime'
      BY <2>1, <1>t DEF PollTime
    <2> QED BY <2>6, <2>7, <2>8 DEF WaitInv
  <1>4. CASE Waits!FirstLook
    <2> DEFINE span == Waits!Larger(1, wait_req.timeout - wait_now')
               begun == Waits!Larger(0, span - ResultReserve)
    <2>1. /\ waiting = "first" /\ Waits!Look(FALSE)
          /\ \/ waiting' = "wait" /\ budget' = budget
             \/ waiting' = "poll" /\ budget' = begun
          /\ UNCHANGED <<wait_req, status, wait_state, waited, nap, wait_answer>>
      BY <1>4 DEF Waits!FirstLook
    <2>0. /\ ClockMoves(0, 0) /\ doc' \in Waits!Documents
          /\ seen' \in {"present", "cleared", "blocked", "unknown"}
      BY <2>1, <1>t, LookSees
    <2>2. PICK n \in Nat, l \in Nat :
          /\ wait_now' = n /\ wait_late' = l /\ l <= WaitLate
          /\ wait_now + 0 <= n /\ n - l <= wait_now - wait_late + 0
      BY <2>0 DEF ClockMoves
    <2>3. /\ begun \in Nat /\ begun <= Waits!Larger(0, wait_req.timeout - ResultReserve)
          /\ wait_req.timeout - n <= begun + ResultReserve
      BY <2>2, <1>n, WaitConstants DEF Waits!Larger
    <2>4. waited = 0 /\ nap = 0
      BY <2>1, <1>t DEF PollTime
    <2> HIDE DEF begun
    <2>5. /\ budget' \in Nat /\ budget' <= Waits!Larger(0, wait_req.timeout - ResultReserve)
          /\ waiting' = "poll" => budget' = begun
      BY <2>1, <2>3, <1>t DEF WaitTypes
    <2>6. WaitTypes'
      <3>1. /\ waited' \in Nat /\ waited' <= budget'
            /\ nap' \in Nat /\ nap' <= ClearPoll /\ nap' <= waited'
        BY <2>1, <2>4, <2>5, WaitConstants
      <3> QED BY <2>0, <2>1, <2>2, <2>5, <3>1, <1>t DEF WaitTypes
    <2>7. WaitTime'
      <3>1. wait_now - wait_late <= wait_req.timeout
        BY <2>1, <1>t DEF WaitTime
      <3>2. n - l <= wait_req.timeout
        BY <2>2, <3>1, <1>n
      <3> QED BY <2>1, <2>2, <3>2, <1>n DEF WaitTime
    <2>8. PollTime'
      <3>1. wait_req.timeout - n <= begun - (0 - 0) + ResultReserve
        BY <2>3, WaitConstants
      <3>2. waiting' = "poll" =>
              wait_req.timeout - wait_now' <= budget' - (waited' - nap') + ResultReserve
        BY <2>1, <2>2, <2>4, <2>5, <3>1
      <3>3. wait_answer' = "none"
        BY <2>1, <1>t DEF PollTime
      <3> QED BY <2>1, <2>4, <3>2, <3>3, <1>t DEF PollTime
    <2> QED BY <2>6, <2>7, <2>8 DEF WaitInv
  <1>5. CASE Waits!PollStep
    <2>1. waiting = "poll"
          /\ UNCHANGED <<wait_req, wait_now, wait_late, doc, status, wait_state, seen, budget>>
      BY <1>5 DEF Waits!PollStep, Waits!clock
    <2>2. nap = 0 /\ wait_answer = "none"
      BY <2>1, <1>t DEF PollTime
    <2>3. /\ Waits!Step \in Int /\ Waits!Step <= ClearPoll /\ Waits!Step <= budget - waited
          /\ Waits!Step <= Waits!Remaining - ResultReserve
          /\ Waits!Step \in {ClearPoll, budget - waited, Waits!Remaining - ResultReserve}
          /\ Waits!Remaining \in Nat
          /\ Waits!Remaining = 1 \/ Waits!Remaining = wait_req.timeout - wait_now
          /\ Waits!Remaining >= wait_req.timeout - wait_now
      BY <1>n, WaitConstants
      DEF Waits!Step, Waits!Smaller, Waits!Remaining, Waits!Larger, Waits!Unspent
    <2>4. CASE Waits!GivesUp
      <3>1. waiting' = "done" /\ wait_answer' = "remained" /\ waited' = waited /\ nap' = nap
        BY <1>5, <2>4 DEF Waits!PollStep, Waits!End
      <3>2. \/ wait_req.timeout - wait_now <= ResultReserve
            \/ ~wait_req.real /\ waited = budget
        <4>1. waited = budget \/ Waits!Remaining - ResultReserve <= 0
          BY <2>3, <2>4, <1>n, WaitConstants DEF Waits!GivesUp
        <4>2. CASE Waits!Remaining - ResultReserve <= 0
          BY <2>3, <4>2, <1>n, WaitConstants
        <4>3. CASE waited = budget
          <5>1. wait_req.real => wait_req.timeout - wait_now <= budget - (waited - nap) + ResultReserve
            BY <2>1, <1>t DEF PollTime
          <5> QED BY <2>2, <4>3, <5>1, <1>n, WaitConstants
        <4> QED BY <4>1, <4>2, <4>3
      <3>3. WaitTypes'
        BY <2>1, <3>1, <1>t DEF WaitTypes
      <3>4. WaitTime'
        BY <2>1, <3>1, <1>t DEF WaitTime
      <3>5. PollTime'
        BY <2>1, <2>2, <3>1, <3>2 DEF PollTime
      <3> QED BY <3>3, <3>4, <3>5 DEF WaitInv
    <2>5. CASE ~Waits!GivesUp
      <3>1. PICK step \in Int :
              /\ step > 0 /\ step <= ClearPoll /\ step <= budget - waited
              /\ step <= Waits!Remaining - ResultReserve
              /\ waiting' = "sleep" /\ nap' = step /\ waited' = waited + step
              /\ wait_answer' = wait_answer
        BY <1>5, <2>3, <2>5 DEF Waits!PollStep, Waits!Counted, Waits!GivesUp
      <3>2. /\ step \in Nat /\ waited + step \in Nat /\ waited + step <= budget
            /\ step <= waited + step /\ wait_now + step <= wait_req.timeout - ResultReserve
        BY <2>3, <3>1, <1>n, WaitConstants
      <3>3. WaitTypes'
        BY <2>1, <2>2, <3>1, <3>2, <1>t DEF WaitTypes
      <3>4. WaitTime'
        BY <2>1, <3>1, <1>t DEF WaitTime
      <3>5. wait_req.real =>
              wait_req.timeout - wait_now <= budget - ((waited + step) - step) + ResultReserve
        <4>1. wait_req.real => wait_req.timeout - wait_now <= budget - (waited - nap) + ResultReserve
          BY <2>1, <1>t DEF PollTime
        <4> QED BY <2>2, <3>2, <4>1, <1>n, WaitConstants
      <3>6. PollTime'
        BY <2>1, <2>2, <3>1, <3>2, <3>5 DEF PollTime
      <3> QED BY <3>3, <3>4, <3>6 DEF WaitInv
    <2> QED BY <2>4, <2>5
  <1>6. CASE Waits!Sleep
    <2>1. /\ waiting = "sleep" /\ waiting' = "look" /\ nap' = 0
          /\ UNCHANGED <<wait_req, doc, status, wait_state, seen, budget, waited, wait_answer>>
      BY <1>6 DEF Waits!Sleep
    <2>2. ClockMoves(IF wait_req.real THEN nap ELSE 0, nap)
      <3>1. CASE wait_req.real
        <4>1. PICK extra \in 0 .. WaitLate : Waits!Takes(nap + extra, nap)
          BY <1>6, <3>1 DEF Waits!Sleep
        <4> QED BY <3>1, <4>1, <1>t, <1>n, TakesMoves
      <3>2. CASE ~wait_req.real
        <4>1. ClockMoves(0, 0)
          BY <1>6, <3>2, <1>t, RestsMoves DEF Waits!Sleep, Waits!clock
        <4> QED BY <3>2, <4>1, <1>n DEF ClockMoves
      <3> QED BY <3>1, <3>2
    <2>3. PICK n \in Nat, l \in Nat :
          /\ wait_now' = n /\ wait_late' = l /\ l <= WaitLate
          /\ wait_now + (IF wait_req.real THEN nap ELSE 0) <= n /\ n - l <= wait_now - wait_late + nap
      BY <2>2 DEF ClockMoves
    <2>4. n - l <= wait_req.timeout
      <3>1. wait_now + nap <= wait_req.timeout - ResultReserve
        BY <2>1, <1>t DEF PollTime
      <3> QED BY <2>3, <3>1, <1>n, WaitConstants
    <2>5. wait_req.real => wait_req.timeout - n <= budget - (waited - 0) + ResultReserve
      <3>1. wait_req.real => wait_req.timeout - wait_now <= budget - (waited - nap) + ResultReserve
        BY <2>1, <1>t DEF PollTime
      <3> QED BY <2>3, <3>1, <1>n, WaitConstants
    <2>6. WaitTypes'
      <3>1. nap' \in Nat /\ nap' <= ClearPoll /\ nap' <= waited'
        BY <2>1, <1>n, WaitConstants
      <3> QED BY <2>1, <2>3, <3>1, <1>t DEF WaitTypes
    <2>7. WaitTime'
      BY <2>1, <2>3, <2>4, <1>n DEF WaitTime
    <2>8. PollTime'
      BY <2>1, <2>3, <2>5, <1>t DEF PollTime
    <2> QED BY <2>6, <2>7, <2>8 DEF WaitInv
  <1>7. CASE Waits!LookAgain
    <2>1. /\ waiting = "look" /\ Waits!Look(FALSE) /\ waiting' \in {"wait", "poll"}
          /\ UNCHANGED <<wait_req, status, wait_state, budget, waited, nap, wait_answer>>
      BY <1>7 DEF Waits!LookAgain, Waits!poll
    <2>2. /\ ClockMoves(0, 0) /\ doc' \in Waits!Documents
          /\ seen' \in {"present", "cleared", "blocked", "unknown"}
      BY <2>1, <1>t, LookSees
    <2>3. PICK n \in Nat, l \in Nat :
          /\ wait_now' = n /\ wait_late' = l /\ l <= WaitLate
          /\ wait_now + 0 <= n /\ n - l <= wait_now - wait_late + 0
      BY <2>2 DEF ClockMoves
    <2>4. n - l <= wait_req.timeout
      <3>1. wait_now - wait_late <= wait_req.timeout
        BY <2>1, <1>t DEF WaitTime
      <3> QED BY <2>3, <3>1, <1>n
    <2>5. wait_req.real => wait_req.timeout - n <= budget - (waited - nap) + ResultReserve
      <3>1. wait_req.real => wait_req.timeout - wait_now <= budget - (waited - nap) + ResultReserve
        BY <2>1, <1>t DEF PollTime
      <3> QED BY <2>3, <3>1, <1>n, WaitConstants
    <2>6. WaitTypes'
      BY <2>1, <2>2, <2>3, <1>t DEF WaitTypes
    <2>7. WaitTime'
      BY <2>1, <2>3, <2>4, <1>n DEF WaitTime
    <2>8. PollTime'
      BY <2>1, <2>3, <2>5, <1>t DEF PollTime
    <2> QED BY <2>6, <2>7, <2>8 DEF WaitInv
  <1>8. CASE Waits!WaitRequested
    <2>1. /\ waiting = "wait" /\ waiting' = "done" /\ wait_answer' \in {"collect", "timed_out"}
          /\ UNCHANGED <<wait_req, doc, status, wait_state, seen, budget, waited, nap>>
      BY <1>8 DEF Waits!WaitRequested, Waits!End, Waits!poll
    <2> DEFINE limit == Waits!Smaller(wait_req.wait, Waits!Remaining)
    <2>2. \/ UNCHANGED <<wait_now, wait_late>>
          \/ \E extra \in 0 .. WaitLate : Waits!Takes(limit + extra, limit)
      BY <1>8 DEF Waits!WaitRequested, Waits!clock
    <2>3. limit \in Nat /\ (limit <= 1 \/ limit <= wait_req.timeout - wait_now)
      BY <1>n DEF Waits!Smaller, Waits!Remaining, Waits!Larger, Waits!Unspent
    <2> HIDE DEF limit
    <2>4. ClockMoves(0, limit)
      <3>1. CASE UNCHANGED <<wait_now, wait_late>>
        <4>1. ClockMoves(0, 0)
          BY <3>1, <1>t, RestsMoves
        <4> QED BY <2>3, <4>1, <1>n DEF ClockMoves
      <3>2. CASE \E extra \in 0 .. WaitLate : Waits!Takes(limit + extra, limit)
        <4>1. ClockMoves(limit, limit)
          BY <2>3, <3>2, <1>t, TakesMoves
        <4> QED BY <2>3, <4>1, <1>n DEF ClockMoves
      <3> QED BY <2>2, <3>1, <3>2
    <2>5. PICK n \in Nat, l \in Nat :
          /\ wait_now' = n /\ wait_late' = l /\ l <= WaitLate
          /\ wait_now + 0 <= n /\ n - l <= wait_now - wait_late + limit
      BY <2>4 DEF ClockMoves
    <2>6. n - l <= wait_req.timeout + 1
      <3>1. wait_now - wait_late <= wait_req.timeout
        BY <2>1, <1>t DEF WaitTime
      <3> QED BY <2>3, <2>5, <3>1, <1>n
    <2>7. WaitTypes'
      BY <2>1, <2>5, <1>t DEF WaitTypes
    <2>8. WaitTime'
      BY <2>1, <2>5, <2>6 DEF WaitTime
    <2>9. PollTime'
      BY <2>1, <1>t DEF PollTime
    <2> QED BY <2>7, <2>8, <2>9 DEF WaitInv
  <1> QED BY <1>1, <1>2, <1>3, <1>4, <1>5, <1>6, <1>7, <1>8 DEF Waits!Next

LEMMA WaitBegins == ASSUME WaitRests \/ Waits!Init PROVE WaitInv
  <1>1. CASE WaitRests
    <2>1. /\ wait_req = [timeout |-> 1, wait |-> 0, real |-> TRUE]
          /\ wait_now = 0 /\ wait_late = 0 /\ waiting = "done" /\ wait_answer = "collect"
          /\ doc = "page" /\ status = FALSE /\ wait_state = "cleared" /\ seen = "cleared"
          /\ budget = 0 /\ waited = 0 /\ nap = 0
      BY <1>1 DEF WaitRests
    <2>2. WaitTypes
      <3>1. 0 <= Waits!Larger(0, 1 - ResultReserve) /\ 1 \in 1 .. WaitTimeout /\ 0 \in 0 .. WaitTimeout
        BY WaitConstants DEF Waits!Larger
      <3>2. /\ wait_req \in [timeout : 1 .. WaitTimeout, wait : 0 .. WaitTimeout, real : BOOLEAN]
            /\ wait_req.timeout = 1
        BY <2>1, <3>1
      <3>3. 0 <= Waits!Larger(0, wait_req.timeout - ResultReserve)
        BY <3>1, <3>2
      <3>4. wait_now \in Nat /\ wait_late \in Nat /\ wait_late <= WaitLate
        BY <2>1, WaitConstants
      <3>5. /\ budget \in Nat /\ budget <= Waits!Larger(0, wait_req.timeout - ResultReserve)
            /\ waited \in Nat /\ waited <= budget
            /\ nap \in Nat /\ nap <= ClearPoll /\ nap <= waited
        BY <2>1, <3>3, WaitConstants
      <3>6. /\ doc \in Waits!Documents /\ status \in BOOLEAN
            /\ {wait_state, seen} \subseteq {"none", "present", "cleared", "blocked", "unknown"}
        BY <2>1 DEF Waits!Documents
      <3> QED BY <2>1, <3>2, <3>4, <3>5, <3>6 DEF WaitTypes
    <2>3. WaitTime /\ PollTime
      BY <2>1 DEF WaitTime, PollTime
    <2> QED BY <2>2, <2>3 DEF WaitInv
  <1>2. CASE Waits!Init
    <2>1. /\ wait_req \in [timeout : 1 .. WaitTimeout, wait : {0, 1, WaitTimeout}, real : BOOLEAN]
          /\ wait_now \in 0 .. wait_req.timeout - 1 /\ wait_late = 0 /\ waiting = "settle"
          /\ wait_answer = "none" /\ doc \in Waits!Documents /\ status \in BOOLEAN
          /\ wait_state = "none" /\ seen = "none" /\ budget = 0 /\ waited = 0 /\ nap = 0
      BY <1>2 DEF Waits!Init
    <2>2. wait_req \in [timeout : 1 .. WaitTimeout, wait : 0 .. WaitTimeout, real : BOOLEAN]
      BY <2>1, WaitConstants
    <2>3. WaitTypes
      BY <2>1, <2>2, WaitConstants DEF WaitTypes, Waits!Smaller, Waits!Larger
    <2>4. WaitTime /\ PollTime
      BY <2>1, <2>2, WaitConstants DEF WaitTime, PollTime
    <2> QED BY <2>3, <2>4 DEF WaitInv
  <1> QED BY <1>1, <1>2

LEMMA WaitsAreUsed == ASSUME WaitInv PROVE WaitsUseTheirTime
  <1>1. WaitTypes /\ WaitTime /\ PollTime
    BY DEF WaitInv
  <1>2. wait_now \in 0 .. wait_req.timeout + WaitLate + 1
    BY <1>1, WaitConstants DEF WaitTypes, WaitTime
  <1>3. budget \in 0 .. Waits!Larger(0, wait_req.timeout - ResultReserve)
    BY <1>1, WaitConstants DEF WaitTypes, Waits!Larger
  <1>4. waited \in 0 .. budget /\ nap \in 0 .. Waits!Smaller(ClearPoll, waited)
    BY <1>1, WaitConstants DEF WaitTypes, Waits!Smaller
  <1>5. Waits!TypeOK
    BY <1>1, <1>2, <1>3, <1>4, WaitConstants DEF WaitTypes, Waits!TypeOK
  <1>6. Waits!SleepKeepsReserve /\ Waits!PollsToTheReserve
    BY <1>1 DEF PollTime, Waits!SleepKeepsReserve, Waits!PollsToTheReserve, Waits!Unspent
  <1> QED BY <1>5, <1>6 DEF WaitsUseTheirTime

\* The poll ends as cleared only on what it saw.
LEMMA LooksAreSeen ==
    ASSUME WaitInv, Waits!Next, waiting \in {"first", "look"}, waiting' = "wait"
    PROVE  doc' # "challenge"
  <1>1. Waits!FirstLook \/ Waits!LookAgain
    BY DEF Waits!Next, Waits!Settle, Waits!Classify, Waits!Solve, Waits!PollStep, Waits!Sleep,
           Waits!WaitRequested
  <1>2. Waits!Look(FALSE) /\ seen' \in Waits!Resolved
    BY <1>1 DEF Waits!FirstLook, Waits!LookAgain
  <1> QED BY <1>2, LookSees DEF WaitInv

-----------------------------------------------------------------------------
(***************************************************************************)
(* The time of a navigation.                                               *)
(***************************************************************************)
LEMMA NavigationConstants ==
    /\ StageCap \in Nat \ {0} /\ ResultReserve \in Nat \ {0}
    /\ NavigationTimeout \in Nat \ {0} /\ NavigationLate \in Nat
  BY RequestAssumption

NavigationRequests ==
    [timeout : 1 .. NavigationTimeout, start : 0 .. NavigationTimeout, direct : BOOLEAN,
     kind : {"plain", "ajax", "headers", "headers_screenshot"}]

\* What the collection of the result is left.
Kept(r) ==
    Navigate!Smaller(Navigate!ResultReserveOf(r.timeout),
                     Navigate!Larger(1, (r.timeout - r.start) \div 2))

\* What a fallback after a timeout is left of the time from began to the deadline nv.
Share(nv, bg) == Navigate!Smaller(StageCap, (nv - bg) \div 2)

\* Without what stages overran, the time n - l keeps to the deadline of the stage; only the
\* last attempt, which may begin with nothing left, takes the least timeout past it.
TimeAt(r, at, n, l, nv, b, bg, told) ==
    /\ n \in Nat /\ l \in Nat /\ l <= NavigationLate /\ r.start <= n
    /\ nv \in Nat /\ b \in Nat /\ b <= nv /\ bg \in Nat /\ bg <= n
    /\ nv # 0 => nv = r.timeout - Kept(r) /\ r.start < nv
    /\ nv = 0 => at \in {"enter", "done"} /\ n = r.start /\ l = 0
    /\ at = "enter" => nv = 0
    /\ at \in {"origin", "first"} => n < nv
    /\ at \in {"plan", "closed"} => n - l <= nv
    /\ at = "goto" => b - n >= 2
    /\ at = "commit" => n - l <= b - 1
    /\ at = "timeout" => n - l <= b /\ n < nv
    /\ at \in {"goto", "commit", "timeout"} /\ r.direct /\ r.kind = "ajax" =>
         b <= nv - Share(nv, bg)
    /\ at = "done" /\ nv # 0 => n - l <= nv + (IF told = <<>> THEN 0 ELSE 1)

NavigationTime == TimeAt(nav_req, stage, nav_now, nav_late, nav, brw, began, emitted)

\* The words of the story have their types; what they say of an end and on the way.
StoryTypes ==
    /\ nav_req \in NavigationRequests /\ nav_req.start <= nav_req.timeout
    /\ stage \in {"enter", "origin", "first", "plan", "goto", "commit", "timeout", "closed", "done"}
    /\ committed \in BOOLEAN /\ early \in BOOLEAN /\ marked \in BOOLEAN
    /\ error \in SUBSET {"timeout", "closed"} /\ raised \subseteq Navigate!ErrorKinds
    /\ nav_answer \in {"none", "page", "direct", "raised"}
    /\ emitted \in {<<>>, <<TRUE>>, <<FALSE>>}
    /\ stage = "done" <=> nav_answer # "none"

StoryGoesOn ==
    /\ stage # "done" => emitted = <<>> /\ raised = {}
    /\ early => stage \in {"commit", "closed", "done"}
    /\ early /\ stage = "commit" => committed
    /\ stage = "closed" => "closed" \in error
    /\ stage = "timeout" => nav_req.direct /\ nav_req.kind = "ajax"

NavigationStory ==
    StoryTypes /\ StoryGoesOn /\ Navigate!CommittedPageStays /\ Navigate!ErrorsReported

NavigationInv == NavigationStory /\ NavigationTime

\* Nothing is left of a deadline by halving it that was not there.
LEMMA KeptIsLeft ==
    ASSUME NEW r \in NavigationRequests, r.start <= r.timeout
    PROVE  /\ Kept(r) \in Nat /\ Kept(r) >= 1
           /\ r.timeout \in Nat /\ r.timeout >= 1 /\ r.start \in Nat
           /\ r.timeout <= NavigationTimeout
  <1>1. r.timeout \in 1 .. NavigationTimeout /\ r.start \in 0 .. NavigationTimeout
    BY DEF NavigationRequests
  <1>2. r.timeout \div 2 \in Nat /\ (r.timeout - r.start) \div 2 \in Nat
    BY <1>1, NavigationConstants
  <1> QED
    BY <1>1, <1>2, NavigationConstants
    DEF Kept, Navigate!ResultReserveOf, Navigate!Smaller, Navigate!Larger

\* The clock moves by limit at most but for what is overrun.
NavigationMoves(limit) ==
    \E n, l \in Nat : /\ nav_now' = n /\ nav_late' = l /\ l <= NavigationLate
                      /\ nav_now <= n
                      /\ n - l <= nav_now - nav_late + limit

LEMMA NavigationPasses ==
    ASSUME NavigationTime, NEW limit \in Nat, Navigate!Passes(limit)
    PROVE  NavigationMoves(limit)
  <1>1. /\ nav_now \in Nat /\ nav_late \in Nat /\ nav_late <= NavigationLate
        /\ NavigationLate \in Nat
    BY NavigationConstants DEF NavigationTime, TimeAt
  <1>2. PICK t \in 0 .. limit + NavigationLate - nav_late :
          /\ nav_now' = nav_now + t
          /\ nav_late' = nav_late + Navigate!Larger(0, t - limit)
    BY DEF Navigate!Passes
  <1> DEFINE n == nav_now + t
             l == nav_late + (IF 0 < t - limit THEN t - limit ELSE 0)
  <1>3. t \in Nat /\ t <= limit + NavigationLate - nav_late /\ nav_now' = n /\ nav_late' = l
    BY <1>1, <1>2 DEF Navigate!Larger
  <1>4. /\ n \in Nat /\ l \in Nat /\ l <= NavigationLate /\ nav_now <= n
        /\ n - l <= nav_now - nav_late + limit
    BY <1>1, <1>3
  <1> HIDE DEF n, l
  <1> QED BY <1>3, <1>4 DEF NavigationMoves

\* A direct attempt takes what is left of the navigation, and a unit if nothing is.
LEMMA DirectMoves ==
    ASSUME NavigationTime, NEW label, Navigate!Direct(label)
    PROVE  /\ stage = label
           /\ UNCHANGED <<nav_req, nav, brw, began, committed, early>>
           /\ \E n, l \in Nat : /\ nav_now' = n /\ nav_late' = l /\ l <= NavigationLate
                                /\ nav_now <= n
                                /\ n - l <= nav - nav_late \/ n - l <= nav_now - nav_late + 1
                                /\ nav_now < nav => n - l <= nav - nav_late
  <1>1. nav_now \in Nat /\ nav_late \in Nat /\ nav \in Nat
    BY DEF NavigationTime, TimeAt
  <1> DEFINE limit == Navigate!Larger(1, Navigate!Unspent(nav))
  <1>2. /\ limit = 1 \/ limit = nav - nav_now
        /\ nav_now < nav => limit = nav - nav_now
    BY <1>1 DEF Navigate!Larger, Navigate!Unspent
  <1>3. limit \in Nat
    BY <1>1 DEF Navigate!Larger, Navigate!Unspent
  <1>4. stage = label /\ Navigate!Passes(limit)
        /\ UNCHANGED <<nav_req, nav, brw, began, committed, early>>
    BY DEF Navigate!Direct, Navigate!plan, Navigate!pageVars
  <1> HIDE DEF limit
  <1>5. PICK n \in Nat, l \in Nat :
          /\ nav_now' = n /\ nav_late' = l /\ l <= NavigationLate /\ nav_now <= n
          /\ n - l <= nav_now - nav_late + limit
    BY <1>3, <1>4, NavigationPasses DEF NavigationMoves
  <1>6. /\ n - l <= nav - nav_late \/ n - l <= nav_now - nav_late + 1
        /\ nav_now < nav => n - l <= nav - nav_late
    BY <1>1, <1>2, <1>3, <1>5
  <1> QED BY <1>4, <1>5, <1>6

\* The deadline of a navigation that begins.
LEMMA NavigationDeadline ==
    ASSUME NEW r \in NavigationRequests, r.start <= r.timeout,
           r = nav_req, nav_now = r.start
    PROVE  \/ Navigate!NavigationEnd = 0
           \/ /\ Navigate!NavigationEnd = r.timeout - Kept(r)
              /\ r.start < Navigate!NavigationEnd
  <1>1. Kept(r) \in Nat /\ r.timeout \in Nat /\ r.start \in Nat
    BY KeptIsLeft
  <1>2. Navigate!NavigationEnd = Navigate!Keeping(r.timeout, Kept(r))
    BY DEF Navigate!NavigationEnd, Navigate!Unspent, Kept
  <1> QED BY <1>1, <1>2 DEF Navigate!Keeping, Navigate!Unspent, Navigate!Larger

\* The deadline of the browser's stages leaves the fallback its share.
LEMMA BrowserDeadline ==
    ASSUME NavigationTime, Navigate!BrowserEnd # 0
    PROVE  /\ Navigate!BrowserEnd \in Nat /\ Navigate!BrowserEnd <= nav
           /\ nav_req.direct /\ nav_req.kind = "ajax" =>
                Navigate!BrowserEnd <= nav - Share(nav, nav_now)
  <1>1. nav_now \in Nat /\ nav \in Nat
    BY DEF NavigationTime, TimeAt
  <1>2. CASE nav_req.direct /\ nav_req.kind = "ajax"
    <2> DEFINE left0 == Navigate!Larger(0, nav - nav_now)
               kept == Navigate!Smaller(StageCap, left0 \div 2)
    <2>1. Navigate!BrowserEnd = Navigate!Keeping(nav, kept)
      BY <1>2 DEF Navigate!BrowserEnd, Navigate!TimeoutFallback, Navigate!Unspent
    <2>2. left0 \in Nat /\ left0 \div 2 \in Nat
      BY <1>1 DEF Navigate!Larger
    <2>3. kept \in Nat
      BY <2>2, NavigationConstants DEF Navigate!Smaller
    <2>4. nav - nav_now > kept
      BY <2>1, <2>3, <1>1 DEF Navigate!Keeping, Navigate!Unspent
    <2>5. kept = Share(nav, nav_now)
      <3>1. left0 = nav - nav_now
        BY <2>3, <2>4, <1>1 DEF Navigate!Larger
      <3> QED BY <3>1 DEF Share
    <2>6. Navigate!BrowserEnd = nav - kept
      BY <2>1, <2>3, <2>4, <1>1 DEF Navigate!Keeping, Navigate!Unspent, Navigate!Larger
    <2> HIDE DEF kept, left0
    <2>7. nav - kept \in Nat /\ nav - kept <= nav
      BY <2>3, <2>4, <1>1
    <2> QED BY <2>5, <2>6, <2>7
  <1>3. CASE ~(nav_req.direct /\ nav_req.kind = "ajax")
    <2>1. Navigate!BrowserEnd = Navigate!Keeping(nav, 0)
      BY <1>3 DEF Navigate!BrowserEnd, Navigate!TimeoutFallback
    <2>2. Navigate!BrowserEnd \in Nat /\ Navigate!BrowserEnd <= nav
      BY <2>1, <1>1 DEF Navigate!Keeping, Navigate!Unspent, Navigate!Larger
    <2> QED BY <1>3, <2>2
  <1> QED BY <1>2, <1>3

\* The page is still one that may hold a document.
PageKeeps == nav_req' = nav_req /\ committed' \in BOOLEAN /\ early' \in BOOLEAN

LEMMA RaisingEnds ==
    ASSUME NavigationStory, stage # "done", PageKeeps, emitted' = emitted,
           NEW kinds \in SUBSET Navigate!ErrorKinds, "closed" \notin kinds,
           Navigate!Raise(kinds)
    PROVE  NavigationStory'
  <1>1. /\ stage' = "done" /\ nav_answer' = "raised" /\ raised' = kinds
        /\ marked' = marked /\ error' = error /\ emitted' = <<>>
    BY DEF Navigate!Raise, NavigationStory, StoryGoesOn
  <1>2. StoryTypes'
    BY <1>1 DEF NavigationStory, StoryTypes, PageKeeps
  <1>3. StoryGoesOn'
    BY <1>1 DEF StoryGoesOn
  <1>4. Navigate!CommittedPageStays'
    BY <1>1 DEF Navigate!CommittedPageStays
  <1>5. <<>> # <<TRUE>> /\ <<>> # <<FALSE>>
    OBVIOUS
  <1>6. Navigate!ErrorsReported'
    BY <1>1, <1>5 DEF Navigate!ErrorsReported
  <1> QED BY <1>2, <1>3, <1>4, <1>6 DEF NavigationStory

LEMMA ReturningEnds ==
    ASSUME NavigationStory, stage # "done", PageKeeps, emitted' = emitted,
           NEW how \in {"page", "direct"}, NEW fallback \in BOOLEAN,
           how = "page" \/ ~early' \/ "closed" \in error,
           Navigate!Return(how, fallback)
    PROVE  NavigationStory'
  <1>1. /\ stage' = "done" /\ nav_answer' = how /\ raised' = {}
        /\ marked' = fallback /\ error' = error /\ emitted' = <<>>
    BY DEF Navigate!Return, NavigationStory, StoryGoesOn
  <1>2. StoryTypes'
    BY <1>1 DEF NavigationStory, StoryTypes, PageKeeps
  <1>3. StoryGoesOn'
    BY <1>1 DEF StoryGoesOn
  <1>4. Navigate!CommittedPageStays'
    BY <1>1 DEF Navigate!CommittedPageStays
  <1>5. <<>> # <<TRUE>> /\ <<>> # <<FALSE>>
    OBVIOUS
  <1>6. Navigate!ErrorsReported'
    BY <1>1, <1>5 DEF Navigate!ErrorsReported
  <1> QED BY <1>2, <1>3, <1>4, <1>6 DEF NavigationStory

LEMMA StoryGoes ==
    ASSUME NavigationStory, stage # "done", PageKeeps, emitted' = emitted,
           NEW label \in {"origin", "first", "plan", "goto", "commit", "timeout", "closed"},
           error' \in SUBSET {"timeout", "closed"},
           early' => label \in {"commit", "closed"},
           early' /\ label = "commit" => committed',
           label = "closed" => "closed" \in error',
           label = "timeout" => nav_req.direct /\ nav_req.kind = "ajax",
           Navigate!GoTo(label)
    PROVE  NavigationStory'
  <1>1. /\ stage' = label /\ stage' # "done" /\ nav_answer' = "none" /\ raised' = {}
        /\ marked' = marked /\ emitted' = <<>> /\ nav_req' = nav_req
    BY DEF Navigate!GoTo, NavigationStory, StoryGoesOn, StoryTypes, PageKeeps
  <1>2. StoryTypes'
    BY <1>1 DEF NavigationStory, StoryTypes, PageKeeps
  <1>3. StoryGoesOn'
    BY <1>1 DEF StoryGoesOn
  <1>4. Navigate!CommittedPageStays' /\ Navigate!ErrorsReported'
    BY <1>1 DEF Navigate!CommittedPageStays, Navigate!ErrorsReported
  <1> QED BY <1>2, <1>3, <1>4 DEF NavigationStory

\* A failed browser transport is told of once.
LEMMA ReportingEnds ==
    ASSUME NavigationStory, stage # "done", PageKeeps, stage' = "done",
           NEW good \in BOOLEAN, emitted' = Append(emitted, good),
           error' \in SUBSET {"timeout", "closed"}, raised' \subseteq Navigate!ErrorKinds,
           marked' \in BOOLEAN,
           IF good THEN nav_answer' = "direct" /\ marked' = TRUE /\ raised' = {} /\ "closed" \in error'
           ELSE nav_answer' = "raised" /\ raised' \in {error', {"limit"}}
    PROVE  NavigationStory'
  <1>1. emitted' = <<good>>
    <2>1. emitted = <<>>
      BY DEF NavigationStory, StoryGoesOn
    <2> QED BY <2>1
  <1>2. StoryTypes'
    <2>1. emitted' \in {<<>>, <<TRUE>>, <<FALSE>>}
      BY <1>1
    <2> QED BY <2>1 DEF NavigationStory, StoryTypes, PageKeeps
  <1>3. StoryGoesOn'
    BY DEF StoryGoesOn
  <1>4. CASE good
    <2>1. emitted' = <<TRUE>> /\ <<TRUE>> # <<FALSE>>
      BY <1>1, <1>4
    <2>2. nav_answer' = "direct" /\ marked' /\ raised' = {} /\ "closed" \in error'
      BY <1>4
    <2>3. Navigate!CommittedPageStays'
      BY <2>2 DEF Navigate!CommittedPageStays
    <2>4. Navigate!ErrorsReported'
      BY <2>1, <2>2 DEF Navigate!ErrorsReported
    <2> QED BY <1>2, <1>3, <2>3, <2>4 DEF NavigationStory
  <1>5. CASE ~good
    <2>1. emitted' = <<FALSE>> /\ <<TRUE>> # <<FALSE>>
      BY <1>1, <1>5
    <2>2. nav_answer' = "raised" /\ raised' \in {error', {"limit"}}
      BY <1>5
    <2>3. Navigate!CommittedPageStays'
      BY <2>2 DEF Navigate!CommittedPageStays
    <2>4. Navigate!ErrorsReported'
      BY <2>1, <2>2 DEF Navigate!ErrorsReported
    <2> QED BY <1>2, <1>3, <2>3, <2>4 DEF NavigationStory
  <1> QED BY <1>4, <1>5

\* What becomes of the request does not depend on how long its stages took.
LEMMA StoryKeeps ==
    ASSUME NavigationStory, Navigate!Next PROVE NavigationStory'
  <1>s. /\ committed \in BOOLEAN /\ early \in BOOLEAN
        /\ early => stage \in {"commit", "closed", "done"}
        /\ early /\ stage = "commit" => committed
        /\ stage = "closed" => "closed" \in error
        /\ error \in SUBSET {"timeout", "closed"} /\ marked \in BOOLEAN
        /\ stage # "done" => emitted = <<>> /\ raised = {}
        /\ nav_req.kind = "ajax" \/ nav_req.kind # "ajax"
    BY DEF NavigationStory, StoryTypes, StoryGoesOn
  <1>k. Navigate!ErrorKinds = {"timeout", "closed", "limit", "failed", "invalid"}
    BY DEF Navigate!ErrorKinds
  <1>d. ASSUME NEW label, Navigate!Direct(label)
        PROVE  stage = label /\ PageKeeps /\ (early' <=> early)
    BY <1>s, <1>d DEF Navigate!Direct, Navigate!pageVars, PageKeeps
  <1>1. CASE Navigate!Enter
    <2>1. stage = "enter" /\ PageKeeps /\ emitted' = emitted /\ ~early'
      BY <1>s, <1>1 DEF Navigate!Enter, Navigate!pageVars, PageKeeps
    <2>2. \/ Navigate!Raise({"invalid"})
          \/ Navigate!Raise({"timeout"})
          \/ /\ error' = error
             /\ \/ Navigate!GoTo("origin") \/ Navigate!GoTo("first") \/ Navigate!GoTo("plan")
      BY <1>1 DEF Navigate!Enter
    <2> QED BY <1>s, <1>k, <2>1, <2>2, RaisingEnds, StoryGoes
  <1>2. CASE Navigate!OriginBound
    <2>1. stage = "origin" /\ PageKeeps /\ emitted' = emitted /\ ~early'
      BY <1>s, <1>d, <1>2 DEF Navigate!OriginBound
    <2>2. Navigate!Return("direct", FALSE) \/ Navigate!Raise({"failed"}) \/ Navigate!Raise({"limit"})
      BY <1>2 DEF Navigate!OriginBound
    <2> QED BY <1>s, <1>k, <2>1, <2>2, RaisingEnds, ReturningEnds
  <1>3. CASE Navigate!TryFirst
    <2>1. stage = "first" /\ PageKeeps /\ emitted' = emitted /\ ~early'
      BY <1>s, <1>d, <1>3 DEF Navigate!TryFirst
    <2>2. \/ Navigate!Return("direct", FALSE) \/ Navigate!Raise({"limit"})
          \/ Navigate!GoTo("plan") /\ error' = error
      BY <1>3 DEF Navigate!TryFirst
    <2> QED BY <1>s, <1>k, <2>1, <2>2, RaisingEnds, ReturningEnds, StoryGoes
  <1>4. CASE Navigate!AfterTimeout
    <2>1. stage = "timeout" /\ PageKeeps /\ emitted' = emitted /\ ~early'
      BY <1>s, <1>d, <1>4 DEF Navigate!AfterTimeout
    <2>2. \/ Navigate!Return("direct", TRUE) \/ Navigate!Raise({"limit"})
          \/ Navigate!GoTo("closed") /\ error' = error /\ "closed" \in error
          \/ Navigate!Raise(error) /\ "closed" \notin error
      BY <1>4 DEF Navigate!AfterTimeout
    <2>3. error \in SUBSET Navigate!ErrorKinds
      BY <1>s, <1>k
    <2> QED BY <1>s, <1>k, <2>1, <2>2, <2>3, RaisingEnds, ReturningEnds, StoryGoes
  <1>5. CASE Navigate!AfterClosed
    <2>1. stage = "closed" /\ PageKeeps
      BY <1>d, <1>5 DEF Navigate!AfterClosed
    <2>2. \/ Navigate!Return("direct", TRUE) /\ emitted' = Append(emitted, TRUE)
          \/ /\ Navigate!Raise({"limit"}) \/ Navigate!Raise(error)
             /\ emitted' = Append(emitted, FALSE)
      BY <1>5 DEF Navigate!AfterClosed, Navigate!FirstError
    <2>3. CASE Navigate!Return("direct", TRUE) /\ emitted' = Append(emitted, TRUE)
      <3>1. /\ stage' = "done" /\ nav_answer' = "direct" /\ marked' = TRUE /\ raised' = {}
            /\ error' = error
        BY <1>s, <2>1, <2>3 DEF Navigate!Return
      <3> QED BY <1>s, <2>1, <2>3, <3>1, ReportingEnds
    <2>4. CASE /\ Navigate!Raise({"limit"}) \/ Navigate!Raise(error)
               /\ emitted' = Append(emitted, FALSE)
      <3>1. /\ stage' = "done" /\ nav_answer' = "raised" /\ raised' \in {error, {"limit"}}
            /\ error' = error /\ marked' = marked
        BY <2>4 DEF Navigate!Raise
      <3>2. raised' \subseteq Navigate!ErrorKinds
        BY <1>s, <1>k, <3>1
      <3> QED BY <1>s, <2>1, <2>4, <3>1, <3>2, ReportingEnds
    <2> QED BY <2>2, <2>3, <2>4
  <1>6. CASE Navigate!PlanBrowser
    <2>1. stage = "plan" /\ PageKeeps /\ emitted' = emitted /\ ~early'
      BY <1>s, <1>6 DEF Navigate!PlanBrowser, Navigate!pageVars, PageKeeps
    <2>2. \/ Navigate!Raise({"timeout"})
          \/ Navigate!GoTo("goto") /\ error' = error
      BY <1>6 DEF Navigate!PlanBrowser
    <2> QED BY <1>s, <1>k, <2>1, <2>2, RaisingEnds, StoryGoes
  <1>u. ASSUME stage # "done", PageKeeps, NEW kinds \in Navigate!BrowserErrors,
               Navigate!Unfinished(kinds)
        PROVE  NavigationStory'
    <2>1. kinds \in SUBSET {"timeout", "closed"} /\ kinds \in SUBSET Navigate!ErrorKinds
      BY <1>k DEF Navigate!BrowserErrors
    <2>2. CASE "closed" \notin kinds /\ Navigate!Raise(kinds) /\ emitted' = emitted
      BY <1>u, <2>1, <2>2, RaisingEnds
    <2>3. CASE "closed" \in kinds /\ Navigate!GoTo("closed") /\ error' = kinds /\ emitted' = emitted
      BY <1>u, <2>1, <2>3, StoryGoes
    <2>4. CASE /\ emitted' = Append(emitted, FALSE) /\ stage' = "done"
               /\ nav_answer' = "raised" /\ raised' = kinds /\ error' = kinds /\ marked' = marked
      BY <1>s, <1>u, <2>1, <2>4, ReportingEnds
    <2> QED BY <1>u, <2>2, <2>3, <2>4 DEF Navigate!Unfinished
  <1>7. CASE Navigate!Goto
    <2>1. stage = "goto" /\ nav_req' = nav_req /\ committed' \in BOOLEAN /\ ~early
      BY <1>s, <1>7 DEF Navigate!Goto
    <2>2. CASE Navigate!Return("page", FALSE) /\ UNCHANGED <<early, emitted>>
      BY <1>s, <2>1, <2>2, ReturningEnds DEF PageKeeps
    <2>3. ASSUME NEW kinds \in Navigate!BrowserErrors,
                 Navigate!GoTo("commit"), early' = committed', UNCHANGED <<error, emitted>>
          PROVE  NavigationStory'
      BY <1>s, <2>1, <2>3, StoryGoes DEF PageKeeps
    <2>4. ASSUME NEW kinds \in Navigate!BrowserErrors, Navigate!Unfinished(kinds), early' = early
          PROVE  NavigationStory'
      BY <1>s, <1>u, <2>1, <2>4 DEF PageKeeps
    <2> QED BY <1>7, <2>2, <2>3, <2>4 DEF Navigate!Goto, Navigate!AfterFirstStage
  <1>8. CASE Navigate!Commit
    <2>1. stage = "commit" /\ nav_req' = nav_req /\ committed' \in BOOLEAN
          /\ (early' <=> early) /\ early' \in BOOLEAN
      BY <1>s, <1>8 DEF Navigate!Commit
    <2>2. CASE Navigate!Return("page", FALSE) /\ emitted' = emitted
      BY <1>s, <2>1, <2>2, ReturningEnds DEF PageKeeps
    <2>3. ASSUME NEW kinds \in Navigate!BrowserErrors, "timeout" \in kinds, ~committed,
                 Navigate!TimeoutFallback, Navigate!GoTo("timeout"), error' = kinds,
                 emitted' = emitted
          PROVE  NavigationStory'
      <3>1. ~early' /\ kinds \in SUBSET {"timeout", "closed"}
            /\ nav_req.direct /\ nav_req.kind = "ajax"
        BY <1>s, <2>1, <2>3 DEF Navigate!BrowserErrors, Navigate!TimeoutFallback
      <3> QED BY <2>1, <2>3, <3>1, StoryGoes DEF PageKeeps
    <2>4. ASSUME NEW kinds \in Navigate!BrowserErrors, Navigate!Unfinished(kinds)
          PROVE  NavigationStory'
      BY <1>u, <2>1, <2>4 DEF PageKeeps
    <2> QED BY <1>8, <2>2, <2>3, <2>4 DEF Navigate!Commit
  <1> QED
    BY <1>1, <1>2, <1>3, <1>4, <1>5, <1>6, <1>7, <1>8 DEF Navigate!Next

\* What the time is at a stage, where the request is one.
LEMMA TimeNow ==
    ASSUME NavigationStory, NavigationTime
    PROVE  /\ nav_now \in Nat /\ nav_late \in Nat /\ nav_late <= NavigationLate
           /\ nav \in Nat /\ brw \in Nat /\ brw <= nav /\ began \in Nat /\ began <= nav_now
           /\ nav_req \in NavigationRequests /\ nav_req.start <= nav_req.timeout
           /\ nav_req.start \in Nat /\ nav_req.start <= nav_now
  <1>1. /\ nav_now \in Nat /\ nav_late \in Nat /\ nav_late <= NavigationLate
        /\ nav \in Nat /\ brw \in Nat /\ brw <= nav /\ began \in Nat /\ began <= nav_now
        /\ nav_req.start <= nav_now
    BY DEF NavigationTime, TimeAt
  <1>2. nav_req \in NavigationRequests /\ nav_req.start <= nav_req.timeout
    BY DEF NavigationStory, StoryTypes
  <1> QED BY <1>1, <1>2, KeptIsLeft

\* A direct attempt that ends the navigation, or that leaves time for what comes next.
LEMMA AttemptKeepsTime ==
    ASSUME NavigationStory, NavigationTime, NEW label \in {"origin", "first", "timeout", "closed"},
           Navigate!Direct(label), stage' \in {"plan", "closed", "done"},
           label = "closed" => stage' = "done" /\ emitted' # <<>>
    PROVE  NavigationTime'
  <1>1. /\ stage = label
        /\ UNCHANGED <<nav_req, nav, brw, began>>
    BY DirectMoves
  <1>2. PICK n \in Nat, l \in Nat :
          /\ nav_now' = n /\ nav_late' = l /\ l <= NavigationLate /\ nav_now <= n
          /\ n - l <= nav - nav_late \/ n - l <= nav_now - nav_late + 1
          /\ nav_now < nav => n - l <= nav - nav_late
    BY DirectMoves
  <1>3. /\ nav # 0 /\ nav = nav_req.timeout - Kept(nav_req) /\ nav_req.start < nav
        /\ label \in {"origin", "first", "timeout"} => nav_now < nav
        /\ label = "closed" => nav_now - nav_late <= nav
    BY <1>1 DEF NavigationTime, TimeAt
  <1>4. /\ n - l <= nav + (IF emitted' = <<>> THEN 0 ELSE 1)
        /\ stage' # "done" => n - l <= nav
    <2>1. CASE label = "closed"
      BY <1>2, <1>3, <2>1, TimeNow
    <2>2. CASE label # "closed"
      BY <1>2, <1>3, <2>2, TimeNow
    <2> QED BY <2>1, <2>2
  <1>5. nav_req.start <= n /\ began <= n
    BY <1>2, TimeNow
  <1>6. TimeAt(nav_req, stage', n, l, nav, brw, began, emitted')
    BY <1>2, <1>3, <1>4, <1>5, TimeNow DEF TimeAt
  <1> QED BY <1>1, <1>2, <1>6 DEF NavigationTime

LEMMA StageLimit ==
    ASSUME NavigationStory, NavigationTime, NEW reserve \in {0, 1}
    PROVE  /\ Navigate!StageTimeout(reserve) \in Nat
           /\ \/ Navigate!StageTimeout(reserve) <= 1
              \/ Navigate!StageTimeout(reserve) <= brw - nav_now - reserve
  <1>1. brw \in Nat /\ nav_now \in Nat /\ StageCap \in Nat \ {0} /\ reserve \in Nat
    BY TimeNow, NavigationConstants
  <1> QED
    BY <1>1 DEF Navigate!StageTimeout, Navigate!Smaller, Navigate!Larger, Navigate!Unspent

LEMMA EnterKeepsTime ==
    ASSUME NavigationStory, NavigationTime, Navigate!Enter PROVE NavigationTime'
  <1>1. /\ stage = "enter" /\ nav = 0 /\ nav_now = nav_req.start /\ nav_late = 0 /\ emitted = <<>>
        /\ UNCHANGED <<nav_req, nav_now, nav_late, brw, began, emitted>>
    BY DEF Navigate!Enter, Navigate!clock, NavigationStory, StoryGoesOn, NavigationTime, TimeAt
  <1>2. \/ stage' = "done" /\ nav' = nav
        \/ stage' = "done" /\ nav' = Navigate!NavigationEnd /\ nav' = 0
        \/ /\ stage' \in {"origin", "first", "plan"}
           /\ nav' = Navigate!NavigationEnd /\ nav' # 0
    BY DEF Navigate!Enter, Navigate!Raise, Navigate!GoTo
  <1>3. CASE stage' = "done" /\ nav' = 0
    <2>1. TimeAt(nav_req, "done", nav_now, nav_late, 0, brw, began, emitted)
      BY <1>1, TimeNow DEF TimeAt
    <2> QED BY <1>1, <1>3, <2>1 DEF NavigationTime
  <1>4. CASE /\ stage' \in {"origin", "first", "plan"}
             /\ nav' = Navigate!NavigationEnd /\ nav' # 0
    <2>1. PICK d \in Nat : nav' = d /\ d = nav_req.timeout - Kept(nav_req) /\ nav_req.start < d
      <3>1. Kept(nav_req) \in Nat /\ nav_req.timeout \in Nat /\ nav_req.start \in Nat
        BY TimeNow, KeptIsLeft
      <3>2. /\ Navigate!NavigationEnd = nav_req.timeout - Kept(nav_req)
            /\ nav_req.start < Navigate!NavigationEnd
        BY <1>1, <1>4, TimeNow, NavigationDeadline
      <3>3. nav_req.timeout - Kept(nav_req) \in Nat
        BY <3>1, <3>2
      <3> QED BY <1>4, <3>2, <3>3
    <2>2. TimeAt(nav_req, stage', nav_now, nav_late, d, brw, began, emitted)
      <3>1. brw <= d /\ nav_now - nav_late <= d /\ nav_now < d
        BY <1>1, <2>1, TimeNow
      <3> QED BY <1>1, <1>4, <2>1, <3>1, TimeNow DEF TimeAt
    <2> QED BY <1>1, <2>1, <2>2 DEF NavigationTime
  <1> QED BY <1>1, <1>2, <1>3, <1>4

LEMMA PlanKeepsTime ==
    ASSUME NavigationStory, NavigationTime, Navigate!PlanBrowser PROVE NavigationTime'
  <1>1. /\ stage = "plan" /\ emitted = <<>> /\ began' = nav_now
        /\ UNCHANGED <<nav_req, nav_now, nav_late, nav, emitted>>
    BY DEF Navigate!PlanBrowser, Navigate!clock, NavigationStory, StoryGoesOn
  <1>2. /\ nav # 0 /\ nav = nav_req.timeout - Kept(nav_req) /\ nav_req.start < nav
        /\ nav_now - nav_late <= nav
    BY <1>1 DEF NavigationTime, TimeAt
  <1>3. PICK b \in Nat :
          /\ brw' = b /\ b <= nav
          /\ \/ stage' = "done"
             \/ /\ stage' = "goto" /\ b - nav_now >= 2
                /\ nav_req.direct /\ nav_req.kind = "ajax" => b <= nav - Share(nav, nav_now)
    <2>1. CASE Navigate!BrowserEnd = 0
      <3>1. brw' = 0 /\ stage' = "done"
        BY <2>1 DEF Navigate!PlanBrowser, Navigate!Raise
      <3> QED BY <3>1, TimeNow
    <2>2. CASE Navigate!BrowserEnd # 0
      <3>1. PICK b \in Nat : b = Navigate!BrowserEnd
        BY <2>2, BrowserDeadline
      <3>2. b <= nav /\ (nav_req.direct /\ nav_req.kind = "ajax" => b <= nav - Share(nav, nav_now))
        BY <2>2, <3>1, BrowserDeadline
      <3>3. brw' = b
        BY <3>1 DEF Navigate!PlanBrowser
      <3>4. \/ stage' = "done"
            \/ stage' = "goto" /\ ~(b - nav_now < 2)
        BY <3>3 DEF Navigate!PlanBrowser, Navigate!Raise, Navigate!GoTo
      <3>5. ~(b - nav_now < 2) => b - nav_now >= 2
        BY TimeNow
      <3> QED BY <3>1, <3>2, <3>3, <3>4, <3>5
    <2> QED BY <2>1, <2>2
  <1>4. TimeAt(nav_req, stage', nav_now, nav_late, nav, b, nav_now, emitted)
    BY <1>1, <1>2, <1>3, TimeNow DEF TimeAt
  <1> QED BY <1>1, <1>3, <1>4 DEF NavigationTime

LEMMA GotoKeepsTime ==
    ASSUME NavigationStory, NavigationTime, Navigate!Goto PROVE NavigationTime'
  <1>1. /\ stage = "goto" /\ Navigate!Passes(Navigate!StageTimeout(1))
        /\ stage' \in {"commit", "closed", "done"}
        /\ UNCHANGED <<nav_req, nav, brw, began>>
    BY DEF Navigate!Goto, Navigate!FirstStage, Navigate!AfterFirstStage, Navigate!Return,
           Navigate!GoTo, Navigate!Unfinished, Navigate!Raise, Navigate!plan
  <1>2. /\ nav # 0 /\ nav = nav_req.timeout - Kept(nav_req) /\ nav_req.start < nav
        /\ brw - nav_now >= 2
        /\ nav_req.direct /\ nav_req.kind = "ajax" => brw <= nav - Share(nav, began)
    BY <1>1 DEF NavigationTime, TimeAt
  <1>3. PICK n \in Nat, l \in Nat :
          /\ nav_now' = n /\ nav_late' = l /\ l <= NavigationLate /\ nav_now <= n
          /\ n - l <= nav_now - nav_late + Navigate!StageTimeout(1)
    <2>1. Navigate!StageTimeout(1) \in Nat
      BY StageLimit
    <2> QED BY <1>1, <2>1, NavigationPasses DEF NavigationMoves
  <1>4. n - l <= brw - 1
    BY <1>2, <1>3, TimeNow, StageLimit
  <1>5. nav_req.start <= n /\ began <= n /\ n - l <= nav
    BY <1>3, <1>4, TimeNow
  <1>6. TimeAt(nav_req, stage', n, l, nav, brw, began, emitted')
    <2>1. n - l <= nav + (IF emitted' = <<>> THEN 0 ELSE 1)
      BY <1>3, <1>5, TimeNow
    <2> QED BY <1>1, <1>2, <1>3, <1>4, <1>5, <2>1, TimeNow DEF TimeAt
  <1> QED BY <1>1, <1>3, <1>6 DEF NavigationTime

LEMMA CommitKeepsTime ==
    ASSUME NavigationStory, NavigationTime, Navigate!Commit PROVE NavigationTime'
  <1>1. /\ stage = "commit"
        /\ UNCHANGED <<nav_now, nav_late>> \/ Navigate!Passes(Navigate!StageTimeout(0))
        /\ \/ stage' \in {"closed", "done"}
           \/ stage' = "timeout" /\ nav - nav_now' > 0
        /\ UNCHANGED <<nav_req, nav, brw, began>>
    BY DEF Navigate!Commit, Navigate!Return, Navigate!GoTo, Navigate!Unfinished, Navigate!Raise,
           Navigate!clock, Navigate!plan
  <1>2. /\ nav # 0 /\ nav = nav_req.timeout - Kept(nav_req) /\ nav_req.start < nav
        /\ nav_now - nav_late <= brw - 1
        /\ nav_req.direct /\ nav_req.kind = "ajax" => brw <= nav - Share(nav, began)
    BY <1>1 DEF NavigationTime, TimeAt
  <1>3. PICK n \in Nat, l \in Nat :
          /\ nav_now' = n /\ nav_late' = l /\ l <= NavigationLate /\ nav_now <= n
          /\ \/ n - l <= nav_now - nav_late
             \/ n - l <= nav_now - nav_late + Navigate!StageTimeout(0)
    <2>1. CASE UNCHANGED <<nav_now, nav_late>>
      <3>1. PICK n \in Nat, l \in Nat : n = nav_now /\ l = nav_late
        BY TimeNow
      <3>2. l <= NavigationLate /\ nav_now <= n /\ n - l <= nav_now - nav_late
        BY <3>1, TimeNow
      <3> QED BY <2>1, <3>1, <3>2
    <2>2. CASE Navigate!Passes(Navigate!StageTimeout(0))
      <3>1. Navigate!StageTimeout(0) \in Nat
        BY StageLimit
      <3> QED BY <2>2, <3>1, NavigationPasses DEF NavigationMoves
    <2> QED BY <1>1, <2>1, <2>2
  <1>4. n - l <= brw
    BY <1>2, <1>3, TimeNow, StageLimit
  <1>5. nav_req.start <= n /\ began <= n /\ n - l <= nav
    BY <1>3, <1>4, TimeNow
  <1>6. \/ stage' \in {"closed", "done"}
        \/ stage' = "timeout" /\ n < nav
    <2>1. CASE stage' \in {"closed", "done"}
      BY <2>1
    <2>2. CASE stage' = "timeout" /\ nav - nav_now' > 0
      <3>1. nav - n > 0
        BY <1>3, <2>2
      <3>2. n < nav
        BY <3>1, TimeNow
      <3> QED BY <2>2, <3>2
    <2> QED BY <1>1, <2>1, <2>2
  <1>7. TimeAt(nav_req, stage', n, l, nav, brw, began, emitted')
    <2>1. n - l <= nav + (IF emitted' = <<>> THEN 0 ELSE 1)
      BY <1>3, <1>5, TimeNow
    <2> QED BY <1>2, <1>3, <1>4, <1>5, <1>6, <2>1, TimeNow DEF TimeAt
  <1> QED BY <1>1, <1>3, <1>7 DEF NavigationTime

LEMMA TimeKeeps ==
    ASSUME NavigationStory, NavigationTime, Navigate!Next PROVE NavigationTime'
  <1>1. CASE Navigate!OriginBound
    BY <1>1, AttemptKeepsTime DEF Navigate!OriginBound, Navigate!Return, Navigate!Raise
  <1>2. CASE Navigate!TryFirst
    BY <1>2, AttemptKeepsTime
    DEF Navigate!TryFirst, Navigate!Return, Navigate!Raise, Navigate!GoTo
  <1>3. CASE Navigate!AfterTimeout
    BY <1>3, AttemptKeepsTime
    DEF Navigate!AfterTimeout, Navigate!Return, Navigate!Raise, Navigate!GoTo
  <1>4. CASE Navigate!AfterClosed
    <2>1. Navigate!Direct("closed") /\ stage' = "done"
      BY <1>4 DEF Navigate!AfterClosed, Navigate!Return, Navigate!Raise
    <2>2. emitted = <<>>
      BY <2>1 DEF Navigate!Direct, NavigationStory, StoryGoesOn
    <2>3. emitted' = Append(<<>>, TRUE) \/ emitted' = Append(<<>>, FALSE)
      BY <1>4, <2>2 DEF Navigate!AfterClosed
    <2>4. Append(<<>>, TRUE) # <<>> /\ Append(<<>>, FALSE) # <<>>
      OBVIOUS
    <2>5. emitted' # <<>>
      BY <2>3, <2>4
    <2> QED BY <2>1, <2>5, AttemptKeepsTime
  <1> QED
    BY <1>1, <1>2, <1>3, <1>4, EnterKeepsTime, PlanKeepsTime, GotoKeepsTime, CommitKeepsTime
    DEF Navigate!Next

LEMMA NavigationKeeps ==
    ASSUME NavigationInv, Navigate!Next PROVE NavigationInv'
  BY StoryKeeps, TimeKeeps DEF NavigationInv

LEMMA NavigationBegins == ASSUME Navigate!Init PROVE NavigationInv
  <1>1. /\ nav_req \in NavigationRequests /\ nav_req.start <= nav_req.timeout
        /\ nav_now = nav_req.start /\ nav_late = 0 /\ stage = "enter"
        /\ nav = 0 /\ brw = 0 /\ began = 0 /\ committed = FALSE /\ early = FALSE /\ error = {}
        /\ nav_answer = "none" /\ raised = {} /\ marked = FALSE /\ emitted = <<>>
    BY DEF Navigate!Init, NavigationRequests
  <1>2. NavigationStory
    BY <1>1
    DEF NavigationStory, StoryTypes, StoryGoesOn, Navigate!CommittedPageStays,
        Navigate!ErrorsReported
  <1>3. TimeAt(nav_req, "enter", nav_now, 0, 0, 0, 0, <<>>)
    BY <1>1, KeptIsLeft, NavigationConstants DEF TimeAt
  <1>4. NavigationTime
    BY <1>1, <1>3 DEF NavigationTime
  <1> QED BY <1>2, <1>4 DEF NavigationInv

LEMMA PagesAreAsAsked ==
    ASSUME NavigationInv
    PROVE  /\ Navigate!TypeOK /\ Navigate!ReserveKept /\ Navigate!FallbackHasItsShare
           /\ Navigate!CommitHasTime /\ Navigate!CommittedPageStays /\ Navigate!ErrorsReported
  <1>i. NavigationStory /\ NavigationTime
    BY DEF NavigationInv
  <1>k. /\ Kept(nav_req) \in Nat /\ Kept(nav_req) >= 1 /\ nav_req.timeout \in Nat
        /\ nav_req.timeout <= NavigationTimeout
    BY <1>i, TimeNow, KeptIsLeft
  <1>1. Navigate!TypeOK
    <2>1. nav_now <= nav_req.timeout + NavigationLate + 1 /\ nav <= nav_req.timeout - 1
      <3>1. CASE nav = 0
        <4>1. nav_now = nav_req.start /\ nav_req.timeout >= 1
          BY <1>i, <3>1, KeptIsLeft DEF NavigationTime, TimeAt, NavigationStory, StoryTypes
        <4> QED BY <1>i, <1>k, <3>1, <4>1, TimeNow, NavigationConstants
      <3>2. CASE nav # 0
        <4>1. nav <= nav_req.timeout - 1
          BY <1>i, <1>k, <3>2 DEF NavigationTime, TimeAt
        <4>2. nav_now - nav_late <= nav + 1
          <5>1. \/ nav_now < nav \/ nav_now - nav_late <= nav \/ brw - nav_now >= 2
                \/ nav_now - nav_late <= brw - 1 \/ nav_now - nav_late <= brw
                \/ nav_now - nav_late <= nav + (IF emitted = <<>> THEN 0 ELSE 1)
            BY <1>i, <3>2 DEF NavigationTime, TimeAt, NavigationStory, StoryTypes
          <5> QED BY <1>i, <5>1, TimeNow
        <4> QED BY <1>i, <1>k, <4>1, <4>2, TimeNow, NavigationConstants
      <3> QED BY <3>1, <3>2
    <2>2. /\ nav_now \in nav_req.start .. nav_req.timeout + NavigationLate + 1
          /\ nav_late \in 0 .. NavigationLate
          /\ nav \in 0 .. nav_req.timeout - 1 /\ brw \in 0 .. nav /\ began \in 0 .. nav_now
      BY <1>i, <1>k, <2>1, TimeNow, NavigationConstants
    <2> QED
      BY <1>i, <2>2
      DEF NavigationStory, StoryTypes, NavigationRequests, Navigate!TypeOK, Navigate!BrowserErrors
  <1>2. Navigate!ReserveKept
    <2> SUFFICES ASSUME stage = "done", nav # 0
                 PROVE  nav_req.timeout - nav_now
                          >= Kept(nav_req) - nav_late - (IF emitted = <<>> THEN 0 ELSE 1)
      BY DEF Navigate!ReserveKept, Kept
    <2>1. /\ nav = nav_req.timeout - Kept(nav_req)
          /\ nav_now - nav_late <= nav + (IF emitted = <<>> THEN 0 ELSE 1)
      BY <1>i DEF NavigationTime, TimeAt
    <2> QED BY <1>i, <1>k, <2>1, TimeNow
  <1>3. Navigate!FallbackHasItsShare
    <2> SUFFICES ASSUME stage = "timeout"
                 PROVE  nav - nav_now > 0 /\ nav - nav_now >= Share(nav, began) - nav_late
      BY DEF Navigate!FallbackHasItsShare, Share, Navigate!Unspent
    <2>1. nav_now - nav_late <= brw /\ nav_now < nav /\ brw <= nav - Share(nav, began)
      BY <1>i DEF NavigationStory, StoryGoesOn, NavigationTime, TimeAt
    <2>2. Share(nav, began) \in Int
      BY <1>i, TimeNow, NavigationConstants DEF Share, Navigate!Smaller
    <2> QED BY <1>i, <2>1, <2>2, TimeNow
  <1>4. Navigate!CommitHasTime
    <2>1. stage = "commit" => nav_now - nav_late <= brw - 1
      BY <1>i DEF NavigationTime, TimeAt
    <2> QED BY <1>i, <2>1, TimeNow DEF Navigate!CommitHasTime, Navigate!Unspent
  <1> QED BY <1>i, <1>1, <1>2, <1>3, <1>4 DEF NavigationStory

-----------------------------------------------------------------------------
(***************************************************************************)
(* The parts together.                                                     *)
(***************************************************************************)
RequestInv == IInv /\ NavigationInv /\ WaitInv /\ MediaInv

LEMMA IInvStays == ASSUME IInv, UNCHANGED vars PROVE IInv'
  BY NextHolds

LEMMA NavigationStays == ASSUME NavigationInv, UNCHANGED navigationVars PROVE NavigationInv'
  BY DEF navigationVars, NavigationInv, NavigationStory, StoryTypes, StoryGoesOn,
         NavigationTime, Navigate!CommittedPageStays, Navigate!ErrorsReported

LEMMA WaitStays == ASSUME WaitInv, UNCHANGED waitVars PROVE WaitInv'
  BY DEF waitVars, WaitInv, WaitTypes, WaitTime, PollTime

LEMMA MediaStays == ASSUME MediaInv, UNCHANGED mediaVars PROVE MediaInv'
  BY DEF mediaVars, MediaInv, MediaTypes, ContextSound, RecordFollowed, RoutesSound, Blocked

LEMMA RestsHonestly == ASSUME SolveRests PROVE IInv
  <1>1. PICK t \in Answers :
          t = Told("POOL", TRUE, FALSE) /\ t.code = "POOL" /\ t.retryable = TRUE /\ t.unknown = FALSE
    <2>1. "POOL" \in Codes
      BY DEF Codes
    <2> QED BY <2>1, ToldFields
  <1>2. /\ req = [cmd |-> "get", cookies_only |-> FALSE, wait |-> FALSE] /\ pc = "ended"
        /\ captcha = "none" /\ started = FALSE /\ sent = FALSE /\ cancelled = FALSE
        /\ response = "none" /\ body = "none" /\ state = "none"
        /\ result = {<<"pool", t>>} /\ answer = {t}
    BY <1>1 DEF SolveRests
  <1>3. TypeOK
    <2>1. "pool" \in Kinds /\ "none" \notin {"raw", "fallback"}
      BY DEF Kinds
    <2>2. result # {} /\ \E r \in Answers, k \in Kinds : result = {<<k, r>>}
      BY <1>2, <2>1
    <2>3. \E r \in Answers : answer = {r}
      BY <1>2
    <2>4. Buffered <=> body # "none"
      BY <1>2, <2>1 DEF Buffered
    <2>5. req \in [cmd : {"get", "post"}, cookies_only : BOOLEAN, wait : BOOLEAN]
      BY <1>2
    <2> QED BY <1>2, <2>2, <2>3, <2>4, <2>5 DEF TypeOK
  <1>4. Stages
    BY <1>2 DEF Stages
  <1>5. Honest(t)
    BY <1>1, <1>2 DEF Honest, Failed
  <1>6. ResultTold
    BY <1>2, <1>5 DEF ResultTold
  <1>7. AnswerTold
    BY <1>1, <1>2
    DEF AnswerTold, PostFailureIsFinal, PostFailureIsMarked, UnsentIsKnown, BufferedSpeaks
  <1> QED BY <1>3, <1>4, <1>6, <1>7 DEF IInv

LEMMA RequestBegins == RequestInit => RequestInv
  <1> SUFFICES ASSUME RequestInit PROVE RequestInv
    OBVIOUS
  <1>1. MediaInv
    BY MediaBegins DEF RequestInit
  <1>2. IInv
    BY InitHolds, RestsHonestly DEF RequestInit
  <1>3. NavigationInv
    BY NavigationBegins DEF RequestInit, NavigationRests
  <1>4. WaitInv
    BY WaitBegins DEF RequestInit
  <1> QED BY <1>1, <1>2, <1>3, <1>4 DEF RequestInv

LEMMA RequestKeeps == RequestInv /\ [RequestNext]_requestVars => RequestInv'
  <1> SUFFICES ASSUME RequestInv, [RequestNext]_requestVars PROVE RequestInv'
    OBVIOUS
  <1>i. IInv /\ NavigationInv /\ WaitInv /\ MediaInv
    BY DEF RequestInv
  <1>1. /\ Next \/ UNCHANGED vars
        /\ Navigate!Next \/ UNCHANGED navigationVars
        /\ Waits!Next \/ UNCHANGED waitVars
        /\ Media!Next \/ UNCHANGED mediaVars
    BY DEF RequestNext, requestVars
  <1>2. IInv'
    BY <1>i, <1>1, NextHolds
  <1>3. NavigationInv'
    BY <1>i, <1>1, NavigationKeeps, NavigationStays
  <1>4. WaitInv'
    BY <1>i, <1>1, WaitKeeps, WaitStays
  <1>5. MediaInv'
    BY <1>i, <1>1, MediaKeeps, MediaStays
  <1> QED BY <1>2, <1>3, <1>4, <1>5 DEF RequestInv

\* The inductive invariant of a request: that of each of its parts.
THEOREM RequestInvariant == RequestSpec => []RequestInv
  BY RequestBegins, RequestKeeps, PTL DEF RequestSpec

\* What the client is told is true of what happened, whichever part of the request runs.
THEOREM AnswersAreAsSaid == RequestSpec => []AnswersAreTrue
  <1>1. RequestInv => AnswersAreTrue
    BY DEF RequestInv, IInv, AnswerTold, AnswersAreTrue
  <1> QED BY <1>1, RequestInvariant, PTL

\* The stages of a navigation leave each other, the fallback and the result their time, a
\* committed page is kept, errors are reported once, and media are loaded as asked.
THEOREM PagesHold == RequestSpec => []PagesAsAsked
  <1>1. RequestInv => PagesAsAsked
    BY PagesAreAsAsked, MediaAreAsAsked DEF RequestInv, PagesAsAsked
  <1> QED BY <1>1, RequestInvariant, PTL

\* The poll for a challenge uses the time up to the reserve and no more.
THEOREM WaitsHold == RequestSpec => []WaitsUseTheirTime
  <1>1. RequestInv => WaitsUseTheirTime
    BY WaitsAreUsed DEF RequestInv
  <1> QED BY <1>1, RequestInvariant, PTL

\* A block page is final, and a challenge is over only when something else has been seen.
THEOREM LooksHold == RequestSpec => LooksAreFinal
  <1>1. RequestInv /\ [RequestNext]_requestVars =>
          [state = "blocked" => state' = "blocked" /\ pc' \notin {"solve", "clear", "wait"}]_vars
    <2> SUFFICES ASSUME RequestInv, [RequestNext]_requestVars, vars' # vars, state = "blocked"
                 PROVE  state' = "blocked" /\ pc' \notin {"solve", "clear", "wait"}
      OBVIOUS
    <2>1. Next /\ IInv
      BY DEF RequestNext, requestVars, RequestInv
    <2> QED BY <2>1, BlockStays
  <1>2. RequestInv /\ [RequestNext]_requestVars =>
          [(waiting \in {"first", "look"} /\ waiting' = "wait") => doc' # "challenge"]_(Waits!vars)
    <2> SUFFICES ASSUME RequestInv, [RequestNext]_requestVars, Waits!vars' # Waits!vars,
                        waiting \in {"first", "look"}, waiting' = "wait"
                 PROVE  doc' # "challenge"
      OBVIOUS
    <2>1. UNCHANGED waitVars => UNCHANGED Waits!vars
      BY DEF waitVars, Waits!vars, Waits!clock, Waits!poll
    <2>2. Waits!Next /\ WaitInv
      BY <2>1 DEF RequestNext, requestVars, RequestInv
    <2> QED BY <2>2, LooksAreSeen
  <1>3. RequestSpec => BlockIsFinal
    BY <1>1, RequestInvariant, PTL DEF RequestSpec, BlockIsFinal
  <1>4. RequestSpec => Waits!ClearedIsSeen
    BY <1>2, RequestInvariant, PTL DEF RequestSpec, Waits!ClearedIsSeen
  <1> QED BY <1>3, <1>4 DEF LooksAreFinal
=============================================================================
