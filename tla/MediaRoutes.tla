------------------------------ MODULE MediaRoutes ------------------------------
(***************************************************************************)
(* disableMedia in the persistent context of a session: the routes that    *)
(* _apply_media_blocking, src/camouflare/solver.py, attaches for one       *)
(* request and finds in place, or takes away, for the next.  A session     *)
(* serves one request at a time; a request may be cancelled at any await,  *)
(* and the session stays.                                                  *)
(***************************************************************************)
EXTENDS Naturals, FiniteSets

CONSTANTS
    Contexts,   \* persistent contexts
    Patterns,   \* MEDIA_PATTERNS
    MaxRoutes   \* a bound on the routes of a pattern

VARIABLES
    pc,         \* context -> where the request in it is
    asked,      \* context -> its disableMedia
    left,       \* context -> patterns the loop has not reached
    attached,   \* context -> pattern -> how many handlers block it
    own,        \* context -> patterns whose last handler is attached
    recorded,   \* contexts in _media_routes
    stale,      \* contexts where a handler may be attached that no record leads to
    partial     \* contexts where a handler of the record may be gone

vars == <<pc, asked, left, attached, own, recorded, stale, partial>>

TypeOK ==
    /\ pc \in [Contexts -> {"idle", "route", "unroute", "navigate", "unblock", "solve"}]
    /\ asked \in [Contexts -> BOOLEAN]
    /\ left \in [Contexts -> SUBSET Patterns]
    /\ attached \in [Contexts -> [Patterns -> 0 .. MaxRoutes]]
    /\ own \in [Contexts -> SUBSET Patterns]
    /\ recorded \subseteq Contexts
    /\ stale \subseteq Contexts
    /\ partial \subseteq recorded
    /\ \A c \in Contexts : \A p \in own[c] : attached[c][p] > 0

Init ==
    /\ pc = [c \in Contexts |-> "idle"]
    /\ asked = [c \in Contexts |-> FALSE]
    /\ left = [c \in Contexts |-> {}]
    /\ attached = [c \in Contexts |-> [p \in Patterns |-> 0]]
    /\ own = [c \in Contexts |-> {}]
    /\ recorded = {}
    /\ stale = {}
    /\ partial = {}

GoTo(c, label) == pc' = [pc EXCEPT ![c] = label]

\* _apply_media_blocking has nothing to do, or a loop to run.
BeginSetup(c, enabled) ==
    IF enabled = (c \in recorded) THEN "navigate" ELSE IF enabled THEN "route" ELSE "unroute"

Request(c) ==
    /\ pc[c] = "idle"
    /\ \E enabled \in BOOLEAN :
          /\ asked' = [asked EXCEPT ![c] = enabled]
          /\ GoTo(c, BeginSetup(c, enabled))
    /\ left' = [left EXCEPT ![c] = Patterns]
    /\ UNCHANGED <<attached, own, recorded, stale, partial>>

\* context.route(pattern, abort), one after the other; the record is made after the last.
Route(c) ==
    /\ pc[c] = "route"
    /\ \/ /\ left[c] = {}
          /\ recorded' = recorded \cup {c}
          /\ GoTo(c, "navigate")
          /\ UNCHANGED <<left, attached, own>>
       \/ \E p \in left[c] :
             /\ attached[c][p] < MaxRoutes
             /\ left' = [left EXCEPT ![c] = @ \ {p}]
             /\ attached' = [attached EXCEPT ![c][p] = @ + 1]
             /\ own' = [own EXCEPT ![c] = @ \cup {p}]
             /\ UNCHANGED <<pc, recorded>>
    /\ UNCHANGED <<asked, stale, partial>>

\* What unroute takes away is the handler it is given.
Detach(c, p) ==
    /\ attached' = [attached EXCEPT ![c][p] = IF p \in own[c] THEN @ - 1 ELSE @]
    /\ own' = [own EXCEPT ![c] = @ \ {p}]

\* unroute, one after the other, whose errors are suppressed: such a handler stays.  The
\* record goes after the last.
Unroute(c) ==
    /\ pc[c] \in {"unroute", "unblock"}
    /\ \/ /\ left[c] = {}
          /\ recorded' = recorded \ {c}
          /\ GoTo(c, IF pc[c] = "unroute" THEN "navigate" ELSE "solve")
          /\ partial' = partial \ {c}
          /\ UNCHANGED <<left, attached, own, stale>>
       \/ \E p \in left[c] :
             /\ left' = [left EXCEPT ![c] = @ \ {p}]
             /\ \/ Detach(c, p) /\ UNCHANGED stale
                \/ stale' = stale \cup {c} /\ UNCHANGED <<attached, own>>
             /\ UNCHANGED <<pc, recorded, partial>>
    /\ UNCHANGED asked

BeginSolve(c) == IF c \in recorded THEN "unblock" ELSE "solve"

\* The page is a challenge: it is solved with its media.
Detected(c) ==
    /\ pc[c] = "navigate"
    /\ GoTo(c, BeginSolve(c))
    /\ left' = [left EXCEPT ![c] = Patterns]
    /\ UNCHANGED <<asked, attached, own, recorded, stale, partial>>

Leave(c) ==
    /\ GoTo(c, "idle")
    /\ left' = [left EXCEPT ![c] = {}]
    /\ UNCHANGED <<asked, attached, own, recorded>>

RequestEnds(c) ==
    /\ pc[c] \in {"navigate", "solve"}
    /\ Leave(c)
    /\ UNCHANGED <<stale, partial>>

\* A bug for PagesAsAsked to find: a removal drops its record also when it is cancelled.
RequestTornForgets(c) ==
    /\ pc[c] \in {"route", "unroute", "unblock"}
    /\ GoTo(c, "idle")
    /\ left' = [left EXCEPT ![c] = {}]
    /\ stale' = IF pc[c] = "route" THEN stale \cup {c} ELSE stale
    /\ recorded' = IF pc[c] = "route" THEN recorded ELSE recorded \ {c}
    /\ partial' = partial \ {c}
    /\ UNCHANGED <<asked, attached, own>>

\* route raises, or the request is cancelled at any await of the loops: what was attached is
\* in no record, what was to be taken away is all in it still.
RequestTorn(c) ==
    /\ \/ pc[c] = "route" /\ stale' = stale \cup {c} /\ UNCHANGED partial
       \/ pc[c] \in {"unroute", "unblock"} /\ partial' = partial \cup {c} /\ UNCHANGED stale
    /\ Leave(c)

Next ==
    \E c \in Contexts :
        Request(c) \/ Route(c) \/ Unroute(c) \/ Detected(c) \/ RequestEnds(c) \/ RequestTorn(c)

Spec == Init /\ [][Next]_vars

-----------------------------------------------------------------------------
(***************************************************************************)
(* Properties.                                                             *)
(***************************************************************************)
\* Who asks for no media gets none, whatever the requests before it in the context asked
\* for and also where one of them could not attach its routes: they are attached again.
\* Only where a removal was cancelled the record promises more than there is (solver.py:684).
BlockedAsAsked ==
    \A c \in Contexts \ partial : pc[c] = "navigate" /\ asked[c] =>
        \A p \in Patterns : attached[c][p] > 0

\* Who asks for media, or has a challenge solved, gets them all, also where a removal before
\* was cancelled: the record is kept until the last route, so that it is done again.  Only
\* where routes got lost to the record they stay (solver.py:692, 704).
MediaAsAsked ==
    \A c \in Contexts \ stale : pc[c] = "solve" \/ (pc[c] = "navigate" /\ ~asked[c]) =>
        \A p \in Patterns : attached[c][p] = 0

=============================================================================
