----------------------------- MODULE MCTransport -----------------------------
(***************************************************************************)
(* The HTTP transport for TLC: admission, fetches, response bodies and     *)
(* their codings.  The four share no state, so a behavior runs one of      *)
(* them; the others rest where none of their fair actions is enabled.      *)
(***************************************************************************)
EXTENDS Naturals, Sequences, FiniteSets

CONSTANTS Callers, MaxConcurrency,                       \* HttpTransport
          Names, Public, Private, MaxRedirects, MaxKept, \* HttpFetch
          MaxWire, ChunkBytes,                           \* ContentCoding
          Limit, MaxChunk, MaxChunks                     \* BodyLimits

ASSUME TransportAssumption ==
    /\ IsFiniteSet(Callers)
    /\ MaxConcurrency \in Nat \ {0}
    /\ Names \cap (Public \cup Private) = {}
    /\ Public \cap Private = {}
    /\ {MaxRedirects, MaxWire, Limit, MaxChunks} \subseteq Nat
    /\ {MaxKept, ChunkBytes, MaxChunk} \subseteq Nat \ {0}

VARIABLES
    running,  \* the part that runs
    place, queue, free, active, accepting, idle, closer,
    hop, request, url, redirects, bound, targets, address, loose, tunnel, pools, outcome,
    coding, bytes, eager, rest, input, stream, completed, call, output, decoder,
    mode, coded, declared, chunks, sent, next, decoded, kept, body, reader

Admission == INSTANCE HttpTransport WITH Requests <- Callers, pc <- place
Fetch == INSTANCE HttpFetch WITH pc <- hop
Coding == INSTANCE ContentCoding WITH wire <- bytes, pc <- decoder
Reading == INSTANCE BodyLimits WITH wire <- chunks, pc <- reader

admissionVars == <<place, queue, free, active, accepting, idle, closer>>
fetchVars == <<hop, request, url, redirects, bound, targets, address, loose, tunnel, pools, outcome>>
codingVars == <<coding, bytes, eager, rest, input, stream, completed, call, output, decoder>>
readingVars == <<mode, coded, declared, chunks, sent, next, decoded, kept, body, reader>>
vars == <<running, admissionVars, fetchVars, codingVars, readingVars>>

-----------------------------------------------------------------------------
FetchRests ==
    /\ Fetch!Init
    /\ request = CHOOSE q \in Fetch!Requests : TRUE

\* An empty body has been refused.
CodingRests ==
    /\ coding = "gzip" /\ eager = FALSE
    /\ bytes = <<>> /\ rest = <<>> /\ input = <<>>
    /\ stream = "none" /\ completed = 0 /\ call = 0 /\ output = 0
    /\ decoder = "error"

\* A response whose declared length is too large has been refused.
ReadingRests ==
    Reading!Init /\ mode = "full" /\ ~coded /\ declared = "exceeds"

Init ==
    \/ /\ running = "admission"
       /\ Admission!Init /\ FetchRests /\ CodingRests /\ ReadingRests
    \/ /\ running = "fetch"
       /\ Admission!Init /\ Fetch!Init /\ CodingRests /\ ReadingRests
    \/ /\ running = "coding"
       /\ Admission!Init /\ FetchRests /\ Coding!Init /\ ReadingRests
    \/ /\ running = "reading"
       /\ Admission!Init /\ FetchRests /\ CodingRests /\ Reading!Init

Next ==
    /\ UNCHANGED running
    /\ \/ /\ running = "admission" /\ Admission!Next
          /\ UNCHANGED <<fetchVars, codingVars, readingVars>>
       \/ /\ running = "fetch" /\ Fetch!Next
          /\ UNCHANGED <<admissionVars, codingVars, readingVars>>
       \/ /\ running = "coding" /\ Coding!Next
          /\ UNCHANGED <<admissionVars, fetchVars, readingVars>>
       \/ /\ running = "reading" /\ Reading!Next
          /\ UNCHANGED <<admissionVars, fetchVars, codingVars>>

Spec == Init /\ [][Next]_vars /\ Admission!Fairness /\ Coding!Fairness

-----------------------------------------------------------------------------
\* Slots are neither lost nor lent twice, whatever race of grants, timeouts and shutdown, and
\* no request uses a connector that was closed (http_transport.py:261).
AdmissionIsExact == Admission!TypeOK /\ Admission!SlotsConserved /\ Admission!ConnectorQuiet

\* Every hop is what its request asked for: origin-bound headers leave for their origin
\* only, blocked private targets are not reached, https is kept, and no socket is left
\* outside of a pool (http_transport.py:318).
HopsAsAsked ==
    /\ Fetch!TypeOK /\ Fetch!BoundHeadersStay /\ Fetch!SentToPublic /\ Fetch!HttpsOnlyStays
    /\ Fetch!NoLooseSocket

\* Proxy and target are blamed for what they did in the current hop (http_transport.py:218).
BlameFollowsHop == Fetch!BlameFollowsHop

\* A coded body is accepted exactly when it is whole, and then decoded entirely; what a
\* full or a prefix read hands on is exact, and what it buffers is bounded
\* (http_transport.py:917).
BodiesAreWhole ==
    /\ Coding!TypeOK /\ Coding!DecodesTheWhole
    /\ Reading!TypeOK /\ Reading!FullIsWhole /\ Reading!PrefixIsWhole /\ Reading!ReadIsBounded

\* The shutdown of the transport ends, nobody is queued for ever, decoding ends.
TransportMoves == Admission!CloseEnds /\ Admission!QueueMoves /\ Coding!DecodingEnds
=============================================================================
