----------------------------- MODULE BodyLimits -----------------------------
(***************************************************************************)
(* How much of a response body is read and handed on: _read_response_body, *)
(* _decode_body and _limited_body_chunks of                                *)
(* src/camouflare/http_transport.py.  A chunk is known by where it ends in *)
(* the body; a content coding turns it into one of any size.  The chunks   *)
(* of the wire are collected first and then decoded.                       *)
(***************************************************************************)
EXTENDS Naturals, Sequences

CONSTANTS Limit,     \* max_body_bytes
          MaxChunk,  \* largest chunk of the wire or of a decoder
          MaxChunks  \* chunks of the wire

VARIABLES
    mode,      \* BodyMode: all of it or a prefix
    coded,     \* there is a content coding
    declared,  \* Content-Length, "none" when it is not given
    wire,      \* where in the body each chunk ends that was collected
    sent,      \* received: bytes that were collected
    next,      \* the chunk that is decoded next
    decoded,   \* bytes the decoder has made
    kept,      \* bytes of the wire given to the decoder
    body,      \* bytes of the result
    pc

vars == <<mode, coded, declared, wire, sent, next, decoded, kept, body, pc>>

Sizes == 0 .. MaxChunk

TypeOK ==
    /\ mode \in {"full", "prefix"}
    /\ coded \in BOOLEAN
    /\ declared \in {"none", "fits", "exceeds"}
    /\ wire \in Seq(Nat)
    /\ sent \in Nat /\ decoded \in Nat /\ kept \in Nat
    /\ next \in 1 .. MaxChunks + 1
    /\ body \in 0 .. Limit
    /\ pc \in {"read", "decode", "complete", "prefix", "error"}

Init ==
    /\ mode \in {"full", "prefix"}
    /\ coded \in BOOLEAN
    /\ declared \in {"none", "fits", "exceeds"}
    /\ wire = <<>>
    /\ sent = 0 /\ next = 1 /\ decoded = 0 /\ kept = 0 /\ body = 0
    /\ pc = IF mode = "full" /\ declared = "exceeds" THEN "error" ELSE "read"

-----------------------------------------------------------------------------
\* Reading stops one byte past the limit at the earliest.
ReadsOn == sent <= Limit

ReceiveChunk ==
    /\ pc = "read" /\ ReadsOn /\ Len(wire) < MaxChunks
    /\ \E size \in Sizes \ {0} :
         /\ wire' = Append(wire, sent + size)
         /\ sent' = sent + size
    /\ UNCHANGED <<mode, coded, declared, next, decoded, kept, body, pc>>

\* The response ends, or enough of it has been read.
ReadingEnds ==
    /\ pc = "read"
    /\ pc' = "decode"
    /\ UNCHANGED <<mode, coded, declared, wire, sent, next, decoded, kept, body>>

\* _limited_body_chunks: what passes of a chunk after received bytes.
Take(size, received) == IF size <= Limit - received THEN size ELSE Limit - received

Oversized(size, received) == size > Limit - received

\* The bytes of the first n chunks.
Through(n) == IF n = 0 THEN 0 ELSE wire[n]

\* One chunk of the wire through both limits; past a limit a full read fails and a
\* prefix is complete.
DecodeChunk ==
    /\ pc = "decode" /\ next <= Len(wire)
    /\ LET size == Through(next) - Through(next - 1)
           part == Take(size, kept)
       IN  IF Oversized(size, kept) /\ mode = "full"
           THEN pc' = "error" /\ UNCHANGED <<decoded, kept, body>>
           ELSE \E made \in IF coded /\ part > 0 THEN Sizes ELSE {part} :
                  /\ kept' = kept + part
                  /\ decoded' = decoded + made
                  /\ IF Oversized(made, body) /\ mode = "full"
                     THEN pc' = "error" /\ UNCHANGED body
                     ELSE /\ body' = body + Take(made, body)
                          /\ pc' = IF Oversized(made, body) \/ Oversized(size, kept)
                                   THEN "prefix" ELSE "decode"
    /\ next' = next + 1
    /\ UNCHANGED <<mode, coded, declared, wire, sent>>

DecodingEnds ==
    /\ pc = "decode" /\ next > Len(wire)
    /\ pc' = "complete"
    /\ UNCHANGED <<mode, coded, declared, wire, sent, next, decoded, kept, body>>

Next == ReceiveChunk \/ ReadingEnds \/ DecodeChunk \/ DecodingEnds

Spec == Init /\ [][Next]_vars

-----------------------------------------------------------------------------
\* What is buffered of a body passes the limit by less than one chunk, however long the
\* server goes on (http_transport.py:941).
ReadIsBounded == sent < Limit + 1 + MaxChunk

\* A full read hands on all that was decoded, or fails when that is more than the limit
\* or the wire was (http_transport.py:1022).
FullIsWhole ==
    /\ mode = "full" /\ pc = "complete" => body = decoded /\ sent = kept /\ sent <= Limit
    /\ mode = "full" /\ pc = "error" =>
          declared = "exceeds" \/ sent > Limit \/ decoded > Limit

\* A prefix read never fails for its size: it gives the first bytes that were decoded,
\* as many as the limit allows, of no more of the wire than that (http_transport.py:1026).
PrefixIsWhole ==
    mode = "prefix" =>
        /\ pc # "error"
        /\ pc \in {"prefix", "complete"} =>
              /\ body = IF decoded < Limit THEN decoded ELSE Limit
              /\ kept <= Limit
              /\ ~coded => body = IF sent < Limit THEN sent ELSE Limit
=============================================================================
