---------------------------- MODULE ContentCoding ----------------------------
(***************************************************************************)
(* The incremental decoders of response bodies, _GzipDecoder and           *)
(* _DeflateDecoder of src/camouflare/http_transport.py, against what the   *)
(* codings mean for the body as a whole.                                   *)
(*                                                                         *)
(* A byte of the wire stands for a part of the format: "h" a gzip member's *)
(* header, "z" and "y" the zlib header, "b" the start of a raw deflate     *)
(* stream, "d" data that decodes to one byte, "e" the end of a member or   *)
(* stream with its checksum, "0" a NUL.  zlib is external: it decodes the  *)
(* bytes it is given up to an output limit and keeps the rest.             *)
(***************************************************************************)
EXTENDS Naturals, FiniteSets, Sequences, SequencesExt

CONSTANTS MaxWire,     \* bytes of the body
          ChunkBytes   \* _CHUNK_BYTES

VARIABLES
    coding,     \* "gzip" or "deflate"
    wire,       \* the body as the server sent it
    eager,      \* zlib looks past the output limit for the end of the stream
    rest,       \* what has not arrived yet
    input,      \* _input
    stream,     \* the decompressor: "none", what it expects next, or "eof"
    completed,  \* _members_completed
    call,       \* bytes decoded by the present call of decompress
    output,     \* bytes handed on by the calls before it
    pc

vars == <<coding, wire, eager, rest, input, stream, completed, call, output, pc>>

Alphabet == IF coding = "gzip" THEN {"h", "d", "e", "0"} ELSE {"z", "y", "b", "d", "e"}

TypeOK ==
    /\ coding \in {"gzip", "deflate"}
    /\ wire \in Seq(Alphabet)
    /\ eager \in BOOLEAN
    /\ rest \in Seq(Alphabet)
    /\ input \in Seq(Alphabet)
    /\ stream \in {"none", "gzip", "zlib", "raw", "body", "eof"}
    /\ completed \in Nat
    /\ call \in 0 .. ChunkBytes - 1
    /\ output \in Nat
    /\ pc \in {"feed", "decompress", "finish", "ok", "error"}

Init ==
    /\ coding \in {"gzip", "deflate"}
    /\ wire \in UNION {[1 .. n -> Alphabet] : n \in 0 .. MaxWire}
    /\ eager \in BOOLEAN
    /\ rest = wire
    /\ input = <<>>
    /\ stream = "none"
    /\ completed = 0
    /\ call = 0
    /\ output = 0
    /\ pc = "feed"

-----------------------------------------------------------------------------
(***************************************************************************)
(* zlib.                                                                   *)
(***************************************************************************)
\* The headers a new stream of the kind expects.
Header(kind) ==
    CASE kind = "gzip" -> <<"h">>
      [] kind = "zlib" -> <<"z", "y">>
      [] kind = "raw"  -> <<"b">>
      [] OTHER -> <<>>

Body(kind, bytes) == SubSeq(bytes, Len(Header(kind)) + 1, Len(bytes))

\* Data at the head of bytes.
DataRun(bytes) ==
    CHOOSE n \in 0 .. Len(bytes) :
        /\ \A i \in 1 .. n : bytes[i] = "d"
        /\ n < Len(bytes) => bytes[n + 1] # "d"

\* A stream of the kind may begin with, or go on with, the bytes.
WellFormed(kind, bytes) ==
    /\ IsPrefix(bytes, Header(kind)) \/ IsPrefix(Header(kind), bytes)
    /\ LET body == Body(kind, bytes)
           n == DataRun(body)
       IN  n < Len(body) => body[n + 1] = "e"

\* decompress(bytes, limit): what comes out, whether the stream is at its end and what
\* is left over.  A header that is not complete yet is kept inside.
Decompress(kind, bytes, limit) ==
    LET body == Body(kind, bytes)
        run  == DataRun(body)
        out  == IF run < limit THEN run ELSE limit
        ends == /\ out = run /\ run < Len(body)
                /\ out < limit \/ eager
    IN  [out |-> out, eof |-> ends,
         left |-> SubSeq(body, out + (IF ends THEN 1 ELSE 0) + 1, Len(body))]

-----------------------------------------------------------------------------
(***************************************************************************)
(* The decoders.                                                           *)
(***************************************************************************)
\* A chunk of any size arrives and is added to the input.
Feed ==
    /\ pc = "feed" /\ rest # <<>>
    /\ \E n \in 1 .. Len(rest) :
         /\ input' = input \o SubSeq(rest, 1, n)
         /\ rest' = SubSeq(rest, n + 1, Len(rest))
    /\ pc' = "decompress"
    /\ UNCHANGED <<coding, wire, eager, stream, completed, call, output>>

\* A call returns: it is repeated without data while output is pending.
Return(out, pending) ==
    /\ output' = output + out
    /\ call' = 0
    /\ pc' = IF pending THEN "decompress" ELSE "feed"

Fails ==
    /\ pc' = "error"
    /\ UNCHANGED <<input, stream, completed, call, output>>

Nulls(bytes) ==
    CHOOSE n \in 0 .. Len(bytes) :
        /\ \A i \in 1 .. n : bytes[i] = "0"
        /\ n < Len(bytes) => bytes[n + 1] # "0"

\* A bug for BodiesAreWhole to find: padding between members is not skipped.
PaddingKept(bytes) == bytes

\* NUL padding is accepted after a complete member.
Padding(bytes) ==
    IF stream = "none" /\ completed > 0 THEN SubSeq(bytes, Nulls(bytes) + 1, Len(bytes)) ELSE bytes

\* What the chunk under construction still takes.
Room == ChunkBytes - call

Full(bytes) == bytes >= ChunkBytes

\* One turn of the loop of _GzipDecoder.decompress.
GzipStep ==
    /\ pc = "decompress" /\ coding = "gzip"
    /\ LET bytes == Padding(input)
           kind  == IF stream = "none" THEN "gzip" ELSE stream
           made  == Decompress(kind, bytes, Room)
           full  == Full(call + made.out)
       IN  \/ /\ stream = "none" /\ bytes = <<>>
              /\ Return(call, FALSE)
              /\ input' = bytes
              /\ UNCHANGED <<stream, completed>>
           \/ /\ ~(stream = "none" /\ bytes = <<>>)
              /\ WellFormed(kind, bytes)
              /\ input' = made.left
              /\ stream' = IF made.eof THEN "none" ELSE "body"
              /\ completed' = IF made.eof THEN completed + 1 ELSE completed
              /\ IF full \/ ~made.eof THEN Return(call + made.out, full)
                 ELSE call' = call + made.out /\ UNCHANGED <<output, pc>>
           \/ /\ ~(stream = "none" /\ bytes = <<>>)
              /\ ~WellFormed(kind, bytes)
              /\ Fails
    /\ UNCHANGED <<coding, wire, eager, rest>>

\* _has_zlib_header, which needs two bytes.
Kind(bytes) == IF IsPrefix(Header("zlib"), bytes) THEN "zlib" ELSE "raw"

\* _DeflateDecoder.decompress: a single stream with nothing behind it.
DeflateStep ==
    /\ pc = "decompress" /\ coding = "deflate"
    /\ LET kind == IF stream = "none" THEN Kind(input) ELSE stream
           made == Decompress(kind, input, ChunkBytes)
       IN  \/ /\ stream = "none" /\ Len(input) < 2
              /\ Return(0, FALSE)
              /\ UNCHANGED <<input, stream, completed>>
           \/ /\ stream = "eof"
              /\ IF input # <<>> THEN Fails
                 ELSE Return(0, FALSE) /\ UNCHANGED <<input, stream, completed>>
           \/ /\ stream # "eof" /\ ~(stream = "none" /\ Len(input) < 2)
              /\ IF ~WellFormed(kind, input) \/ (made.eof /\ made.left # <<>>)
                 THEN Fails
                 ELSE /\ stream' = IF made.eof THEN "eof" ELSE "body"
                      /\ input' = made.left
                      /\ Return(made.out, ~made.eof /\ made.out >= ChunkBytes)
                      /\ UNCHANGED completed
    /\ UNCHANGED <<coding, wire, eager, rest>>

\* Nothing may be missing and nothing may be left over.
Complete ==
    IF coding = "gzip" THEN completed > 0 /\ stream = "none" /\ input = <<>>
    ELSE input = <<>> /\ stream = "eof"

Finish ==
    /\ pc = "feed" /\ rest = <<>>
    /\ pc' = IF Complete THEN "ok" ELSE "error"
    /\ UNCHANGED <<coding, wire, eager, rest, input, stream, completed, call, output>>

Next == Feed \/ GzipStep \/ DeflateStep \/ Finish

Spec == Init /\ [][Next]_vars

Fairness == WF_vars(Next)

FairSpec == Spec /\ Fairness

-----------------------------------------------------------------------------
\* What the codings mean: gzip is one or more members, each a header, data and an end,
\* with NULs after any of them; deflate is one stream, with a zlib header or raw.
GzipBody ==
    /\ wire # <<>> /\ wire[1] = "h"
    /\ \A i \in 1 .. Len(wire) :
         LET next == IF i = Len(wire) THEN "." ELSE wire[i + 1] IN
         CASE wire[i] \in {"h", "d"} -> next \in {"d", "e"}
           [] OTHER -> next \in {"h", "0", "."}

DeflateBody ==
    \E kind \in {"zlib", "raw"}, n \in 0 .. MaxWire :
        wire = Header(kind) \o [i \in 1 .. n |-> "d"] \o <<"e">>

Meaningful == IF coding = "gzip" THEN GzipBody ELSE DeflateBody

\* However the body is cut into chunks and whenever the output limit interrupts zlib, a
\* body is accepted exactly when it is complete and well formed, and then all of its
\* data is handed on (http_transport.py:1099, 1144).
DecodesTheWhole ==
    /\ pc = "ok" => Meaningful /\ output = Cardinality({i \in 1 .. Len(wire) : wire[i] = "d"})
    /\ pc = "error" => ~Meaningful

\* The loops end: pending output is never reported for ever (http_transport.py:1050).
DecodingEnds == <>(pc \in {"ok", "error"})
=============================================================================
