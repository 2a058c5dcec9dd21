\* Four requests for two slots; one name, a public and a private address, two redirects;
\* coded bodies of up to five bytes; bodies of up to four chunks around a limit of four.
SPECIFICATION Spec
CONSTANTS
    Callers = {r1, r2, r3, r4}
    MaxConcurrency = 2
    Names = {n1}
    Public = {a1}
    Private = {b1}
    MaxRedirects = 2
    MaxKept = 2
    MaxWire = 5
    ChunkBytes = 2
    Limit = 4
    MaxChunk = 3
    MaxChunks = 4
CHECK_DEADLOCK FALSE
INVARIANTS
    AdmissionIsExact
    HopsAsAsked
    BodiesAreWhole
PROPERTIES
    BlameFollowsHop
    TransportMoves
