\* Two ids: commands about one prune sessions of the other, and only one id at a time
\* may be live or reserved.  A second build finds no persistent context left and waits for
\* the first.  Liveness under the fairness of the event loop; no symmetry.
SPECIFICATION FairSpec
CONSTANTS
    Ids = {i1, i2}
    Sessions = {s1, s2}
    Requests = {r1, r2}
    None = None
    MaxSessions = 1
    MaxPersistent = 1
PROPERTIES
    CheckedOutSessionsStay
    ImplementsSessionIds
    SessionsMove
