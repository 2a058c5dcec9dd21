\* Two cancellations of the host; two cleanups, one with a caller of run(), and a hand-off
\* with two waiters or a shutdown; two checks of a pool with two contexts.
SPECIFICATION ServiceSpec
CONSTANTS
    MaxCancels = 2
    Tasks = {t1, t2}
    Runners = {t1}
    Holds = {h1}
    Waiters = {w1, w2}
    Events = {e1, e2, e3, e4}
    None = None
    Checks = {k1, k2}
    Slots = 2
CHECK_DEADLOCK FALSE
INVARIANTS
    ShutdownInOrder
    GroupsAreAwaited
    RunsAnswerTruly
    ProbesAreOwned
PROPERTIES
    ServiceMoves
