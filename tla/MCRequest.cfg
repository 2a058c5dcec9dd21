\* Requests of every kind; deadlines of up to ten units for a navigation and of up to eight
\* for its waits; two contexts with two media patterns.
SPECIFICATION RequestSpec
CONSTANTS
    MayExceed = TRUE
    StageCap = 3
    NavigationTimeout = 10
    NavigationLate = 1
    ClearPoll = 2
    IdleCap = 3
    WaitTimeout = 8
    WaitLate = 2
    ResultReserve = 2
    Contexts = {c1, c2}
    Patterns = {images, styles}
    MaxRoutes = 2
CHECK_DEADLOCK FALSE
INVARIANTS
    AnswersAreTrue
    PagesAsAsked
    WaitsUseTheirTime
PROPERTIES
    LooksAreFinal
    RequestMoves
