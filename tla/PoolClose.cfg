\* Shutdown of a pool with a warm browser and a request, under fairness.
SPECIFICATION FairSpec
CONSTANTS
    Browsers = {b1, b2}
    Requests = {r1}
    Kinds = {"transient", "persistent"}
    Events = {}
    NoBrowser = NoBrowser
    MinBrowsers = 1
    MaxBrowsers = 1
    MaxContexts = 1
    MaxUses = 1
    ReservedTransient = 0
    MaxCloseRetries = 0
PROPERTIES
    CloseEnds
