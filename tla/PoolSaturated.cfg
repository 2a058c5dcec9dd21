\* The default pool: one warm browser of at most two, one context each.
SPECIFICATION Spec
CONSTANTS
    Browsers = {b1, b2}
    Requests = {r1}
    Kinds = {"transient"}
    Events = {}
    NoBrowser = NoBrowser
    MinBrowsers = 1
    MaxBrowsers = 2
    MaxContexts = 1
    MaxUses = 2
    ReservedTransient = 1
    MaxCloseRetries = 1
INVARIANTS
    SaturatedMeansFull
