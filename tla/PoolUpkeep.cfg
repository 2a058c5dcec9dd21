\* One warm browser of one context kept up by the maintenance tick while two requests
\* compete for it, with crashes, wear and retried closes.
SPECIFICATION Spec
CONSTANTS
    Browsers = {b1, b2, b3}
    Requests = {r1, r2}
    Kinds = {"transient", "persistent"}
    Events = {"disconnect"}
    NoBrowser = NoBrowser
    MinBrowsers = 1
    MaxBrowsers = 1
    MaxContexts = 1
    MaxUses = 2
    ReservedTransient = 0
    MaxCloseRetries = 1
SYMMETRY Symmetry
INVARIANTS
    PhysicalCeiling
    ContextLimits
PROPERTIES
    BackgroundLaunchesFit
