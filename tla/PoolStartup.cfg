\* A startup of two browsers racing a request, its cancellation and the shutdown.
SPECIFICATION Spec
CONSTANTS
    Browsers = {b1, b2, b3, b4}
    Requests = {r1}
    Kinds = {"transient"}
    Events = {}
    NoBrowser = NoBrowser
    MinBrowsers = 2
    MaxBrowsers = 2
    MaxContexts = 1
    MaxUses = 1
    ReservedTransient = 0
    MaxCloseRetries = 0
SYMMETRY Symmetry
INVARIANTS
    NoOrphanBrowser
    SingleOwner
    CloseReleasesBrowsers
