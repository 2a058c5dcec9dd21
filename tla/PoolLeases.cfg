\* One browser with two contexts, two callers of either kind, no warm browsers.
SPECIFICATION Spec
CONSTANTS
    Browsers = {b1, b2, b3}
    Requests = {r1, r2}
    Kinds = {"transient", "persistent"}
    Events = {"disconnect", "age"}
    NoBrowser = NoBrowser
    MinBrowsers = 0
    MaxBrowsers = 1
    MaxContexts = 2
    MaxUses = 2
    ReservedTransient = 1
    MaxCloseRetries = 1
SYMMETRY Symmetry
INVARIANTS
    TypeOK
    Accounting
    LeaseKeepsBrowser
    NobodyStranded
PROPERTIES
    LeasesAreServed
    RetirementIsFinal
    ImplementsLeases
