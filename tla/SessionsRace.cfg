\* One id: requests race to create it, share it, destroy it and replace it.
SPECIFICATION Spec
CONSTANTS
    Ids = {i1}
    Sessions = {s1, s2, s3}
    Requests = {r1, r2}
    None = None
    MaxSessions = 1
    MaxPersistent = 2
SYMMETRY Symmetry
INVARIANTS
    TypeOK
    OneSessionPerId
    UseIsExclusive
    NoOrphanResources
PROPERTIES
    PagesOnlyInCurrentSessions
