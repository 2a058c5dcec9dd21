\* Three launches, cancelled up to twice; four callers of close(); two tunnels.
SPECIFICATION Spec
CONSTANTS
    Launches = {l1, l2, l3}
    MaxCancels = 2
    Callers = {a1, a2, a3, a4}
    None = None
    Clients = {c1, c2}
CHECK_DEADLOCK FALSE
INVARIANTS
    BrowsersExitOnce
    TunnelsAreClosed
PROPERTIES
    BrowsersMove
