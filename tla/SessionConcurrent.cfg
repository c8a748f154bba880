\* Concurrent requests, failing calls, a clock that ticks at any time.
SPECIFICATION Spec
CONSTANTS
    r1 = r1
    r2 = r2
    r3 = r3
    a = a
    b = b
    None = None
    Users = {a, b}
    InitialOperators = {a}
    Requests = {r1, r2, r3}
    Kinds = {"login", "me", "logout", "changePassword", "delete", "restore", "grantRoles", "revokeRoles"}
    TokenDuration = 2
    Isolated = FALSE
    ClockRuns = TRUE
    Faults = TRUE
SYMMETRY RequestSymmetry
CHECK_DEADLOCK FALSE
INVARIANT TypeOK
PROPERTIES KickHitsOnlyTarget EndedStaysEnded
