\* One request at a time, no failures; the clock ticks between requests.
SPECIFICATION Spec
CONSTANTS
    r1 = r1
    r2 = r2
    r3 = r3
    r4 = r4
    r5 = r5
    a = a
    b = b
    None = None
    Users = {a, b}
    InitialOperators = {a, b}
    Requests = {r1, r2, r3, r4, r5}
    Kinds = {"login", "me", "logout", "changePassword", "delete", "restore"}
    TokenDuration = 2
    Isolated = TRUE
    ClockRuns = FALSE
    Faults = FALSE
SYMMETRY RequestSymmetry
CHECK_DEADLOCK FALSE
INVARIANTS OneSessionPerUser SessionIndexed DeletedHasNoSession SessionsUseCurrentPassword SomeOperatorRemains
