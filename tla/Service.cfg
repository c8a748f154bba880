\* A request of any kind and a probe, and the whole life of the process.
SPECIFICATION MCSpec
CONSTANTS
    r1 = r1
    r2 = r2
    ann = ann
    bob = bob
    NoToken = NoToken
    OldToken = OldToken
    NoUser = NoUser
    Requests = {r1, r2}
    Users = {ann, bob}
    Permissions <- MCPermissions
    Args <- MCArgs
    APITimeout = 3
    ReadyTimeout = 1
    Development = TRUE
    ShutdownTimeout = 3
    NewConnGrace = 1
    Faults = TRUE
CHECK_DEADLOCK FALSE
INVARIANTS LifeInv RefusedMeansUntouched AnsweredIsLogged EntriesTrue
PROPERTIES CutsOnlyTheLate SignalEnds
