\* Role updates overlap, no failures.
SPECIFICATION ReplacementsSpec
CONSTANTS
    r0 = r0
    r1 = r1
    r2 = r2
    r3 = r3
    n1 = n1
    n2 = n2
    e1 = e1
    e2 = e2
    viewer = viewer
    admin = admin
    NoRole = NoRole
    Requests = {r0, r1, r2}
    Founders = {r0}
    Names = {n1, n2}
    Emails = {e1, e2}
    Roles = {viewer, admin}
    Args <- MCArgs
    Faults = FALSE
INVARIANT RolesReplacedAsWhole
