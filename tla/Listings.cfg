\* Up to three rows, pages of two, offsets of three bits.
SPECIFICATION Spec
CONSTANTS
    MaxId = 3
    PageNums = {0, 1, 2, 3, 5}
    PageSizes = {1, 2, 3}
    MinPageSize = 2
    MaxPageSize = 2
    MaxInt32 = 3
    Roles = {"admin", "viewer"}
    RoleCodes <- MCRoleCodes
    MaxInt64 = 2
    Faults = TRUE
INVARIANTS PagesInv NothingSkipped
PROPERTY AnswersRight
