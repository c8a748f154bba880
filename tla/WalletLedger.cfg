\* Three concurrent requests, a pool of two connections, deadlines and failures.
SPECIFICATION Spec
CONSTANTS
    r1 = r1
    r2 = r2
    r3 = r3
    w1 = w1
    w2 = w2
    Requests = {r1, r2, r3}
    WalletIDs = {w1, w2}
    InitialWallets = {w1}
    Amounts <- MCAmounts
    MaxInt64 = 1
    MaxOpenConns = 2
    Deadlines = TRUE
    Faults = TRUE
SYMMETRY RequestSymmetry
INVARIANTS TypeOK NeverNegative LedgerMatchesBalance AnswerMatchesLedger
PROPERTY ImplementsLedger
