\* Liveness: three requests for one wallet share two connections.
SPECIFICATION Spec
CONSTANTS
    r1 = r1
    r2 = r2
    r3 = r3
    w1 = w1
    Requests = {r1, r2, r3}
    WalletIDs = {w1}
    InitialWallets = {w1}
    Amounts <- MCAmounts
    MaxInt64 = 1
    MaxOpenConns = 2
    Deadlines = TRUE
    Faults = FALSE
PROPERTIES EveryRequestAnswered TransactionsEnd
