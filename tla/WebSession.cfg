\* Two tabs, two users, two logins.
SPECIFICATION Spec
CONSTANTS
    t1 = t1
    t2 = t2
    ann = ann
    bob = bob
    NoUser = NoUser
    Tabs = {t1, t2}
    Users = {ann, bob}
    MaxTokens = 2
    MaxCalls = 1
SYMMETRY Symmetry
INVARIANTS TabsInv ShowsOwner
