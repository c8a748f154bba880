\* A failed EXPIRE leaves a counter that never expires.
SPECIFICATION Spec
CONSTANTS
    s1 = s1
    Slots = {s1}
    MaxLoginAttempts = 2
    LoginFailTTL = 2
    MaxRetries = 1
    Faults = TRUE
PROPERTY AlwaysUnlocked
