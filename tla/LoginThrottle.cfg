\* The code's own limit, four requests at once, any call may fail.
SPECIFICATION Spec
CONSTANTS
    s1 = s1
    s2 = s2
    s3 = s3
    s4 = s4
    Slots = {s1, s2, s3, s4}
    MaxLoginAttempts = 5
    LoginFailTTL = 2
    MaxRetries = 1
    Faults = TRUE
INVARIANTS TypeOK OvershootBound UntimedOnlyWhileRecording
PROPERTY LockEnds
