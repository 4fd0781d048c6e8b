SPECIFICATION Spec
CONSTANTS
    l1 = l1
    l2 = l2
    a1 = a1
    Logins = {l1, l2}
    Admins = {a1}
    Sec = 2
    MaxAttempts = 1
    Base = 1
    MaxLockout = 8
    Window = 2
    CacheTTL = 1
    Passwords = 2
    MaxRestarts = 1
    Never = Never
SYMMETRY Interchangeable
INVARIANTS
    TypeOK
    LockoutCeiling
    RetryHonest
    OpenOnlyBriefly
