SPECIFICATION Spec
CONSTANTS
    h = h
    a = a
    b = b
    x = x
    Home = h
    Remotes = {a}
    Addrs = {x}
    EXCLUSIVE_LOCK_TAG = 3
    Threads <- HomeAndTwoThreads
    Usage <- WellLocked
    MaxOps = 2
    MaxEvictions = 0
INVARIANTS LockExclusion
