SPECIFICATION Spec
CONSTANTS
    h = h
    a = a
    b = b
    x = x
    Home = h
    Remotes = {a, b}
    Addrs = {x}
    EXCLUSIVE_LOCK_TAG = 3
    Threads <- OnePerWorker
    Usage <- RefusedLocks
    MaxOps = 2
    MaxEvictions = 0
SYMMETRY RemoteSymmetry
INVARIANTS LockExclusion LocksRecorded RecallsCounted
