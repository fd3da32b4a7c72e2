SPECIFICATION Spec
CONSTANTS
    h = h
    a = a
    b = b
    x = x
    Home = h
    Remotes = {a}
    Addrs = {x}
    EXCLUSIVE_LOCK_TAG = 3
    Threads <- HomeAndTwoThreads
    Usage <- AsyncWrites
    MaxOps = 2
    MaxEvictions = 1
INVARIANTS Coherent CallsTracked
CHECK_DEADLOCK FALSE
