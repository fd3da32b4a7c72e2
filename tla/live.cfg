SPECIFICATION LiveSpec
CONSTANTS
    h = h
    a = a
    b = b
    x = x
    Home = h
    Remotes = {a}
    Addrs = {x}
    EXCLUSIVE_LOCK_TAG = 3
    Threads <- HomeAndOne
    Usage <- WellLockedOrTried
    MaxOps = 4
    MaxEvictions = 0
PROPERTIES CallsReturn
