SPECIFICATION Spec
CONSTANTS
    h = h
    a = a
    b = b
    x = x
    Home = h
    Remotes = {a, b}
    Addrs = {x}
    EXCLUSIVE_LOCK_TAG = 3
    Threads <- OnePerWorker
    Usage <- HomeWrites
    MaxOps = 2
    MaxEvictions = 1
SYMMETRY RemoteSymmetry
INVARIANTS TypeOK Coherent SingleWriter DirectoryKnows OwnerHasCopy LineMatchesPending NoWildWrite AnswersExpected NoSelfForward
PROPERTIES OneRequestAtATime ReadsMonotonic
CHECK_DEADLOCK FALSE
