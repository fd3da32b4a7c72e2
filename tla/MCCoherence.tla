----------------------------- MODULE MCCoherence -----------------------------
(***************************************************************************)
(* Small instances of Coherence: which threads run and what they call.     *)
(***************************************************************************)
EXTENDS Coherence, TLC

CONSTANTS h, a, b,  \* the workers; h is the home of the block
          x         \* an address in the block

HomeAndOne == {<<h, 1>>, <<a, 1>>}
HomeAndTwoThreads == {<<h, 1>>, <<a, 1>>, <<a, 2>>}
OnePerWorker == {<<h, 1>>, <<a, 1>>, <<b, 1>>}

Call(o, ad, when) ==
    [op |-> o, addr |-> ad, try |-> FALSE, async |-> FALSE, when |-> when]
TryCall(o, ad) == [Call(o, ad, {}) EXCEPT !.try = TRUE]
AsyncCall(o, ad) == [Call(o, ad, {}) EXCEPT !.async = TRUE]

\* Plain reads and writes.
ReadsAndWrites == [t \in Threads |-> {Call("READ", x, {}), Call("WRITE", x, {})}]

\* The same, but the home worker's thread only writes.
HomeWrites ==
    [t \in Threads |->
        {Call("WRITE", x, {})} \cup
        IF WorkerOf(t) = Home THEN {} ELSE {Call("READ", x, {})}]

\* What GAlloc::Write does: writes return before they have taken effect.
AsyncWrites ==
    [t \in Threads |-> {Call("READ", x, {}), AsyncCall("WRITE", x)}]

\* Every access is made under a lock that covers it, one lock at a time.
WellLocked ==
    [t \in Threads |->
        {Call("RLOCK", x, {}), Call("WLOCK", x, {}),
         Call("READ", x, {"RLOCK"}), Call("WRITE", x, {"WLOCK"})}]

\* Locks of which some may be refused: read locks of the caching workers are
\* tried, write locks tried or waited for; the home worker writes under its own.
RefusedLocks ==
    [t \in Threads |->
        IF WorkerOf(t) = Home
        THEN {Call("WLOCK", x, {}), Call("WRITE", x, {"WLOCK"})}
        ELSE {TryCall("RLOCK", x), Call("WLOCK", x, {}), TryCall("WLOCK", x)}]

\* As WellLocked, and the home worker's thread also tries the write lock.
WellLockedOrTried ==
    [t \in Threads |->
        WellLocked[t] \cup
        IF WorkerOf(t) = Home THEN {TryCall("WLOCK", x)} ELSE {}]

\* Try_WLock, and the accesses it is meant to protect.
TryThenAccess ==
    [t \in Threads |->
        {TryCall("WLOCK", x), Call("WLOCK", x, {}), Call("READ", x, {}),
         Call("WRITE", x, {"WLOCK"})}]

RemoteSymmetry == Permutations(Remotes)

=============================================================================
