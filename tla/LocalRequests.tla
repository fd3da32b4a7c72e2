---------------------------- MODULE LocalRequests ----------------------------
(***************************************************************************)
(* The application's calls, where they can be served at once or have to    *)
(* ask another worker: Worker::ProcessLocal* for the home worker's threads *)
(* and Cache::ReadWrite and Cache::Lock for the others.                    *)
(***************************************************************************)
EXTENDS CoherenceState

\* In a transition state every local call waits in to_serve_local_requests.
HomeWaits(r) ==
    /\ DirInTransition(dir)
    /\ AddToServeLocalRequest(Home, r)
    /\ UNCHANGED <<dir, mem, pend, net, app>>

\* The owner of a dirty block is asked for its content.
HomeFetches(r) ==
    /\ dir.state = "DIRTY"
    /\ dir' = DirToToShared(dir)
    /\ Pend(Home, ForCall("FETCH_AND_SHARED", 0, r))
    /\ net' = PostAll(net, dir.shared, Request("FETCH_AND_SHARED", Home, r.try))
    /\ UNCHANGED <<mem, localq, app>>

\* Mutant: the counter starts at one whatever the number of copies.
HomeInvalidatesCountOne(r) ==
    LET o == IF dir.state = "DIRTY" THEN "FETCH_AND_INVALIDATE" ELSE "INVALIDATE"
    IN  /\ dir.state \in {"DIRTY", "SHARED"}
        /\ dir' = DirToToUnShared(dir)
        /\ Pend(Home, ForCall(o, 1, r))
        /\ net' = PostAll(net, dir.shared, Request(o, Home, r.try))
        /\ UNCHANGED <<mem, localq, app>>

\* All copies are recalled before a write or a write lock.
HomeInvalidates(r) ==
    LET o == IF dir.state = "DIRTY" THEN "FETCH_AND_INVALIDATE" ELSE "INVALIDATE"
    IN  /\ dir.state \in {"DIRTY", "SHARED"}
        /\ dir' = DirToToUnShared(dir)
        /\ Pend(Home, ForCall(o, Cardinality(dir.shared), r))
        /\ net' = PostAll(net, dir.shared, Request(o, Home, r.try))
        /\ UNCHANGED <<mem, localq, app>>

ProcessLocalRead(r) ==
    /\ \/ HomeWaits(r)
       \/ HomeFetches(r)
       \/ /\ dir.state \in {"UNSHARED", "SHARED"}
          /\ ReadReturns(r, mem)
          /\ UNCHANGED <<dir, mem, pend, net, localq>>
    /\ UNCHANGED <<line, remoteq>>

ProcessLocalWrite(r) ==
    /\ \/ HomeWaits(r)
       \/ HomeInvalidates(r)
       \/ /\ dir.state = "UNSHARED"
          /\ mem' = Store(mem, r)
          /\ WriteTakesEffect(r)
          /\ UNCHANGED <<dir, pend, net, localq>>
    /\ UNCHANGED <<line, remoteq>>

ProcessLocalRLock(r) ==
    /\ \/ HomeWaits(r)
       \/ HomeFetches(r)
       \/ /\ dir.state \in {"UNSHARED", "SHARED"}
          /\ \/ /\ DirCanRLock(dir, r.addr)
                /\ dir' = DirRLock(dir, r.addr)
                /\ LockGranted(r)
                /\ UNCHANGED localq
             \/ /\ ~DirCanRLock(dir, r.addr)
                /\ FailOrWait(Home, r)
                /\ UNCHANGED dir
          /\ UNCHANGED <<mem, pend, net>>
    /\ UNCHANGED <<line, remoteq>>

ProcessLocalWLock(r) ==
    /\ \/ HomeWaits(r)
       \/ HomeInvalidates(r)
       \/ /\ dir.state = "UNSHARED"
          /\ \/ /\ DirCanWLock(dir, r.addr)
                /\ dir' = DirWLock(dir, r.addr)
                /\ LockGranted(r)
                /\ UNCHANGED localq
             \/ /\ ~DirCanWLock(dir, r.addr)
                /\ FailOrWait(Home, r)
                /\ UNCHANGED dir
          /\ UNCHANGED <<mem, pend, net>>
    /\ UNCHANGED <<line, remoteq>>

(***************************************************************************)
(* Calls of the other workers' threads: Cache::ReadWrite and Cache::Lock.  *)
(***************************************************************************)
\* The worker has asked the home worker on behalf of r.
CacheAsks(w, r, o) ==
    /\ Pend(w, ForCall(o, 0, r))
    /\ net' = Post(net, w, Home, <<Request(o, w, r.try)>>)
    /\ UNCHANGED <<localq, app>>

CacheWaits(w, r) ==
    /\ AddToServeLocalRequest(w, r)
    /\ UNCHANGED <<line, pend, net, app>>

\* No line: allocate one and ask for the content, and for ownership if need be.
CacheMisses(w, r) ==
    /\ line[w].state = "INVALID"
    /\ IF r.op \in {"READ", "RLOCK"}
       THEN SetLine(w, NewLine("TO_SHARED", Zeroes)) /\ CacheAsks(w, r, "READ")
       ELSE SetLine(w, NewLine("TO_DIRTY", Zeroes)) /\ CacheAsks(w, r, "WRITE")

\* A line in transition still serves reads while it is on its way out, or
\* while a read lock keeps it.
ReadableInTransition(c) ==
    \/ c.state = "TO_INVALID"
    \/ c.state = "TO_DIRTY" /\ IsBlockLocked(c.locks)

CacheRead(w, r) ==
    /\ \/ CacheMisses(w, r)
       \/ /\ CacheInTransition(line[w]) /\ ~ReadableInTransition(line[w])
          /\ CacheWaits(w, r)
       \/ /\ \/ ReadableInTransition(line[w]) /\ UNCHANGED line
             \/ line[w].state \in {"SHARED", "DIRTY"} /\ SetLine(w, Touch(line[w]))
          /\ ReadReturns(r, line[w].data)
          /\ UNCHANGED <<pend, net, localq>>
    /\ UNCHANGED <<dir, mem, remoteq>>

\* The write to a shared line is copied into it before ownership is granted.
CacheWrite(w, r) ==
    /\ \/ CacheMisses(w, r)
       \/ CacheInTransition(line[w]) /\ CacheWaits(w, r)
       \/ /\ line[w].state = "SHARED"
          /\ SetLine(w, [CacheToToDirty(line[w]) EXCEPT !.data = Store(@, r)])
          /\ CacheAsks(w, r, "WRITE_PERMISSION_ONLY")
       \/ /\ line[w].state = "DIRTY"
          /\ SetLine(w, [Touch(line[w]) EXCEPT !.data = Store(@, r)])
          /\ WriteTakesEffect(r)
          /\ UNCHANGED <<pend, net, localq>>
    /\ UNCHANGED <<dir, mem, remoteq>>

CacheRLock(w, r) ==
    LET c == line[w]
    IN  /\ \/ CacheMisses(w, r)
           \/ CacheInTransition(c) /\ CacheWaits(w, r)
           \/ /\ c.state \in {"SHARED", "DIRTY"}
              /\ \/ /\ CanRLock(c.locks, r.addr)
                    /\ SetLine(w, [Touch(c) EXCEPT !.locks = RLock(@, r.addr)])
                    /\ LockGranted(r)
                    /\ UNCHANGED localq
                 \/ /\ ~CanRLock(c.locks, r.addr)
                    /\ FailOrWait(w, r)
                    /\ UNCHANGED line
              /\ UNCHANGED <<pend, net>>
        /\ UNCHANGED <<dir, mem, remoteq>>

CacheWLock(w, r) ==
    LET c == line[w]
    IN  /\ \/ CacheMisses(w, r)
           \/ CacheInTransition(c) /\ CacheWaits(w, r)
           \/ /\ c.state = "SHARED"
              /\ SetLine(w, CacheToToDirty(c))
              /\ CacheAsks(w, r, "WRITE_PERMISSION_ONLY")
           \/ /\ c.state = "DIRTY"
              /\ \/ /\ CanWLock(c.locks, r.addr)
                    /\ SetLine(w, [Touch(c) EXCEPT !.locks = WLock(@, r.addr)])
                    /\ LockGranted(r)
                    /\ UNCHANGED localq
                 \/ /\ ~CanWLock(c.locks, r.addr)
                    /\ SetLine(w, Touch(c))
                    /\ FailOrWait(w, r)
              /\ UNCHANGED <<pend, net>>
        /\ UNCHANGED <<dir, mem, remoteq>>

\* ProcessLocalRequest, at the worker of the calling thread.
ProcessLocalRequest(r) ==
    LET w == WorkerOf(r.t)
    IN  \/ /\ w = Home
           /\ \/ r.op = "READ" /\ ProcessLocalRead(r)
              \/ r.op = "WRITE" /\ ProcessLocalWrite(r)
              \/ r.op = "RLOCK" /\ ProcessLocalRLock(r)
              \/ r.op = "WLOCK" /\ ProcessLocalWLock(r)
        \/ /\ w # Home
           /\ \/ r.op = "READ" /\ CacheRead(w, r)
              \/ r.op = "WRITE" /\ CacheWrite(w, r)
              \/ r.op = "RLOCK" /\ CacheRLock(w, r)
              \/ r.op = "WLOCK" /\ CacheWLock(w, r)

=============================================================================
