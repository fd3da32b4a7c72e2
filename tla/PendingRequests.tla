--------------------------- MODULE PendingRequests ---------------------------
(***************************************************************************)
(* Answers.  w's service thread has taken an answer of src from the        *)
(* network, n is what remains; p is the pending request it belongs to.     *)
(***************************************************************************)
EXTENDS RemoteRequests

Finish(w) == Pend(w, NoPending) /\ ToServe(Service(w))

\* READ_REPLY only ever reports that the block is write locked.
ProcessRemoteReadReply(w, n) ==
    LET p == pend[w]
    IN  /\ \/ /\ p.op = "READ"
              /\ SetLine(w, NewLine("INVALID", Zeroes))
              /\ LockFailed(p.r)
              /\ UNCHANGED dir
           \/ /\ p.op = "FETCH_AND_SHARED"
              /\ dir' = DirUndoDirty(dir)
              /\ LockFailed(p.r)
              /\ UNCHANGED line
           \/ /\ p.op = "READ_FORWARD"
              /\ dir' = DirUndoDirty(dir)
              /\ UNCHANGED <<line, app>>
        /\ Finish(w)
        /\ net' = n
        /\ UNCHANGED <<mem, localq, remoteq>>

\* A refused write at the worker whose thread wanted the lock is undone.
UndoWrite(w, p) ==
    \/ p.op = "WRITE" /\ SetLine(w, NewLine("INVALID", Zeroes)) /\ UNCHANGED dir
    \/ /\ p.op = "WRITE_PERMISSION_ONLY"
       /\ SetLine(w, CacheUndoShared(line[w]))
       /\ UNCHANGED dir
    \/ p.op = "FETCH_AND_INVALIDATE" /\ dir' = DirUndoDirty(dir) /\ UNCHANGED line
    \/ p.op = "INVALIDATE" /\ dir' = DirUndoShared(dir) /\ UNCHANGED line

RefusableOps == {"WRITE", "WRITE_PERMISSION_ONLY",
                 "FETCH_AND_INVALIDATE", "INVALIDATE"}

WriteRefused(w, src, n) ==
    LET p == pend[w]
        left == IF src = Home THEN 0 ELSE p.counter - 1
        q == [p EXCEPT !.counter = left, !.failed = TRUE]
    IN  /\ \/ /\ p.op \in RefusableOps /\ left = 0
              /\ UndoWrite(w, p)
              /\ LockFailed(p.r)
              /\ Finish(w)
              /\ net' = n
           \/ /\ p.op = "WRITE_FORWARD"
              /\ dir' = DirUndoDirty(dir)
              /\ Finish(w)
              /\ net' = Post(n, Home, p.m.req, <<Imm>>)
              /\ UNCHANGED <<line, app>>
           \/ /\ p.op = "INVALIDATE_FORWARD" /\ left = 0
              /\ dir' = DirUndoShared(dir)
              /\ Finish(w)
              /\ net' = Post(n, Home, p.m.req, <<Reply("WRITE_REPLY", FALSE)>>)
              /\ UNCHANGED <<line, app>>
           \/ /\ p.op \in RefusableOps \cup {"INVALIDATE_FORWARD"} /\ left # 0
              /\ Pend(w, q)
              /\ net' = n
              /\ UNCHANGED <<dir, line, run, app>>
        /\ UNCHANGED <<mem, localq, remoteq>>

ProcessPendingRead(w, n) ==
    LET p == pend[w]
        lock == p.r.op = "RLOCK"
        c == CacheToShared(line[w])
        d == DirUndoShared(dir)
    IN  /\ \/ /\ p.op = "READ"
              /\ SetLine(w, IF lock THEN [c EXCEPT !.locks = RLock(@, p.r.addr)]
                                    ELSE c)
              /\ IF lock THEN LockGranted(p.r) ELSE ReadReturns(p.r, c.data)
              /\ UNCHANGED dir
           \/ /\ p.op = "FETCH_AND_SHARED"
              /\ dir' = IF lock THEN DirRLock(d, p.r.addr) ELSE d
              /\ IF lock THEN LockGranted(p.r) ELSE ReadReturns(p.r, mem)
              /\ UNCHANGED line
        /\ Finish(w)
        /\ net' = n
        /\ UNCHANGED <<mem, localq, remoteq>>

ProcessPendingReadForward(n) ==
    /\ dir' = DirToShared(dir, pend[Home].m.req)
    /\ Finish(Home)
    /\ net' = n
    /\ UNCHANGED <<mem, line, localq, remoteq, app>>

\* Ownership has arrived at w: the write, or the lock that may have to wait
\* for read locks of other threads of w.
CacheWriteDone(w, p) ==
    LET c == CacheToDirty(line[w])
    IN  \/ /\ p.r.op = "WRITE"
           /\ SetLine(w, [c EXCEPT !.data = Store(@, p.r)])
           /\ WriteTakesEffect(p.r)
           /\ UNCHANGED localq
        \/ /\ p.r.op = "WLOCK" /\ CanWLock(c.locks, p.r.addr)
           /\ SetLine(w, [c EXCEPT !.locks = WLock(@, p.r.addr)])
           /\ LockGranted(p.r)
           /\ UNCHANGED localq
        \/ /\ p.r.op = "WLOCK" /\ ~CanWLock(c.locks, p.r.addr)
           /\ SetLine(w, c)
           /\ AddToServeLocalRequest(w, p.r)
           /\ UNCHANGED app

\* WRITE and WRITE_PERMISSION_ONLY at the requester, an answer by immediate:
\* a forwarded write needs one from the old owner and one from home.
CachePendingWrite(w, src, n) ==
    LET p == pend[w]
        left == IF src = Home THEN p.counter + 1 ELSE p.counter - 1
    IN  /\ \/ p.failed /\ left = 0 /\ UndoWrite(w, p) /\ LockFailed(p.r)
                /\ Finish(w) /\ UNCHANGED localq
           \/ ~p.failed /\ left = 0 /\ CacheWriteDone(w, p) /\ Finish(w)
                /\ UNCHANGED dir
           \/ left # 0 /\ Pend(w, [p EXCEPT !.counter = left])
                /\ UNCHANGED <<dir, line, localq, run, app>>
        /\ net' = n
        /\ UNCHANGED <<mem, remoteq>>

\* WRITE_REPLY with status SUCCESS, always from home.
WriteGranted(w, n) ==
    /\ pend[w].op \in {"WRITE", "WRITE_PERMISSION_ONLY"}
    /\ pend[w].counter = 0
    /\ CacheWriteDone(w, pend[w])
    /\ Finish(w)
    /\ net' = n
    /\ UNCHANGED <<dir, mem, remoteq>>

ProcessRemoteWriteReply(w, src, ok, n) ==
    \/ ok /\ WriteGranted(w, n)
    \/ ~ok /\ WriteRefused(w, src, n)

\* FETCH_AND_INVALIDATE and INVALIDATE at home: one copy less.
HomePendingWrite(src, n) ==
    LET p == pend[Home]
        left == p.counter - 1
        d == DirRemove(dir, src)
        u == DirToUnShared(d)
    IN  /\ \/ /\ left # 0
              /\ dir' = d
              /\ Pend(Home, [p EXCEPT !.counter = left])
              /\ UNCHANGED <<mem, localq, run, app>>
           \/ /\ left = 0
              /\ Finish(Home)
              /\ \/ /\ p.failed
                    /\ dir' = DirUndoShared(d)
                    /\ LockFailed(p.r)
                    /\ UNCHANGED <<mem, localq>>
                 \/ /\ ~p.failed /\ p.r.op = "WRITE"
                    /\ dir' = u
                    /\ mem' = Store(mem, p.r)
                    /\ WriteTakesEffect(p.r)
                    /\ UNCHANGED localq
                 \/ /\ ~p.failed /\ p.r.op = "WLOCK" /\ DirCanWLock(u, p.r.addr)
                    /\ dir' = DirWLock(u, p.r.addr)
                    /\ LockGranted(p.r)
                    /\ UNCHANGED <<mem, localq>>
                 \/ /\ ~p.failed /\ p.r.op = "WLOCK" /\ ~DirCanWLock(u, p.r.addr)
                    /\ dir' = u
                    /\ AddToServeLocalRequest(Home, p.r)
                    /\ UNCHANGED <<mem, app>>
        /\ net' = n
        /\ UNCHANGED <<line, remoteq>>

ProcessPendingWriteForward(n) ==
    LET new == pend[Home].m.req
    IN  /\ dir' = DirToDirty(dir, new)
        /\ net' = Post(n, Home, new, <<Imm>>)
        /\ Finish(Home)
        /\ UNCHANGED <<mem, line, localq, remoteq, app>>

\* The other copies of a block that the requester wants to write are gone.
\* Its own may be gone as well: then it needs the content after all.
ProcessPendingInvalidateForward(src, n) ==
    LET p == pend[Home]
        left == p.counter - 1
        d == DirRemove(dir, src)
    IN  /\ \/ /\ left # 0
              /\ dir' = d
              /\ Pend(Home, [p EXCEPT !.counter = left])
              /\ net' = n
              /\ UNCHANGED run
           \/ /\ left = 0
              /\ Finish(Home)
              /\ \/ /\ p.failed
                    /\ dir' = DirUndoShared(d)
                    /\ net' = Post(n, Home, p.m.req,
                                   <<Reply("WRITE_REPLY", FALSE)>>)
                 \/ /\ ~p.failed
                    /\ dir' = DirToDirty(d, p.m.req)
                    /\ net' = GrantWrite(n, p.m.req, \/ p.m.op = "WRITE"
                                                     \/ d.state = "UNSHARED")
        /\ UNCHANGED <<mem, line, localq, remoteq, app>>

ProcessPendingEvictDirty(w, n) ==
    /\ SetLine(w, NewLine("INVALID", Zeroes))
    /\ Finish(w)
    /\ net' = n
    /\ UNCHANGED <<dir, mem, localq, remoteq, app>>

\* ProcessRequest(Client*, unsigned): an immediate, dispatched on the request
\* it answers.
ProcessPendingRequest(w, src, n) ==
    LET o == pend[w].op
    IN  \/ o \in {"READ", "FETCH_AND_SHARED"} /\ ProcessPendingRead(w, n)
        \/ o = "READ_FORWARD" /\ ProcessPendingReadForward(n)
        \/ o \in {"WRITE", "WRITE_PERMISSION_ONLY"} /\ CachePendingWrite(w, src, n)
        \/ o \in {"FETCH_AND_INVALIDATE", "INVALIDATE"} /\ HomePendingWrite(src, n)
        \/ o = "WRITE_FORWARD" /\ ProcessPendingWriteForward(n)
        \/ o = "WRITE_BACK" /\ ProcessPendingEvictDirty(w, n)
        \/ o = "INVALIDATE_FORWARD" /\ ProcessPendingInvalidateForward(src, n)

=============================================================================
