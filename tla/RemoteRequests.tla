--------------------------- MODULE RemoteRequests ----------------------------
(***************************************************************************)
(* Requests of other workers: remote_request_cache.cc.  m is the request   *)
(* and n the network once it has been taken from it; the same handlers run *)
(* when the request comes from the queue of waiting requests.              *)
(***************************************************************************)
EXTENDS CoherenceState

\* At the home worker: a request that finds the block taken.
RefuseOrQueue(m, n, reply) ==
    /\ \/ /\ m.try
          /\ net' = Post(n, Home, m.req, <<Reply(reply, FALSE)>>)
          /\ UNCHANGED remoteq
       \/ ~m.try /\ AddToServeRemoteRequest(Home, m) /\ net' = n
    /\ UNCHANGED <<dir, pend>>

HomeQueues(m, n) ==
    /\ DirInTransition(dir)
    /\ AddToServeRemoteRequest(Home, m)
    /\ net' = n
    /\ UNCHANGED <<dir, pend>>

\* Mutant: the request is passed on under its own operation.
ForwardUnchanged(S, o, count, m, n) ==
    /\ Pend(Home, ForRequest(o, count, m))
    /\ net' = PostAll(n, S, m)
    /\ UNCHANGED remoteq

\* m is passed on to the workers in S as an o request.
Forward(S, o, count, m, n) ==
    /\ Pend(Home, ForRequest(o, count, m))
    /\ net' = PostAll(n, S, Request(o, m.req, m.try))
    /\ UNCHANGED remoteq

ProcessRemoteRead(m, n) ==
    /\ \/ HomeQueues(m, n)
       \/ /\ dir.state \in {"UNSHARED", "SHARED"} /\ DirIsBlockWLocked(dir)
          /\ RefuseOrQueue(m, n, "READ_REPLY")
       \/ /\ dir.state \in {"UNSHARED", "SHARED"} /\ ~DirIsBlockWLocked(dir)
          /\ net' = Post(n, Home, m.req, WriteWithImm(mem))
          /\ dir' = DirToShared(dir, m.req)
          /\ UNCHANGED <<pend, remoteq>>
       \/ /\ dir.state = "DIRTY"
          /\ dir' = DirToToShared(dir)
          /\ Forward(dir.shared, "READ_FORWARD", 0, m, n)
    /\ UNCHANGED <<mem, line, localq, app>>

\* Mutant: ownership without the content.
GrantWriteNoData(n, w, withData) ==
    Post(n, Home, w, <<Reply("WRITE_REPLY", TRUE)>>)

\* The answer that makes the requester the owner, with or without content.
GrantWrite(n, w, withData) ==
    Post(n, Home, w, (IF withData THEN <<RdmaWrite(mem)>> ELSE <<>>)
                     \o <<Reply("WRITE_REPLY", TRUE)>>)

ProcessRemoteWrite(m, n) ==
    LET others == dir.shared \ {m.req}
    IN  /\ \/ HomeQueues(m, n)
           \/ /\ dir.state \in {"UNSHARED", "SHARED"} /\ DirIsBlockLocked(dir)
              /\ RefuseOrQueue(m, n, "WRITE_REPLY")
           \/ /\ dir.state = "SHARED" /\ ~DirIsBlockLocked(dir)
              /\ others # {}
              /\ dir' = DirToToDirty(dir)
              /\ Forward(others, "INVALIDATE_FORWARD", Cardinality(others), m, n)
           \/ /\ dir.state \in {"UNSHARED", "SHARED"} /\ ~DirIsBlockLocked(dir)
              /\ dir.state = "SHARED" => others = {}
              /\ net' = GrantWrite(n, m.req, dir.state = "UNSHARED")
              /\ dir' = DirToDirty(dir, m.req)
              /\ UNCHANGED <<pend, remoteq>>
           \/ /\ dir.state = "DIRTY"
              /\ dir' = DirToToDirty(dir)
              /\ Forward(dir.shared, "WRITE_FORWARD", 0, m, n)
        /\ UNCHANGED <<mem, line, localq, app>>

\* Mutant: the eviction of a shared copy is acknowledged too.
ProcessRemoteEvictSharedAck(m, n) ==
    /\ \/ HomeQueues(m, n)
       \/ /\ ~DirInTransition(dir)
          /\ dir' = DirClear(dir, m.req)
          /\ net' = Post(n, Home, m.req, <<Imm>>)
          /\ UNCHANGED <<pend, remoteq>>
    /\ UNCHANGED <<mem, line, localq, app>>

\* ACTIVE_INVALIDATE: m.req has dropped a shared copy.
ProcessRemoteEvictShared(m, n) ==
    /\ \/ HomeQueues(m, n)
       \/ /\ ~DirInTransition(dir)
          /\ dir' = DirClear(dir, m.req)
          /\ net' = n
          /\ UNCHANGED <<pend, remoteq>>
    /\ UNCHANGED <<mem, line, localq, app>>

\* Mutant: the old owner stays in the directory.
ProcessRemoteEvictDirtyNoClear(m, n) ==
    /\ \/ HomeQueues(m, n)
       \/ /\ ~DirInTransition(dir)
          /\ net' = Post(n, Home, m.req, <<Imm>>)
          /\ UNCHANGED <<dir, pend, remoteq>>
    /\ UNCHANGED <<mem, line, localq, app>>

\* WRITE_BACK: m.req has written its dirty copy back and waits to drop it.
ProcessRemoteEvictDirty(m, n) ==
    /\ \/ HomeQueues(m, n)
       \/ /\ ~DirInTransition(dir)
          /\ dir' = DirClear(dir, m.req)
          /\ net' = Post(n, Home, m.req, <<Imm>>)
          /\ UNCHANGED <<pend, remoteq>>
    /\ UNCHANGED <<mem, line, localq, app>>

(***************************************************************************)
(* At a worker that holds a copy.  A forwarded request is answered to its  *)
(* requester as well as to the home worker.                                *)
(***************************************************************************)
\* Mutant: a refusal told to the requester only.
RefuseRequester(n, w, m, reply) ==
    Post(n, w, m.req, <<Reply(reply, FALSE)>>)

Refuse(n, w, m, reply) ==
    LET toHome == Post(n, w, Home, <<Reply(reply, FALSE)>>)
    IN  IF m.op \in {"READ_FORWARD", "WRITE_FORWARD"}
        THEN Post(toHome, w, m.req, <<Reply(reply, FALSE)>>)
        ELSE toHome

CacheQueues(w, m, n) ==
    /\ AddToServeRemoteRequest(w, m)
    /\ net' = n
    /\ UNCHANGED <<line, pend>>

\* A refused or queued request at a locked line.
RefuseOrQueueCache(w, m, n, reply) ==
    \/ m.try /\ net' = Refuse(n, w, m, reply) /\ UNCHANGED <<line, pend, remoteq>>
    \/ ~m.try /\ CacheQueues(w, m, n)

\* A line on its way out answers and keeps its state.
ProcessRemoteReadCache(w, m, n) ==
    LET c == line[w]
        copy == WriteWithImm(c.data)
    IN  /\ c.state # "INVALID"
        /\ \/ c.state = "TO_DIRTY" /\ CacheQueues(w, m, n)
           \/ /\ c.state # "TO_DIRTY" /\ IsBlockWLocked(c.locks)
              /\ RefuseOrQueueCache(w, m, n, "READ_REPLY")
           \/ /\ c.state # "TO_DIRTY" /\ ~IsBlockWLocked(c.locks)
              /\ net' = IF m.op = "READ_FORWARD"
                        THEN Post(Post(n, w, m.req, copy), w, Home, copy)
                        ELSE Post(n, w, Home, copy)
              /\ SetLine(w, IF CacheInTransition(c) THEN c ELSE CacheToShared(c))
              /\ UNCHANGED <<pend, remoteq>>
        /\ UNCHANGED <<dir, mem, localq, app>>

\* Mutant: an invalidated owner acknowledges without its content.
GiveUpAckOnly(n, w, m) ==
    IF m.op = "WRITE_FORWARD"
    THEN Post(Post(n, w, m.req, <<Imm>>), w, Home, <<Imm>>)
    ELSE Post(n, w, Home, <<Imm>>)

\* The messages with which w gives up its copy.
GiveUp(n, w, m) ==
    CASE m.op = "FETCH_AND_INVALIDATE" ->
            Post(n, w, Home, WriteWithImm(line[w].data))
      [] m.op = "WRITE_FORWARD" ->
            Post(Post(n, w, m.req, WriteWithImm(line[w].data)), w, Home, <<Imm>>)
      [] OTHER -> Post(n, w, Home, <<Imm>>)

\* "deadlock" cases 1 and 2: the line's own request is still on its way to the
\* home worker, which did not know of it when it sent m.
CrossedRequests(c, m) ==
    \/ c.state = "TO_INVALID"
    \/ c.state = "TO_DIRTY" /\ m.op \in InvalidateOps

ProcessRemoteWriteCache(w, m, n) ==
    LET c == line[w]
        crossed == CrossedRequests(c, m)
    IN  /\ c.state = "INVALID" => m.op \in InvalidateOps
        /\ \/ /\ c.state = "INVALID"
              /\ net' = GiveUp(n, w, m)
              /\ UNCHANGED <<line, pend, remoteq>>
           \/ /\ CacheInTransition(c) /\ ~crossed
              /\ CacheQueues(w, m, n)
           \/ /\ ~CacheInTransition(c) \/ (crossed /\ m.try)
              /\ IsBlockLocked(c.locks)
              /\ RefuseOrQueueCache(w, m, n, "WRITE_REPLY")
           \/ /\ crossed /\ (IsBlockLocked(c.locks) => ~m.try)
              /\ net' = GiveUp(n, w, m)
              /\ UNCHANGED <<line, pend, remoteq>>
           \/ /\ c.state \in {"SHARED", "DIRTY"} /\ ~IsBlockLocked(c.locks)
              /\ net' = GiveUp(n, w, m)
              /\ \/ /\ m.op \in InvalidateOps
                    /\ SetLine(w, NewLine("INVALID", Zeroes))
                    /\ UNCHANGED pend
                 \/ /\ m.op \notin InvalidateOps
                    /\ SetLine(w, CacheToToInvalid(c))
                    /\ Pend(w, Leaving("PENDING_INVALIDATE"))
              /\ UNCHANGED remoteq
        /\ UNCHANGED <<dir, mem, localq, app>>

\* Worker::ProcessRequest(Client*, WorkRequest*).
ProcessRequest(w, m, n) ==
    \/ m.op = "READ" /\ ProcessRemoteRead(m, n)
    \/ m.op \in {"WRITE", "WRITE_PERMISSION_ONLY"} /\ ProcessRemoteWrite(m, n)
    \/ m.op = "ACTIVE_INVALIDATE" /\ ProcessRemoteEvictShared(m, n)
    \/ m.op = "WRITE_BACK" /\ ProcessRemoteEvictDirty(m, n)
    \/ m.op \in ReadCacheOps /\ ProcessRemoteReadCache(w, m, n)
    \/ m.op \in WriteCacheOps /\ ProcessRemoteWriteCache(w, m, n)

=============================================================================
