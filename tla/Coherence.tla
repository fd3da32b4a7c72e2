------------------------------ MODULE Coherence ------------------------------
(***************************************************************************)
(* GAM's cache coherence and lock protocol for one block: the home worker  *)
(* with its memory and directory entry, the other workers with their cache *)
(* lines, the application threads that call GAlloc::Read, Write, RLock,    *)
(* WLock, Try_RLock, Try_WLock and UnLock, and one service (polling)       *)
(* thread per worker.                                                      *)
(*                                                                         *)
(* One action is one critical section of the code: what a handler does     *)
(* while it holds the lock of the block, together with the sends and the   *)
(* wake-up it does before or right after the unlock.  The queues of        *)
(* ProcessToServeRequest are emptied after the unlock, one request at a    *)
(* time, by the thread that called it; "run" is what that thread still has *)
(* to do.                                                                  *)
(*                                                                         *)
(* Every ordered pair of workers has a reliable connection: messages,      *)
(* immediates and RDMA writes arrive in the order they were posted.  An    *)
(* RDMA write is taken from the connection by the receiver's NIC, without  *)
(* its service thread.                                                     *)
(***************************************************************************)
EXTENDS LocalRequests, PendingRequests

Init ==
    /\ dir = NoEntry
    /\ mem = Zeroes
    /\ line = [w \in Remotes |-> NewLine("INVALID", Zeroes)]
    /\ pend = [w \in Workers |-> NoPending]
    /\ net = [i \in Workers |-> [j \in Workers |-> <<>>]]
    /\ localq = [w \in Workers |-> <<>>]
    /\ remoteq = [w \in Workers |-> <<>>]
    /\ run = [a \in Agents |-> <<>>]
    /\ th = [t \in Threads |-> [waiting |-> FALSE, ops |-> 0, wrote |-> 0,
                                writes |-> 0]]
    /\ held = {}
    /\ glob = Zeroes
    /\ obs = [t \in Threads |-> Zeroes]
    /\ evicted = 0

Modes(t) == {p[3] : p \in {x \in held : x[1] = t}}

Free(t) == run[t] = <<>> /\ ~th[t].waiting

\* Thread t makes a call.  A lock call waits in the fence until the thread's
\* asynchronous writes are done, and a thread does not lock an address twice;
\* "when" are the locks the application holds at such a call.
Issue(t) ==
    \E u \in Usage[t] :
      LET wr == u.op = "WRITE"
          k == IF wr THEN th[t].wrote + 1 ELSE 0
          r == [t |-> t, op |-> u.op, addr |-> u.addr, try |-> u.try,
                async |-> u.async, k |-> k]
      IN  /\ Free(t)
          /\ th[t].ops < MaxOps
          /\ Modes(t) = u.when
          /\ u.op \in {"RLOCK", "WLOCK"} =>
               th[t].writes = 0 /\ \A p \in held : p[1] = t => p[2] # u.addr
          /\ run' = [run EXCEPT ![t] = <<LocalItem(r)>>]
          /\ th' = [th EXCEPT ![t] =
                      [waiting |-> ~u.async, ops |-> @.ops + 1,
                       wrote |-> IF wr THEN k ELSE @.wrote,
                       writes |-> IF u.async THEN @.writes + 1 ELSE @.writes]]
          /\ obs' = IF wr THEN [obs EXCEPT ![t][t] = k] ELSE obs
          /\ UNCHANGED <<dir, mem, line, pend, net, localq, remoteq, held, glob,
                         evicted>>

\* ProcessLocalUnLock, on the application thread, up to the drain of the queues.
ProcessLocalUnLock(t) ==
    \E p \in held :
      LET w == WorkerOf(t)
      IN  /\ Free(t)
          /\ p[1] = t
          /\ th[t].writes = 0
          /\ IF w = Home
             THEN dir' = DirUnLock(dir, p[2]) /\ UNCHANGED line
             ELSE /\ SetLine(w, [line[w] EXCEPT !.locks = UnLock(@, p[2])])
                  /\ UNCHANGED dir
          /\ held' = held \ {p}
          /\ ToServe(t)
          /\ UNCHANGED <<mem, pend, net, localq, remoteq, th, glob, obs, evicted>>

\* The rest of a thread's call or drain, one critical section at a time.
Take(a, kind) == run[a] # <<>> /\ Head(run[a]).kind = kind

TakeLocal(a) ==
    LET w == WorkerOf(a)
        q == localq[w]
    IN  /\ Take(a, "take_local")
        /\ run' = [run EXCEPT ![a] =
                     [i \in 1..Len(q) |-> LocalItem(q[i])] \o Tail(@)]
        /\ localq' = [localq EXCEPT ![w] = <<>>]
        /\ UNCHANGED <<dir, mem, line, pend, net, remoteq, app, evicted>>

\* Mutant: the thread never gets past the remote queue.
TakeRemoteForever(a) ==
    LET w == WorkerOf(a)
        q == remoteq[w]
    IN  /\ Take(a, "take_remote")
        /\ run' = [run EXCEPT ![a] =
                     [i \in 1..Len(q) |-> RemoteItem(q[i])] \o @]
        /\ remoteq' = [remoteq EXCEPT ![w] = <<>>]
        /\ UNCHANGED <<dir, mem, line, pend, net, localq, app, evicted>>

TakeRemote(a) ==
    LET w == WorkerOf(a)
        q == remoteq[w]
    IN  /\ Take(a, "take_remote")
        /\ run' = [run EXCEPT ![a] =
                     [i \in 1..Len(q) |-> RemoteItem(q[i])] \o Tail(@)]
        /\ remoteq' = [remoteq EXCEPT ![w] = <<>>]
        /\ UNCHANGED <<dir, mem, line, pend, net, localq, app, evicted>>

ServeLocal(a) ==
    /\ Take(a, "local")
    /\ ProcessLocalRequest(Head(run[a]).r)
    /\ run' = [run EXCEPT ![a] = Tail(@)]
    /\ UNCHANGED evicted

ServeRemote(a) ==
    /\ Take(a, "remote")
    /\ ProcessRequest(WorkerOf(a), Head(run[a]).m, net)
    /\ run' = [run EXCEPT ![a] = Tail(@)]
    /\ UNCHANGED evicted

\* w's service thread, done with its last event, takes the next one from src.
Deliverable(src, w) ==
    /\ run[Service(w)] = <<>>
    /\ net[src][w] # <<>>

Rest(src, w) == [net EXCEPT ![src][w] = Tail(@)]

ReceiveRequest(src, w) ==
    /\ Deliverable(src, w)
    /\ Head(net[src][w]).op \in RequestOps
    /\ ProcessRequest(w, Head(net[src][w]), Rest(src, w))
    /\ UNCHANGED <<run, evicted>>

ReceiveReadReply(src, w) ==
    /\ Deliverable(src, w)
    /\ Head(net[src][w]).op = "READ_REPLY"
    /\ ProcessRemoteReadReply(w, Rest(src, w))
    /\ UNCHANGED evicted

ReceiveWriteReply(src, w) ==
    /\ Deliverable(src, w)
    /\ Head(net[src][w]).op = "WRITE_REPLY"
    /\ ProcessRemoteWriteReply(w, src, Head(net[src][w]).ok, Rest(src, w))
    /\ UNCHANGED evicted

ReceiveImm(src, w) ==
    /\ Deliverable(src, w)
    /\ Head(net[src][w]).op = "IMM"
    /\ ProcessPendingRequest(w, src, Rest(src, w))
    /\ UNCHANGED evicted

\* The NIC of w performs src's next RDMA write, ahead of any message before it
\* that w's service thread has not polled yet.
Land(src, w) ==
    \E i \in 1..Len(net[src][w]) :
      LET q == net[src][w]
      IN  /\ q[i].op = "RDMA_WRITE"
          /\ \A j \in 1..(i - 1) : q[j].op # "RDMA_WRITE"
          /\ net' = [net EXCEPT ![src][w] =
                       SubSeq(q, 1, i - 1) \o SubSeq(q, i + 1, Len(q))]
          /\ IF w = Home
             THEN mem' = q[i].data /\ UNCHANGED line
             ELSE SetLine(w, [line[w] EXCEPT !.data = q[i].data]) /\ UNCHANGED mem
          /\ UNCHANGED <<dir, pend, localq, remoteq, run, app, evicted>>

\* The completion of the signaled RDMA write that carried a dirty line away
\* (PENDING_INVALIDATE in CompletionCheck): the line can be freed.
CompletionCheck(w) ==
    /\ run[Service(w)] = <<>>
    /\ pend[w].op = "PENDING_INVALIDATE"
    /\ \A j \in Workers : \A i \in 1..Len(net[w][j]) :
            net[w][j][i].op # "RDMA_WRITE"
    /\ SetLine(w, NewLine("INVALID", Zeroes))
    /\ Finish(w)
    /\ UNCHANGED <<dir, mem, net, localq, remoteq, app, evicted>>

\* Mutant: a dirty line is given up without writing it back.
EvictMessagesNoData(w, c) ==
    IF c.state = "SHARED" THEN <<Request("ACTIVE_INVALIDATE", w, FALSE)>>
                          ELSE <<Request("WRITE_BACK", w, FALSE)>>

EvictMessages(w, c) ==
    IF c.state = "SHARED"
    THEN <<Request("ACTIVE_INVALIDATE", w, FALSE)>>
    ELSE <<RdmaWrite(c.data), Request("WRITE_BACK", w, FALSE)>>

\* Cache::Evict takes this block's line, at any time: a thread of w missed on
\* some block while the cache was full.
Evict(w) ==
    LET c == line[w]
    IN  /\ evicted < MaxEvictions
        /\ Evictable(c)
        /\ evicted' = evicted + 1
        /\ net' = Post(net, w, Home, EvictMessages(w, c))
        /\ \/ /\ c.state = "SHARED"
              /\ SetLine(w, NewLine("INVALID", Zeroes))
              /\ UNCHANGED pend
           \/ /\ c.state = "DIRTY"
              /\ SetLine(w, [CacheToToInvalid(c) EXCEPT !.lru = FALSE])
              /\ Pend(w, Leaving("WRITE_BACK"))
        /\ UNCHANGED <<dir, mem, localq, remoteq, run, app>>

\* Every thread has made its calls and nothing is left to do.
Finished ==
    /\ \A t \in Threads : ~th[t].waiting /\ th[t].writes = 0
    /\ \A a \in Agents : run[a] = <<>>
    /\ held = {}
    /\ \A i, j \in Workers : net[i][j] = <<>>
    /\ \A w \in Workers : pend[w] = NoPending

Done == Finished /\ UNCHANGED vars

AgentStep(a) == TakeLocal(a) \/ TakeRemote(a) \/ ServeLocal(a) \/ ServeRemote(a)
Receive(src, w) ==
    \/ ReceiveRequest(src, w) \/ ReceiveReadReply(src, w)
    \/ ReceiveWriteReply(src, w) \/ ReceiveImm(src, w)

Next ==
    \/ \E t \in Threads : Issue(t) \/ ProcessLocalUnLock(t)
    \/ \E a \in Agents : AgentStep(a)
    \/ \E src, w \in Workers : Receive(src, w) \/ Land(src, w)
    \/ \E w \in Remotes : CompletionCheck(w) \/ Evict(w)
    \/ Done

Spec == Init /\ [][Next]_vars

\* Threads run, the service threads keep polling and the network delivers.
\* Nothing makes an application call again or a line be evicted; an
\* application gives its locks back.
Fairness ==
    /\ \A t \in Threads : WF_vars(ProcessLocalUnLock(t))
    /\ \A a \in Agents : WF_vars(AgentStep(a))
    /\ \A src, w \in Workers : WF_vars(Receive(src, w)) /\ WF_vars(Land(src, w))
    /\ \A w \in Remotes : WF_vars(CompletionCheck(w))

LiveSpec == Spec /\ Fairness

-----------------------------------------------------------------------------
(***************************************************************************)
(* Properties.                                                             *)
(***************************************************************************)

\* Every variable has its type; a request only ever reaches, waits at or is
\* pending at a worker whose part in the protocol (home or cache) has a
\* handler for it.
TypeOK ==
    /\ dir \in DirEntry
    /\ mem \in Data
    /\ line \in [Remotes -> CacheLineOf(Data)]
    /\ pend \in [Workers -> Pending]
    /\ \A w \in Workers : pend[w] \in PendingAt(w)
    /\ net \in [Workers -> [Workers -> Seq(Message)]]
    /\ \A i, j \in Workers : net[i][j] \in Seq(MessageTo(j))
    /\ localq \in [Workers -> Seq(LocalRequest)]
    /\ remoteq \in [Workers -> Seq(RequestMsg)]
    /\ \A w \in Workers : remoteq[w] \in Seq(RequestTo(w))
    /\ run \in [Agents -> Seq(ItemOf(RequestMsg))]
    /\ \A g \in Agents : run[g] \in Seq(ItemOf(RequestTo(WorkerOf(g))))
    /\ th \in [Threads -> [waiting : BOOLEAN, ops : Nat, wrote : Nat,
                           writes : Int]]
    /\ held \subseteq Threads \X Addrs \X {"RLOCK", "WLOCK"}
    /\ glob \in Data
    /\ obs \in [Threads -> Data]
    /\ evicted \in Nat

Valid(w) == line[w].state \in {"SHARED", "DIRTY"}

\* A valid cache line, and the home memory when the directory says it may be
\* read, hold the content left by all the writes that have taken effect.
Coherent ==
    /\ \A w \in Remotes : Valid(w) => line[w].data = glob
    /\ dir.state \in {"UNSHARED", "SHARED"} => mem = glob

\* A dirty line is the only valid copy, and no valid line exists while the
\* home worker writes its memory without asking anybody.
SingleWriter ==
    /\ \A v, w \in Remotes : line[w].state = "DIRTY" /\ v # w => ~Valid(v)
    /\ dir.state = "SHARED" => \A w \in Remotes : line[w].state # "DIRTY"
    /\ dir.state = "UNSHARED" => \A w \in Remotes : ~Valid(w)

InFlight(i, j) == {net[i][j][k] : k \in 1..Len(net[i][j])}

\* The directory knows every valid copy: the home worker can recall it.
DirectoryKnows ==
    \A w \in Remotes :
        /\ line[w].state = "SHARED" =>
             \/ w \in dir.shared
             \/ pend[Home].op = "READ_FORWARD" /\ pend[Home].m.req = w
        /\ line[w].state = "DIRTY" => dir.shared = {w}

\* An RDMA write finds the line it was posted for, still waiting for it.
NoWildWrite ==
    \A i \in Workers, w \in Remotes :
        (\E m \in InFlight(i, w) : m.op = "RDMA_WRITE") =>
            line[w].state \in {"TO_SHARED", "TO_DIRTY"}

Queued(q) == {q[k] : k \in 1..Len(q)}

\* The requests of other workers that w has yet to serve.
Unserved(w) ==
    UNION {{m \in InFlight(i, w) : m.op \in RequestOps} : i \in Workers}
    \cup Queued(remoteq[w])
    \cup UNION {{i.m : i \in {j \in Queued(run[g]) : j.kind = "remote"}} :
                  g \in {g \in Agents : WorkerOf(g) = w}}

\* The home worker asks for the content of a dirty block only where it is: the
\* "cannot find an updated copy" branches of the code are never taken.
OwnerHasCopy ==
    \A w \in Remotes : \A m \in Unserved(w) :
        m.op \notin InvalidateOps =>
            line[w].state \in {"DIRTY", "TO_DIRTY", "TO_INVALID"}

\* A worker is never sent the forward of its own request.
NoSelfForward ==
    pend[Home].op \in {"READ_FORWARD", "WRITE_FORWARD"} =>
        pend[Home].m.req \notin dir.shared

\* The workers that owe the home worker an answer to a recall.
Owing ==
    {w \in Remotes :
        \/ \E m \in Unserved(w) : m.op \in WriteCacheOps
        \/ \E m \in InFlight(w, Home) : m.op \in {"IMM", "WRITE_REPLY"}}

\* While copies are recalled, the pending request counts exactly the workers
\* that have not answered, and the directory still lists them.
RecallsCounted ==
    pend[Home].op \in {"FETCH_AND_INVALIDATE", "INVALIDATE", "INVALIDATE_FORWARD"}
      => /\ pend[Home].counter = Cardinality(Owing)
         /\ Owing \subseteq dir.shared

\* Every answer on its way finds the request it answers still pending.
AnswersExpected ==
    \A i, w \in Workers : \A m \in InFlight(i, w) :
        m.op \in {"IMM", "READ_REPLY", "WRITE_REPLY"} =>
            pend[w].op \notin {"NONE", "PENDING_INVALIDATE"}

\* A cache line is in a transition state exactly while its worker waits for
\* the answer, or the completion, that ends this transition.
LineMatchesPending ==
    \A w \in Remotes :
        /\ line[w].state = "TO_SHARED" <=> pend[w].op = "READ"
        /\ line[w].state = "TO_DIRTY" <=>
             pend[w].op \in {"WRITE", "WRITE_PERMISSION_ONLY"}
        /\ line[w].state = "TO_INVALID" <=> pend[w].op \in LeavingOps

\* The calls that worker w has accepted and not finished.
CallsInProgress(w) ==
    Queued(localq[w])
    \cup UNION {{i.r : i \in {j \in Queued(run[g]) : j.kind = "local"}} :
                  g \in {g \in Agents : WorkerOf(g) = w}}
    \cup (IF pend[w].op \in CacheCallOps \cup HomeCallOps THEN {pend[w].r} ELSE {})

\* No call is lost between the queues, the threads that serve them and the
\* pending requests: a thread waits exactly while its call is in progress, and
\* fence->pending_writes counts exactly its asynchronous writes in progress.
CallsTracked ==
    \A t \in Threads :
        LET mine == {r \in CallsInProgress(WorkerOf(t)) : r.t = t}
        IN  /\ th[t].waiting <=> \E r \in mine : ~r.async
            /\ th[t].writes = Cardinality({r \in mine : r.async})

\* Nobody shares a lock with a holder of the exclusive lock.
LockExclusion ==
    \A p, q \in held : p # q /\ p[2] = q[2] => p[3] = "RLOCK" /\ q[3] = "RLOCK"

\* The lock table of a worker records exactly the locks its threads hold; a
\* locked line is neither evicted nor invalidated.
LocksRecorded ==
    \A w \in Workers, a \in Addrs :
        LET hs == {p \in held : WorkerOf(p[1]) = w /\ p[2] = a}
            n == IF w = Home THEN dir.locks[a] ELSE line[w].locks[a]
        IN  n = IF \E p \in hs : p[3] = "WLOCK" THEN EXCLUSIVE_LOCK_TAG
                                               ELSE Cardinality(hs)

\* What a thread sees of the block never goes back, its own writes included.
ReadsMonotonic ==
    [][\A t, u \in Threads : obs'[t][u] >= obs[t][u]]_obs

\* A worker never starts to wait for a second answer for the block.
OneRequestAtATime ==
    [][\A w \in Workers : pend[w].op # "NONE" /\ pend'[w].op # "NONE"
                             => pend'[w].op = pend[w].op]_pend

\* Every call returns.
CallsReturn == \A t \in Threads : th[t].waiting ~> ~th[t].waiting

=============================================================================
