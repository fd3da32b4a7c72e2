--------------------------- MODULE CoherenceTyping ---------------------------
(***************************************************************************)
(* The type invariant of Coherence, for any set of workers, threads,       *)
(* addresses and calls.                                                    *)
(***************************************************************************)
EXTENDS AnswersTyping

(***************************************************************************)
(* One lemma per action of Next.                                           *)
(***************************************************************************)
\* TypeOK is the conjunction of the parts used above.
LEMMA TypeOKIsServed ==
    /\ TypeOK <=> Served /\ evicted \in Nat
    /\ TypeOK' <=> Served' /\ evicted' \in Nat
BY Zenon
DEF TypeOK, PendOK, NetOK, RemoteqOK, RunOK, AppOK, ThreadStates, LocksHeld,
       Served, Proto

\* Application and service threads belong to workers.
LEMMA AgentTypes ==
    /\ \A t \in Threads : t \in Agents
    /\ \A g \in Agents : WorkerOf(g) \in Workers
    /\ \A w \in Workers : Service(w) \in Agents /\ WorkerOf(Service(w)) = w
BY ThreadsAssumption DEF Agents, WorkerOf, Service

\* A new call is a local request of its thread.
LEMMA IssueType ==
    ASSUME TypeOK, NEW t \in Threads, Issue(t)
    PROVE  TypeOK'
<1>1. PICK u \in Usage[t] :
        LET k == IF u.op = "WRITE" THEN th[t].wrote + 1 ELSE 0
            r == [t |-> t, op |-> u.op, addr |-> u.addr, try |-> u.try,
                  async |-> u.async, k |-> k]
        IN  /\ run' = [run EXCEPT ![t] = <<LocalItem(r)>>]
            /\ th' = [th EXCEPT ![t] =
                        [waiting |-> ~u.async, ops |-> @.ops + 1,
                         wrote |-> IF u.op = "WRITE" THEN k ELSE @.wrote,
                         writes |-> IF u.async THEN @.writes + 1 ELSE @.writes]]
            /\ obs' = IF u.op = "WRITE" THEN [obs EXCEPT ![t][t] = k] ELSE obs
  BY Zenon DEF Issue
<1>2. UNCHANGED <<dir, mem, line, pend, net, localq, remoteq, held, glob, evicted>>
  BY DEF Issue
<1> DEFINE k == IF u.op = "WRITE" THEN th[t].wrote + 1 ELSE 0
           r == [t |-> t, op |-> u.op, addr |-> u.addr, try |-> u.try,
                 async |-> u.async, k |-> k]
<1>3. /\ u.op \in LocalOps /\ u.addr \in Addrs
      /\ u.try \in BOOLEAN /\ u.async \in BOOLEAN
  BY UsageAssumption
<1>4. /\ th[t] \in ThreadStates /\ RunOK(run) /\ Served
      /\ th \in [Threads -> ThreadStates] /\ obs \in [Threads -> Data]
  BY TypeOKIsServed, Zenon DEF Served, Proto, AppOK
<1>5. k \in Nat
  BY <1>4 DEF ThreadStates
<1>6. obs' \in [Threads -> Data]
  BY <1>1, <1>4, <1>5, Zenon DEF Data
<1>7. th' \in [Threads -> ThreadStates]
  <2> DEFINE st == [waiting |-> ~u.async, ops |-> th[t].ops + 1,
                    wrote |-> IF u.op = "WRITE" THEN k ELSE th[t].wrote,
                    writes |-> IF u.async THEN th[t].writes + 1 ELSE th[t].writes]
  <2>1. th' = [th EXCEPT ![t] = st]
    BY <1>1
  <2> HIDE DEF k
  <2>a. /\ th[t].ops + 1 \in Nat /\ th[t].wrote \in Nat
        /\ th[t].writes \in Int /\ th[t].writes + 1 \in Int
    BY <1>4 DEF ThreadStates
  <2>b. (~u.async) \in BOOLEAN
    OBVIOUS
  <2>2. st \in ThreadStates
    BY <1>5, <2>a, <2>b DEF ThreadStates
  <2> HIDE DEF st
  <2>3. QED
    BY <1>4, <2>1, <2>2
<1>8. r \in LocalRequest
  <2> HIDE DEF k
  <2>1. QED
    BY <1>3, <1>5 DEF LocalRequest
<1>9. run' = [run EXCEPT ![t] = <<LocalItem(r)>>]
  BY <1>1
<1> HIDE DEF r
<1>10. \A M : <<LocalItem(r)>> \in Seq(ItemOf(M))
  BY <1>8 DEF ItemOf, LocalItem
<1>11. RunOK(run')
  BY <1>4, <1>9, <1>10, AgentTypes DEF RunOK
<1>12. QED
  BY <1>2, <1>4, <1>6, <1>7, <1>11, TypeOKIsServed, Zenon
  DEF Served, Proto, AppOK

\* ProcessLocalUnLock keeps the types.
LEMMA UnLockType ==
    ASSUME TypeOK, NEW t \in Threads, ProcessLocalUnLock(t)
    PROVE  TypeOK'
<1> DEFINE w == WorkerOf(t)
<1>1. PICK x \in held :
        /\ IF w = Home
           THEN dir' = DirUnLock(dir, x[2]) /\ UNCHANGED line
           ELSE /\ SetLine(w, [line[w] EXCEPT !.locks = UnLock(@, x[2])])
                /\ UNCHANGED dir
        /\ held' = held \ {x}
        /\ ToServe(t)
  BY DEF ProcessLocalUnLock
<1>2. UNCHANGED <<mem, pend, net, localq, remoteq, th, glob, obs, evicted>>
  BY DEF ProcessLocalUnLock
<1>3. Served /\ Proto /\ AppOK /\ t \in Agents /\ w \in Workers
  BY TypeOKIsServed, AgentTypes DEF Served, Proto
<1>4. x[2] \in Addrs /\ held' \in LocksHeld
  BY <1>1, <1>3 DEF AppOK, LocksHeld
<1>5. CASE w = Home
  BY <1>1, <1>3, <1>4, <1>5, DirLockTypes, ToServeType, <1>2, TypeOKIsServed
  DEF Served, Proto, AppOK
<1>6. CASE w # Home
  <2>1. w \in Remotes
    BY <1>3, <1>6 DEF Workers
  <2>2. line[w] \in CacheLineOf(Data) /\ line[w].locks \in LockTable
    BY <1>3, <2>1 DEF Proto, CacheLineOf
  <2> DEFINE c == [line[w] EXCEPT !.locks = UnLock(line[w].locks, x[2])]
  <2>3. c \in CacheLineOf(Data)
    BY <1>4, <2>2, LineTypes, LockTableTypes
  <2>4. SetLine(w, c) /\ UNCHANGED dir /\ ToServe(t)
    BY <1>1, <1>6
  <2> HIDE DEF c
  <2>5. line' \in [Remotes -> CacheLineOf(Data)]
    BY <1>3, <2>1, <2>3, <2>4, SetLineType DEF Proto
  <2>6. RunOK(run')
    BY <1>3, <2>4, ToServeType DEF Served
  <2>7. QED
    BY <1>2, <1>3, <1>4, <2>4, <2>5, <2>6, TypeOKIsServed
    DEF Served, Proto, AppOK
<1>7. QED
  BY <1>5, <1>6

\* A thread that has served one request.
LEMMA RunTail ==
    ASSUME RunOK(run), NEW g \in Agents, run[g] # <<>>,
           run' = [run EXCEPT ![g] = Tail(@)]
    PROVE  RunOK(run')
<1>1. /\ Tail(run[g]) \in Seq(ItemOf(RequestMsg))
      /\ Tail(run[g]) \in Seq(ItemOf(RequestTo(WorkerOf(g))))
  BY DEF RunOK
<1>2. QED
  BY <1>1 DEF RunOK

\* A thread that has taken a queue.
LEMMA RunPush ==
    ASSUME RunOK(run), NEW g \in Agents, run[g] # <<>>,
           NEW s \in Seq(ItemOf(RequestTo(WorkerOf(g)))),
           s \in Seq(ItemOf(RequestMsg)),
           run' = [run EXCEPT ![g] = s \o Tail(@)]
    PROVE  RunOK(run')
<1>1. /\ Tail(run[g]) \in Seq(ItemOf(RequestMsg))
      /\ Tail(run[g]) \in Seq(ItemOf(RequestTo(WorkerOf(g))))
  BY DEF RunOK
<1>2. /\ s \o Tail(run[g]) \in Seq(ItemOf(RequestMsg))
      /\ s \o Tail(run[g]) \in Seq(ItemOf(RequestTo(WorkerOf(g))))
  BY <1>1
<1>3. QED
  BY <1>2 DEF RunOK

\* Taking to_serve_local_requests keeps the types.
LEMMA TakeLocalType ==
    ASSUME TypeOK, NEW g \in Agents, TakeLocal(g)
    PROVE  TypeOK'
<1> DEFINE w == WorkerOf(g)
           q == localq[w]
           s == [i \in 1..Len(q) |-> LocalItem(q[i])]
<1>1. /\ run[g] # <<>>
      /\ run' = [run EXCEPT ![g] = s \o Tail(@)]
      /\ localq' = [localq EXCEPT ![w] = <<>>]
      /\ UNCHANGED <<dir, mem, line, pend, net, remoteq, app, evicted>>
  BY DEF TakeLocal, Take
<1>2. Served /\ w \in Workers /\ q \in Seq(LocalRequest)
  BY TypeOKIsServed, AgentTypes DEF Served, Proto
<1>3. ASSUME NEW M PROVE s \in Seq(ItemOf(M))
  <2>a. \A r \in LocalRequest : LocalItem(r) \in ItemOf(M)
    BY DEF LocalItem, ItemOf
  <2>b. \A i \in 1..Len(q) : q[i] \in LocalRequest
    BY <1>2
  <2>1. \A i \in 1..Len(q) : LocalItem(q[i]) \in ItemOf(M)
    BY <2>a, <2>b
  <2>2. QED
    BY <1>2, <2>1
<1> HIDE DEF s
<1>4. RunOK(run')
  BY <1>1, <1>2, <1>3, RunPush, Zenon DEF Served
<1>5. localq' \in [Workers -> Seq(LocalRequest)]
  BY <1>1, <1>2 DEF Served, Proto
<1>6. QED
  BY <1>1, <1>2, <1>4, <1>5, AppUnchanged, TypeOKIsServed DEF Served, Proto

\* Taking to_serve_requests keeps the types.
LEMMA TakeRemoteType ==
    ASSUME TypeOK, NEW g \in Agents, TakeRemote(g)
    PROVE  TypeOK'
<1> DEFINE w == WorkerOf(g)
           q == remoteq[w]
           s == [i \in 1..Len(q) |-> RemoteItem(q[i])]
<1>1. /\ run[g] # <<>>
      /\ run' = [run EXCEPT ![g] = s \o Tail(@)]
      /\ remoteq' = [remoteq EXCEPT ![w] = <<>>]
      /\ UNCHANGED <<dir, mem, line, pend, net, localq, app, evicted>>
  BY DEF TakeRemote, Take
<1>2. /\ Served /\ w \in Workers
      /\ q \in Seq(RequestTo(w)) /\ q \in Seq(RequestMsg)
  BY TypeOKIsServed, AgentTypes DEF Served, Proto, RemoteqOK
<1>3. ASSUME NEW M, q \in Seq(M) PROVE s \in Seq(ItemOf(M))
  <2>a. \A m \in M : RemoteItem(m) \in ItemOf(M)
    BY DEF RemoteItem, ItemOf
  <2>b. \A i \in 1..Len(q) : q[i] \in M
    BY <1>3
  <2>1. \A i \in 1..Len(q) : RemoteItem(q[i]) \in ItemOf(M)
    BY <2>a, <2>b
  <2>2. QED
    BY <1>3, <2>1
<1>a. s \in Seq(ItemOf(RequestTo(WorkerOf(g)))) /\ s \in Seq(ItemOf(RequestMsg))
  BY <1>2, <1>3
<1> HIDE DEF s
<1>4. RunOK(run')
  BY <1>1, <1>2, <1>a, RunPush, Zenon DEF Served
<1>5. RemoteqOK(remoteq')
  BY <1>1, <1>2 DEF Served, Proto, RemoteqOK
<1>6. QED
  BY <1>1, <1>2, <1>4, <1>5, AppUnchanged, TypeOKIsServed DEF Served, Proto

\* Serving a queued request keeps the types.
LEMMA ServeType ==
    ASSUME TypeOK, NEW g \in Agents, ServeLocal(g) \/ ServeRemote(g)
    PROVE  TypeOK'
<1> DEFINE it == Head(run[g])
<1>1. /\ run[g] # <<>> /\ it.kind \in {"local", "remote"}
      /\ run' = [run EXCEPT ![g] = Tail(@)] /\ UNCHANGED evicted
      /\ \/ it.kind = "local" /\ ProcessLocalRequest(it.r)
         \/ it.kind = "remote" /\ ProcessRequest(WorkerOf(g), it.m, net)
  BY Zenon DEF ServeLocal, ServeRemote, Take
<1>2. Served /\ Proto /\ NetOK(net) /\ RunOK(run) /\ WorkerOf(g) \in Workers
  BY TypeOKIsServed, AgentTypes DEF Served, Proto
<1>3. it \in ItemOf(RequestTo(WorkerOf(g)))
  BY <1>1, <1>2 DEF RunOK
<1> HIDE DEF it
<1>4. RunOK(run')
  BY <1>1, <1>2, RunTail, Zenon
<1>5. /\ it.kind = "local" => it.r \in LocalRequest
      /\ it.kind = "remote" => it.m \in RequestTo(WorkerOf(g))
  BY <1>3 DEF ItemOf
<1>6. Proto'
  BY <1>1, <1>2, <1>5, LocalRequestType, RequestType
<1>7. QED
  BY <1>1, <1>2, <1>4, <1>6, TypeOKIsServed DEF Served

\* The service thread keeps the types, whatever it receives.
LEMMA ReceiveType ==
    ASSUME TypeOK, NEW src \in Workers, NEW w \in Workers, Receive(src, w)
    PROVE  TypeOK'
<1> DEFINE m == Head(net[src][w])
<1>1. net[src][w] # <<>> /\ UNCHANGED evicted
  BY Zenon
  DEF Receive, ReceiveRequest, ReceiveReadReply, ReceiveWriteReply, ReceiveImm,
         Deliverable
<1>2. Served /\ Proto
  BY TypeOKIsServed DEF Served
<1>3. NetOK(Rest(src, w)) /\ m \in MessageTo(w)
  BY <1>1, <1>2, RestType DEF Proto
<1> HIDE DEF m
<1>4. CASE m.op \in RequestOps /\ ProcessRequest(w, m, Rest(src, w)) /\ UNCHANGED run
  <2>1. m \in RequestTo(w)
    BY <1>3, <1>4, MessageKinds
  <2>2. QED
    BY <1>1, <1>2, <1>3, <1>4, <2>1, RequestType, TypeOKIsServed DEF Served
<1>5. CASE ProcessRemoteReadReply(w, Rest(src, w))
  BY <1>1, <1>2, <1>3, <1>5, ReadReplyType, TypeOKIsServed
<1>6. CASE ProcessRemoteWriteReply(w, src, m.ok, Rest(src, w))
  BY <1>1, <1>2, <1>3, <1>6, WriteReplyType, TypeOKIsServed
<1>7. CASE ProcessPendingRequest(w, src, Rest(src, w))
  BY <1>1, <1>2, <1>3, <1>7, PendingRequestType, TypeOKIsServed
<1>8. QED
  BY <1>4, <1>5, <1>6, <1>7, Zenon
  DEF m, Receive, ReceiveRequest, ReceiveReadReply, ReceiveWriteReply, ReceiveImm

\* An RDMA write that lands keeps the types.
LEMMA LandType ==
    ASSUME TypeOK, NEW src \in Workers, NEW w \in Workers, Land(src, w)
    PROVE  TypeOK'
<1> DEFINE q == net[src][w]
<1>1. PICK i \in 1..Len(q) :
        /\ q[i].op = "RDMA_WRITE"
        /\ net' = [net EXCEPT ![src][w] =
                     SubSeq(q, 1, i - 1) \o SubSeq(q, i + 1, Len(q))]
        /\ IF w = Home
           THEN mem' = q[i].data /\ UNCHANGED line
           ELSE SetLine(w, [line[w] EXCEPT !.data = q[i].data]) /\ UNCHANGED mem
  BY Zenon DEF Land
<1>2. UNCHANGED <<dir, pend, localq, remoteq, run, app, evicted>>
  BY DEF Land
<1>a. Served /\ Proto /\ NetOK(net)
  BY TypeOKIsServed DEF Served, Proto
<1>b. q \in Seq(Message) /\ q \in Seq(MessageTo(w))
  BY <1>a DEF NetOK
<1> HIDE DEF q
<1>c. q[i] \in MessageTo(w)
  BY <1>b
<1>3. /\ Served /\ Proto /\ NetOK(net)
      /\ q \in Seq(Message) /\ q \in Seq(MessageTo(w)) /\ q[i] \in MessageTo(w)
  BY <1>a, <1>b, <1>c
<1>4. q[i].data \in Data
  BY <1>1, <1>3, MessageKinds
<1>5. NetOK(net')
  <2> DEFINE s == SubSeq(q, 1, i - 1) \o SubSeq(q, i + 1, Len(q))
  <2>1. ASSUME NEW M, q \in Seq(M) PROVE s \in Seq(M)
    <3>1. SubSeq(q, 1, i - 1) \in Seq(M) /\ SubSeq(q, i + 1, Len(q)) \in Seq(M)
      BY <2>1
    <3>2. QED
      BY <3>1
  <2>2. s \in Seq(Message) /\ s \in Seq(MessageTo(w))
    BY <1>3, <2>1
  <2> HIDE DEF s
  <2>3. net' = [net EXCEPT ![src][w] = s]
    BY <1>1 DEF s
  <2>4. QED
    BY <1>3, <2>2, <2>3 DEF NetOK
<1>6. mem' \in Data /\ line' \in [Remotes -> CacheLineOf(Data)]
  <2>1. CASE w = Home
    BY <1>1, <1>3, <1>4, <2>1 DEF Proto
  <2>2. CASE w # Home
    <3>1. w \in Remotes
      BY <2>2 DEF Workers
    <3> DEFINE c == [line[w] EXCEPT !.data = q[i].data]
    <3>2. c \in CacheLineOf(Data)
      BY <1>3, <1>4, <3>1, LineTypes DEF Proto
    <3>3. SetLine(w, c) /\ UNCHANGED mem
      BY <1>1, <2>2
    <3> HIDE DEF c
    <3>4. QED
      BY <1>3, <3>1, <3>2, <3>3, SetLineType DEF Proto
  <2>3. QED
    BY <2>1, <2>2
<1>7. QED
  BY <1>2, <1>3, <1>5, <1>6, AppUnchanged, TypeOKIsServed DEF Served, Proto

\* CompletionCheck keeps the types.
LEMMA CompletionCheckType ==
    ASSUME TypeOK, NEW w \in Remotes, CompletionCheck(w)
    PROVE  TypeOK'
<1>1. Served /\ w \in Workers
  BY TypeOKIsServed DEF Workers
<1>2. PendOK(pend') /\ RunOK(run')
  BY <1>1, FinishType, Zenon DEF Served, Proto, CompletionCheck
<1>3. line' \in [Remotes -> CacheLineOf(Data)]
  BY <1>1, LineTypes, SetLineType, Zenon
  DEF Served, Proto, CacheState, CompletionCheck
<1>4. QED
  BY <1>1, <1>2, <1>3, AppUnchanged, TypeOKIsServed, Zenon
  DEF Served, Proto, CompletionCheck

\* Evict keeps the types.
LEMMA EvictType ==
    ASSUME TypeOK, NEW w \in Remotes, Evict(w)
    PROVE  TypeOK'
<1> DEFINE c == line[w]
           ms == EvictMessages(w, c)
           left == [CacheToToInvalid(c) EXCEPT !.lru = FALSE]
<1>1. Served /\ Proto /\ w \in Workers /\ Home \in Workers /\ evicted \in Nat
  BY TypeOKIsServed DEF Workers, Served
<1>2. c \in CacheLineOf(Data) /\ c.data \in Data
  BY <1>1 DEF Proto, CacheLineOf
<1>3. ms \in Seq(MessageTo(Home))
  <2>1. /\ Request("ACTIVE_INVALIDATE", w, FALSE) \in MessageTo(Home)
        /\ Request("WRITE_BACK", w, FALSE) \in MessageTo(Home)
    BY DEF Request, MessageTo, RequestTo, HomeRequest, HomeOps
  <2>2. RdmaWrite(c.data) \in MessageTo(Home)
    BY <1>1, <1>2, MessageTypes
  <2> DEFINE shared == <<Request("ACTIVE_INVALIDATE", w, FALSE)>>
             dirty == <<RdmaWrite(c.data), Request("WRITE_BACK", w, FALSE)>>
  <2>3. shared \in Seq(MessageTo(Home)) /\ dirty \in Seq(MessageTo(Home))
    BY <2>1, <2>2 DEF Request, RdmaWrite
  <2>4. ms = IF c.state = "SHARED" THEN shared ELSE dirty
    BY DEF EvictMessages
  <2> HIDE DEF shared, dirty, ms
  <2>5. QED
    BY <2>3, <2>4
<1>4. net' = Post(net, w, Home, ms)
  BY DEF Evict
<1> HIDE DEF ms
<1>5. NetOK(net')
  BY <1>1, <1>3, <1>4, PostType DEF Proto
<1>6. evicted' \in Nat /\ UNCHANGED <<dir, mem, localq, remoteq, run, app>>
  BY <1>1 DEF Evict
<1>7. left \in CacheLineOf(Data)
  BY <1>2, Zenon DEF CacheLineOf, CacheToToInvalid, CacheState
<1> HIDE DEF left
<1>8. CASE SetLine(w, NewLine("INVALID", Zeroes)) /\ UNCHANGED pend
  <2>1. line' \in [Remotes -> CacheLineOf(Data)]
    BY <1>1, <1>2, <1>8, LineTypes, SetLineType DEF Proto, CacheState
  <2>2. QED
    BY <1>1, <1>5, <1>6, <1>8, <2>1, AppUnchanged, TypeOKIsServed
    DEF Served, Proto
<1>9. CASE SetLine(w, left) /\ Pend(w, Leaving("WRITE_BACK"))
  <2>1. line' \in [Remotes -> CacheLineOf(Data)]
    BY <1>1, <1>7, <1>9, SetLineType DEF Proto
  <2>2. PendOK(pend')
    <3>1. Leaving("WRITE_BACK") \in PendingAt(w)
      BY PendingTypes DEF LeavingOps
    <3>2. QED
      BY <1>1, <1>9, <3>1, PendType DEF Proto
  <2>3. QED
    BY <1>1, <1>5, <1>6, <2>1, <2>2, AppUnchanged, TypeOKIsServed
    DEF Served, Proto
<1>10. QED
  BY <1>8, <1>9 DEF Evict, left

(***************************************************************************)
(* Theorems.                                                               *)
(***************************************************************************)
\* The initial state is well typed.
LEMMA InitType == Init => TypeOK
<1> SUFFICES ASSUME Init PROVE TypeOK
  OBVIOUS
<1>1. /\ Zeroes \in Data /\ NoEntry \in DirEntry
      /\ NewLine("INVALID", Zeroes) \in CacheLineOf(Data)
  BY DEF Zeroes, Data, NoEntry, DirEntry, DirState, NoLocks, LockTable,
         NewLine, CacheLineOf, CacheState
<1>2. \A w \in Workers : NoPending \in PendingAt(w) /\ NoPending \in Pending
  BY DEF NoPending, PendingAt, Pending, HomePending, CachePending
<1>3. PendOK(pend) /\ NetOK(net) /\ RemoteqOK(remoteq) /\ RunOK(run)
  BY <1>2 DEF Init, PendOK, NetOK, RemoteqOK, RunOK
<1>4. AppOK
  BY <1>1 DEF Init, AppOK, ThreadStates, LocksHeld
<1>5. QED
  BY <1>1, <1>3, <1>4, TypeOKIsServed DEF Init, Served, Proto

\* Every step keeps the types.
LEMMA NextType == TypeOK /\ [Next]_vars => TypeOK'
<1> SUFFICES ASSUME TypeOK, [Next]_vars PROVE TypeOK'
  OBVIOUS
<1>1. ASSUME NEW t \in Threads, Issue(t) \/ ProcessLocalUnLock(t) PROVE TypeOK'
  BY <1>1, IssueType, UnLockType
<1>2. ASSUME NEW g \in Agents, AgentStep(g) PROVE TypeOK'
  BY <1>2, TakeLocalType, TakeRemoteType, ServeType DEF AgentStep
<1>3. ASSUME NEW src \in Workers, NEW w \in Workers, Receive(src, w) \/ Land(src, w)
      PROVE  TypeOK'
  BY <1>3, ReceiveType, LandType
<1>4. ASSUME NEW w \in Remotes, CompletionCheck(w) \/ Evict(w) PROVE TypeOK'
  BY <1>4, CompletionCheckType, EvictType
<1>5. CASE UNCHANGED vars
  BY <1>5 DEF TypeOK, vars, app
<1>6. QED
  BY <1>1, <1>2, <1>3, <1>4, <1>5 DEF Next, Done

\* The state keeps its type in every behaviour, whatever the set of workers,
\* threads, addresses and calls.  In particular the dispatch of ProcessRequest
\* in worker.cc never meets a request that the worker's part in the protocol has
\* no handler for: home only ever gets, queues and re-runs the requests of
\* caches, a cache only those of home.
THEOREM Typing == Spec => []TypeOK
BY InitType, NextType, PTL DEF Spec

=============================================================================
