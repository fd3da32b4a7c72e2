---------------------------- MODULE ProtocolTypes ----------------------------
(***************************************************************************)
(* The parts of the type invariant of Coherence, and what the operations of *)
(* Locks, Directory, CacheLine and CoherenceState do to them.              *)
(***************************************************************************)
EXTENDS Coherence, FiniteSetTheorems, TLAPS

(***************************************************************************)
(* The parts of TypeOK.                                                    *)
(***************************************************************************)
PendOK(p) == /\ p \in [Workers -> Pending]
             /\ \A w \in Workers : p[w] \in PendingAt(w)
NetOK(n) == /\ n \in [Workers -> [Workers -> Seq(Message)]]
            /\ \A i, j \in Workers : n[i][j] \in Seq(MessageTo(j))
RemoteqOK(q) == /\ q \in [Workers -> Seq(RequestMsg)]
                /\ \A w \in Workers : q[w] \in Seq(RequestTo(w))
RunOK(r) == /\ r \in [Agents -> Seq(ItemOf(RequestMsg))]
            /\ \A g \in Agents : r[g] \in Seq(ItemOf(RequestTo(WorkerOf(g))))
ThreadStates == [waiting : BOOLEAN, ops : Nat, wrote : Nat, writes : Int]
LocksHeld == SUBSET (Threads \X Addrs \X {"RLOCK", "WLOCK"})
AppOK == /\ th \in [Threads -> ThreadStates]
         /\ held \in LocksHeld
         /\ glob \in Data
         /\ obs \in [Threads -> Data]

(***************************************************************************)
(* Messages and the network.                                               *)
(***************************************************************************)
\* The messages the handlers send are messages.
LEMMA MessageTypes ==
    ASSUME NEW w \in Workers
    PROVE  /\ Imm \in MessageTo(w)
           /\ \A d \in Data : RdmaWrite(d) \in MessageTo(w)
           /\ \A o \in {"READ_REPLY", "WRITE_REPLY"}, ok \in BOOLEAN :
                  Reply(o, ok) \in MessageTo(w)
           /\ \A d \in Data : WriteWithImm(d) \in Seq(MessageTo(w))
           /\ <<Imm>> \in Seq(MessageTo(w))
           /\ \A o \in {"READ_REPLY", "WRITE_REPLY"}, ok \in BOOLEAN :
                  <<Reply(o, ok)>> \in Seq(MessageTo(w))
           /\ MessageTo(w) \subseteq Message
           /\ RequestTo(w) \subseteq MessageTo(w)
           /\ RequestTo(w) \subseteq RequestMsg
<1>1. /\ Imm \in MessageTo(w)
      /\ \A d \in Data : RdmaWrite(d) \in MessageTo(w)
      /\ \A o \in {"READ_REPLY", "WRITE_REPLY"}, ok \in BOOLEAN :
            Reply(o, ok) \in MessageTo(w)
  BY DEF Imm, RdmaWrite, Reply, MessageTo, Answer
<1>2. QED
  BY <1>1 DEF WriteWithImm, MessageTo, Message, RequestTo, RequestMsg

\* Posting messages that j has handlers for keeps the network well typed.
LEMMA PostType ==
    ASSUME NEW n, NetOK(n), NEW i \in Workers, NEW j \in Workers,
           NEW ms \in Seq(MessageTo(j))
    PROVE  NetOK(Post(n, i, j, ms))
<1>1. ms \in Seq(Message)
  BY MessageTypes
<1>2. n[i][j] \o ms \in Seq(Message) /\ n[i][j] \o ms \in Seq(MessageTo(j))
  BY <1>1 DEF NetOK
<1>3. QED
  BY <1>2 DEF NetOK, Post

\* So does sending one request to a set of workers.
LEMMA PostAllType ==
    ASSUME NEW n, NetOK(n), NEW S, NEW m,
           \A j \in Workers \cap S : m \in MessageTo(j)
    PROVE  NetOK(PostAll(n, S, m))
<1> DEFINE row == [j \in Workers |-> IF j \in S THEN Append(n[Home][j], m)
                                                ELSE n[Home][j]]
<1>1. \A j \in Workers : row[j] \in Seq(Message) /\ row[j] \in Seq(MessageTo(j))
  BY MessageTypes DEF NetOK, Workers
<1>2. PostAll(n, S, m) = [n EXCEPT ![Home] = row]
  BY DEF PostAll, NetOK, Workers
<1>3. QED
  BY <1>1, <1>2, Zenon DEF NetOK, Workers

\* Taking the head of a connection leaves the rest well typed.
LEMMA RestType ==
    ASSUME NetOK(net), NEW i \in Workers, NEW j \in Workers, net[i][j] # <<>>
    PROVE  /\ NetOK(Rest(i, j))
           /\ Head(net[i][j]) \in MessageTo(j)
<1>1. /\ Tail(net[i][j]) \in Seq(Message) /\ Tail(net[i][j]) \in Seq(MessageTo(j))
      /\ Head(net[i][j]) \in MessageTo(j)
  BY DEF NetOK
<1>2. QED
  BY <1>1 DEF NetOK, Rest

(***************************************************************************)
(* The end of a call.                                                      *)
(***************************************************************************)
\* Notify keeps the threads well typed.
LEMMA NotifyType ==
    ASSUME AppOK, NEW r \in LocalRequest, Notify(r)
    PROVE  th' \in [Threads -> ThreadStates]
BY DEF AppOK, Notify, LocalRequest, ThreadStates

\* A write leaves the content a content.
LEMMA StoreType ==
    ASSUME NEW d \in Data, NEW r \in LocalRequest
    PROVE  Store(d, r) \in Data
BY DEF Store, Data, LocalRequest

\* Every way a call ends leaves the application variables well typed.
LEMMA CallEnds ==
    ASSUME AppOK, NEW r \in LocalRequest
    PROVE  /\ \A d \in Data : ReadReturns(r, d) => AppOK'
           /\ WriteTakesEffect(r) => AppOK'
           /\ r.op \in {"RLOCK", "WLOCK"} /\ LockGranted(r) => AppOK'
           /\ LockFailed(r) => AppOK'
<1>1. ASSUME NEW d \in Data, ReadReturns(r, d) PROVE AppOK'
  <2>1. th' \in [Threads -> ThreadStates]
    BY <1>1, NotifyType DEF ReadReturns
  <2>2. QED
    BY <1>1, <2>1, Zenon DEF AppOK, ReadReturns
<1>2. ASSUME WriteTakesEffect(r) PROVE AppOK'
  <2>1. th' \in [Threads -> ThreadStates]
    BY <1>2, NotifyType DEF WriteTakesEffect
  <2>2. QED
    BY <1>2, <2>1, StoreType DEF AppOK, WriteTakesEffect
<1>3. ASSUME r.op \in {"RLOCK", "WLOCK"}, LockGranted(r) PROVE AppOK'
  <2>1. th' \in [Threads -> ThreadStates]
    BY <1>3, NotifyType DEF LockGranted
  <2>2. held' \in LocksHeld
    BY <1>3 DEF AppOK, LockGranted, LocksHeld, LocalRequest
  <2>3. QED
    BY <1>3, <2>1, <2>2 DEF AppOK, LockGranted
<1>4. ASSUME LockFailed(r) PROVE AppOK'
  <2>1. th' \in [Threads -> ThreadStates]
    BY <1>4, NotifyType DEF LockFailed
  <2>2. QED
    BY <1>4, <2>1 DEF AppOK, LockFailed
<1>5. QED
  BY <1>1, <1>2, <1>3, <1>4

\* A step that does not touch the application keeps its types.
LEMMA AppUnchanged ==
    ASSUME AppOK, UNCHANGED app
    PROVE  AppOK'
BY DEF AppOK, app

\* AddToServeLocalRequest queues a local request.
LEMMA AddLocalType ==
    ASSUME localq \in [Workers -> Seq(LocalRequest)], NEW w \in Workers,
           NEW r \in LocalRequest, AddToServeLocalRequest(w, r)
    PROVE  localq' \in [Workers -> Seq(LocalRequest)]
BY DEF AddToServeLocalRequest

\* A lock call that finds the lock taken ends or is queued.
LEMMA FailOrWaitType ==
    ASSUME AppOK, localq \in [Workers -> Seq(LocalRequest)],
           NEW w \in Workers, NEW r \in LocalRequest, FailOrWait(w, r)
    PROVE  AppOK' /\ localq' \in [Workers -> Seq(LocalRequest)]
BY CallEnds, AppUnchanged, AddLocalType DEF FailOrWait

\* AddToServeRemoteRequest queues a request its worker can serve.
LEMMA AddRemoteType ==
    ASSUME RemoteqOK(remoteq), NEW w \in Workers, NEW m \in RequestTo(w),
           AddToServeRemoteRequest(w, m)
    PROVE  RemoteqOK(remoteq')
<1>1. m \in RequestMsg
  BY MessageTypes
<1>2. QED
  BY <1>1 DEF RemoteqOK, AddToServeRemoteRequest

\* A new pending request of the right kind keeps pend well typed.
LEMMA PendType ==
    ASSUME PendOK(pend), NEW w \in Workers, NEW p \in PendingAt(w), Pend(w, p)
    PROVE  PendOK(pend')
<1>1. p \in Pending
  BY DEF PendingAt, Pending
<1>2. QED
  BY <1>1 DEF PendOK, Pend

\* Entering ProcessToServeRequest gives the thread its two queues to empty.
LEMMA ToServeType ==
    ASSUME RunOK(run), NEW g \in Agents, ToServe(g)
    PROVE  RunOK(run')
<1>1. ASSUME NEW M
      PROVE  <<TakeLocalItem, TakeRemoteItem>> \in Seq(ItemOf(M))
  BY DEF ItemOf, TakeLocalItem, TakeRemoteItem
<1>2. QED
  BY <1>1 DEF RunOK, ToServe

\* Ending a pending request: nothing is pending, the queues are to be served.
LEMMA FinishType ==
    ASSUME PendOK(pend), RunOK(run), NEW w \in Workers, Finish(w)
    PROVE  PendOK(pend') /\ RunOK(run')
<1>1. NoPending \in PendingAt(w)
  BY DEF NoPending, PendingAt, HomePending, CachePending
<1>2. Service(w) \in Agents
  BY DEF Agents
<1>3. QED
  BY <1>1, <1>2, PendType, ToServeType DEF Finish

(***************************************************************************)
(* Directory entries and cache lines.                                      *)
(***************************************************************************)
\* RLock, WLock and UnLock keep the lock table well typed.
LEMMA LockTableTypes ==
    ASSUME NEW l \in LockTable, NEW ad \in Addrs
    PROVE  /\ RLock(l, ad) \in LockTable
           /\ WLock(l, ad) \in LockTable
           /\ UnLock(l, ad) \in LockTable
           /\ NoLocks \in LockTable
BY TagAssumption DEF LockTable, RLock, WLock, UnLock, IsWLocked, NoLocks

\* Every transition of directory.h yields a directory entry.
LEMMA DirTypes ==
    ASSUME NEW e \in DirEntry
    PROVE  /\ NoEntry \in DirEntry
           /\ \A w \in Remotes : /\ DirToShared(e, w) \in DirEntry
                                 /\ DirToDirty(e, w) \in DirEntry
           /\ DirUndoShared(e) \in DirEntry
           /\ DirUndoDirty(e) \in DirEntry
           /\ DirToToShared(e) \in DirEntry
           /\ DirToToDirty(e) \in DirEntry
           /\ DirToToUnShared(e) \in DirEntry
           /\ DirToUnShared(e) \in DirEntry
           /\ \A w : DirRemove(e, w) \in DirEntry
           /\ \A w : DirClear(e, w) \in DirEntry
<1>1. NoEntry \in DirEntry
  BY DEF NoEntry, DirEntry, DirState, NoLocks, LockTable
<1>2. DirToUnShared(e) \in DirEntry
  BY <1>1, Zenon DEF DirToUnShared, DirEntry, DirState
<1>3. /\ \A w : DirRemove(e, w) \in DirEntry
      /\ \A w : DirClear(e, w) \in DirEntry
  BY <1>1, <1>2 DEF DirRemove, DirClear, DirEntry
<1>4. QED
  BY <1>1, <1>2, <1>3, Zenon
  DEF DirEntry, DirState, DirToShared, DirToDirty, DirUndoShared, DirUndoDirty,
      DirToToShared, DirToToDirty, DirToToUnShared

\* So do the lock operations of the directory.
LEMMA DirLockTypes ==
    ASSUME NEW e \in DirEntry, NEW ad \in Addrs
    PROVE  /\ DirRLock(e, ad) \in DirEntry
           /\ DirWLock(e, ad) \in DirEntry
           /\ DirUnLock(e, ad) \in DirEntry
<1>1. e.locks \in LockTable
  BY DEF DirEntry
<1>2. DirRLock(e, ad) \in DirEntry /\ DirWLock(e, ad) \in DirEntry
  BY <1>1, LockTableTypes DEF DirEntry, DirRLock, DirWLock
<1>3. DirUnLock(e, ad) \in DirEntry
  <2> DEFINE n == IF DirIsWLocked(e, ad) THEN 0 ELSE e.locks[ad] - 1
  <2>1. n \in Int
    BY <1>1 DEF LockTable
  <2>2. [e EXCEPT !.locks[ad] = n] \in DirEntry
    BY <1>1, <2>1 DEF DirEntry, LockTable
  <2>3. QED
    BY <2>2, DirTypes DEF DirUnLock
<1>4. QED
  BY <1>2, <1>3

\* Every transition of cache.h yields a cache line.
LEMMA LineTypes ==
    ASSUME NEW c \in CacheLineOf(Data)
    PROVE  /\ \A s \in CacheState : NewLine(s, Zeroes) \in CacheLineOf(Data)
           /\ CacheToShared(c) \in CacheLineOf(Data)
           /\ CacheToDirty(c) \in CacheLineOf(Data)
           /\ CacheToToInvalid(c) \in CacheLineOf(Data)
           /\ CacheToToDirty(c) \in CacheLineOf(Data)
           /\ CacheUndoShared(c) \in CacheLineOf(Data)
           /\ Touch(c) \in CacheLineOf(Data)
           /\ \A d \in Data : [c EXCEPT !.data = d] \in CacheLineOf(Data)
           /\ \A l \in LockTable : [c EXCEPT !.locks = l] \in CacheLineOf(Data)
           /\ \A b \in BOOLEAN : [c EXCEPT !.lru = b] \in CacheLineOf(Data)
           /\ c.data \in Data
           /\ c.locks \in LockTable
           /\ c.state \in CacheState
<1>1. /\ c.data \in Data
      /\ c.locks \in LockTable
      /\ c.state \in CacheState
      /\ c.lru \in BOOLEAN
  BY DEF CacheLineOf
<1>2. \A s \in CacheState : NewLine(s, Zeroes) \in CacheLineOf(Data)
  <2>1. Zeroes \in Data /\ NoLocks \in LockTable
    BY DEF Zeroes, Data, NoLocks, LockTable
  <2>2. QED
    BY <2>1 DEF CacheLineOf, NewLine
<1>3. CacheToShared(c) \in CacheLineOf(Data)
  <2> DEFINE b == (c.state = "TO_SHARED") \/ c.lru
  <2>1. b \in BOOLEAN
    OBVIOUS
  <2>2. CacheToShared(c) = [c EXCEPT !.state = "SHARED", !.lru = b]
    BY DEF CacheToShared
  <2>3. QED
    BY <2>1, <2>2, Zenon DEF CacheLineOf, CacheState
<1>4. QED
  BY <1>1, <1>2, <1>3, Zenon
  DEF CacheLineOf, CacheState, CacheToDirty, CacheToToInvalid, CacheToToDirty,
      CacheUndoShared, Touch

\* Storing a line keeps the lines well typed.
LEMMA SetLineType ==
    ASSUME line \in [Remotes -> CacheLineOf(Data)], NEW w \in Remotes,
           NEW c \in CacheLineOf(Data), SetLine(w, c)
    PROVE  line' \in [Remotes -> CacheLineOf(Data)]
BY DEF SetLine

(***************************************************************************)
(* Requests, and what a worker remembers of those it has sent.             *)
(***************************************************************************)
\* The requests the handlers send are requests their receiver serves.
LEMMA RequestTypes ==
    /\ \A o \in ReadCacheOps \cup WriteCacheOps, q \in Workers,
          try \in BOOLEAN, w \in Remotes :
             Request(o, q, try) \in RequestTo(w)
    /\ \A o \in HomeOps, q \in Remotes, try \in BOOLEAN :
             Request(o, q, try) \in RequestTo(Home)
BY HomeAssumption, Zenon DEF Request, RequestTo, HomeRequest, CacheRequest

\* The pending requests the handlers create are of the kind their worker has.
LEMMA PendingTypes ==
    /\ \A o \in HomeCallOps, k \in Int, r \in LocalRequest :
          ForCall(o, k, r) \in PendingAt(Home)
    /\ \A o \in CacheCallOps, k \in Int, r \in LocalRequest, w \in Remotes :
          ForCall(o, k, r) \in PendingAt(w)
    /\ \A o \in ForwardOps, k \in Int, m \in HomeRequest :
          ForRequest(o, k, m) \in PendingAt(Home)
    /\ \A o \in LeavingOps, w \in Remotes : Leaving(o) \in PendingAt(w)
<1>1. \A o \in HomeCallOps, k \in Int, r \in LocalRequest :
          ForCall(o, k, r) \in PendingAt(Home)
  BY DEF ForCall, PendingAt, HomePending, CallPending
<1>2. \A o \in CacheCallOps, k \in Int, r \in LocalRequest, w \in Remotes :
          ForCall(o, k, r) \in PendingAt(w)
  BY HomeAssumption, Zenon DEF ForCall, PendingAt, CachePending, CallPending
<1>3. \A o \in ForwardOps, k \in Int, m \in HomeRequest :
          ForRequest(o, k, m) \in PendingAt(Home)
  BY DEF ForRequest, PendingAt, HomePending
<1>4. \A o \in LeavingOps, w \in Remotes : Leaving(o) \in PendingAt(w)
  BY HomeAssumption DEF Leaving, PendingAt, CachePending
<1>5. QED
  BY <1>1, <1>2, <1>3, <1>4

\* What an operation says of the worker where it is pending.
LEMMA PendingKinds ==
    ASSUME NEW w \in Workers, NEW p \in PendingAt(w)
    PROVE  /\ p.op \in CacheCallOps \cup LeavingOps => w \in Remotes
           /\ p.op \in HomeCallOps \cup ForwardOps => w = Home
           /\ p.op \in CacheCallOps \cup HomeCallOps =>
                /\ p.r \in LocalRequest
                /\ p.counter \in Int
                /\ \A k \in Int, b \in BOOLEAN :
                     [p EXCEPT !.counter = k, !.failed = b] \in PendingAt(w)
                /\ \A k \in Int : [p EXCEPT !.counter = k] \in PendingAt(w)
           /\ p.op \in ForwardOps =>
                /\ p.m \in HomeRequest
                /\ p.m.req \in Remotes
                /\ p.counter \in Int
                /\ \A k \in Int, b \in BOOLEAN :
                     [p EXCEPT !.counter = k, !.failed = b] \in PendingAt(w)
                /\ \A k \in Int : [p EXCEPT !.counter = k] \in PendingAt(w)
<1> USE HomeAssumption DEF CacheCallOps, LeavingOps, HomeCallOps, ForwardOps
<1>1. CASE w = Home
  <2>1. p \in HomePending
    BY <1>1 DEF PendingAt
  <2>2. CASE p \in [op : {"NONE"}]
    BY <1>1, <2>2, Zenon
  <2>3. CASE p \in CallPending(HomeCallOps)
    BY <1>1, <2>3, Zenon DEF CallPending, PendingAt, HomePending
  <2>4. CASE p \in [op : ForwardOps, counter : Int, failed : BOOLEAN,
                    m : HomeRequest]
    BY <1>1, <2>4, Zenon DEF PendingAt, HomePending, HomeRequest
  <2>5. QED
    BY <2>1, <2>2, <2>3, <2>4, Zenon DEF HomePending
<1>2. CASE w \in Remotes
  <2>1. p \in CachePending
    BY <1>2 DEF PendingAt
  <2>2. CASE p \in [op : {"NONE"} \cup LeavingOps]
    BY <1>2, <2>2, Zenon
  <2>3. CASE p \in CallPending(CacheCallOps)
    BY <1>2, <2>3, Zenon DEF CallPending, PendingAt, CachePending
  <2>4. QED
    BY <2>1, <2>2, <2>3, Zenon DEF CachePending
<1>3. QED
  BY <1>1, <1>2, Zenon DEF Workers

\* The operation of a request tells whether it is for home or for a cache.
LEMMA RequestKinds ==
    ASSUME NEW w \in Workers, NEW m \in RequestTo(w)
    PROVE  /\ m.req \in Workers
           /\ m.try \in BOOLEAN
           /\ m.op \in HomeOps => w = Home /\ m \in HomeRequest /\ m.req \in Remotes
           /\ m.op \in ReadCacheOps \cup WriteCacheOps => w \in Remotes
BY HomeAssumption
DEF RequestTo, HomeRequest, CacheRequest, HomeOps, ReadCacheOps, WriteCacheOps,
    InvalidateOps, Workers

\* The operation of a message tells what it carries.
LEMMA MessageKinds ==
    ASSUME NEW w \in Workers, NEW m \in MessageTo(w)
    PROVE  /\ m.op \in RequestOps => m \in RequestTo(w)
           /\ m.op \in {"READ_REPLY", "WRITE_REPLY"} => m.ok \in BOOLEAN
           /\ m.op = "RDMA_WRITE" => m.data \in Data
BY DEF MessageTo, Answer, RequestTo, HomeRequest, CacheRequest, RequestOps, HomeOps,
       ReadCacheOps, WriteCacheOps, InvalidateOps

\* The number of sharers to recall is an integer.
LEMMA SharersCounted ==
    ASSUME NEW S \in SUBSET Remotes
    PROVE  Cardinality(S) \in Int
BY RemotesAssumption, FS_Subset, FS_CardinalityType

=============================================================================
