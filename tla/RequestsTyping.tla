--------------------------- MODULE RequestsTyping ----------------------------
(***************************************************************************)
(* The handlers of LocalRequests and RemoteRequests keep the types.        *)
(***************************************************************************)
EXTENDS ProtocolTypes

(***************************************************************************)
(* Handlers.  Proto is what they read and write.                           *)
(***************************************************************************)
Proto ==
    /\ dir \in DirEntry
    /\ mem \in Data
    /\ line \in [Remotes -> CacheLineOf(Data)]
    /\ PendOK(pend)
    /\ NetOK(net)
    /\ localq \in [Workers -> Seq(LocalRequest)]
    /\ RemoteqOK(remoteq)
    /\ AppOK

\* Calls of home threads that wait, fetch or recall.
LEMMA HomeCallTypes ==
    ASSUME Proto, NEW r \in LocalRequest
    PROVE  /\ HomeWaits(r) /\ UNCHANGED <<line, remoteq>> => Proto'
           /\ HomeFetches(r) /\ UNCHANGED <<line, remoteq>> => Proto'
           /\ HomeInvalidates(r) /\ UNCHANGED <<line, remoteq>> => Proto'
<1> USE DEF Proto
<1>0. /\ Home \in Workers /\ r.try \in BOOLEAN
      /\ dir.shared \in SUBSET Remotes
      /\ Cardinality(dir.shared) \in Int
  BY SharersCounted DEF Workers, LocalRequest, DirEntry
<1>1. ASSUME HomeWaits(r), UNCHANGED <<line, remoteq>> PROVE Proto'
  BY <1>0, <1>1, AddLocalType, AppUnchanged DEF HomeWaits
<1>2. ASSUME NEW o \in ReadCacheOps \cup WriteCacheOps
      PROVE  NetOK(PostAll(net, dir.shared, Request(o, Home, r.try)))
  <2>1. \A j \in Workers \cap dir.shared : Request(o, Home, r.try) \in MessageTo(j)
    BY <1>0, RequestTypes, MessageTypes
  <2>2. QED
    BY <2>1, PostAllType
<1>3. ASSUME HomeFetches(r), UNCHANGED <<line, remoteq>> PROVE Proto'
  <2>1. PendOK(pend')
    BY <1>0, <1>3, PendingTypes, PendType DEF HomeFetches, HomeCallOps
  <2>2. QED
    BY <1>2, <1>3, <2>1, DirTypes, AppUnchanged DEF HomeFetches, ReadCacheOps
<1>4. ASSUME HomeInvalidates(r), UNCHANGED <<line, remoteq>> PROVE Proto'
  <2> DEFINE o == IF dir.state = "DIRTY" THEN "FETCH_AND_INVALIDATE" ELSE "INVALIDATE"
  <2>1. o \in HomeCallOps /\ o \in WriteCacheOps
    BY DEF HomeCallOps, WriteCacheOps, InvalidateOps
  <2>2. /\ dir' = DirToToUnShared(dir)
        /\ Pend(Home, ForCall(o, Cardinality(dir.shared), r))
        /\ net' = PostAll(net, dir.shared, Request(o, Home, r.try))
        /\ UNCHANGED <<mem, localq, app>>
    BY <1>4 DEF HomeInvalidates
  <2> HIDE DEF o
  <2>3. PendOK(pend')
    BY <1>0, <2>1, <2>2, PendingTypes, PendType
  <2>4. QED
    BY <1>2, <1>4, <2>1, <2>2, <2>3, DirTypes, AppUnchanged
<1>5. QED
  BY <1>1, <1>3, <1>4

\* ProcessLocalRead, Write, RLock and WLock keep the types.
LEMMA HomeCalls ==
    ASSUME Proto, NEW r \in LocalRequest
    PROVE  /\ ProcessLocalRead(r) => Proto'
           /\ ProcessLocalWrite(r) => Proto'
           /\ r.op = "RLOCK" /\ ProcessLocalRLock(r) => Proto'
           /\ r.op = "WLOCK" /\ ProcessLocalWLock(r) => Proto'
<1>0. r.addr \in Addrs /\ Home \in Workers
  BY DEF LocalRequest, Workers
<1>1. ASSUME ProcessLocalRead(r) PROVE Proto'
  <2>1. CASE HomeWaits(r) \/ HomeFetches(r)
    BY <1>1, <2>1, HomeCallTypes DEF ProcessLocalRead
  <2>2. CASE ReadReturns(r, mem) /\ UNCHANGED <<dir, mem, pend, net, localq>>
    BY <1>1, <2>2, CallEnds DEF ProcessLocalRead, Proto
  <2>3. QED
    BY <1>1, <2>1, <2>2 DEF ProcessLocalRead
<1>2. ASSUME ProcessLocalWrite(r) PROVE Proto'
  <2>1. CASE HomeWaits(r) \/ HomeInvalidates(r)
    BY <1>2, <2>1, HomeCallTypes DEF ProcessLocalWrite
  <2>2. CASE mem' = Store(mem, r) /\ WriteTakesEffect(r)
               /\ UNCHANGED <<dir, pend, net, localq>>
    BY <1>2, <2>2, CallEnds, StoreType DEF ProcessLocalWrite, Proto
  <2>3. QED
    BY <1>2, <2>1, <2>2 DEF ProcessLocalWrite
<1>3. ASSUME r.op = "RLOCK", ProcessLocalRLock(r) PROVE Proto'
  <2>1. CASE HomeWaits(r) \/ HomeFetches(r)
    BY <1>3, <2>1, HomeCallTypes DEF ProcessLocalRLock
  <2>2. CASE /\ dir' = DirRLock(dir, r.addr) /\ LockGranted(r)
             /\ UNCHANGED <<mem, pend, net, localq>>
    BY <1>0, <1>3, <2>2, CallEnds, DirLockTypes DEF ProcessLocalRLock, Proto
  <2>3. CASE FailOrWait(Home, r) /\ UNCHANGED <<dir, mem, pend, net>>
    BY <1>0, <1>3, <2>3, FailOrWaitType DEF ProcessLocalRLock, Proto
  <2>4. QED
    BY <1>3, <2>1, <2>2, <2>3 DEF ProcessLocalRLock
<1>4. ASSUME r.op = "WLOCK", ProcessLocalWLock(r) PROVE Proto'
  <2>1. CASE HomeWaits(r) \/ HomeInvalidates(r)
    BY <1>4, <2>1, HomeCallTypes DEF ProcessLocalWLock
  <2>2. CASE /\ dir' = DirWLock(dir, r.addr) /\ LockGranted(r)
             /\ UNCHANGED <<mem, pend, net, localq>>
    BY <1>0, <1>4, <2>2, CallEnds, DirLockTypes DEF ProcessLocalWLock, Proto
  <2>3. CASE FailOrWait(Home, r) /\ UNCHANGED <<dir, mem, pend, net>>
    BY <1>0, <1>4, <2>3, FailOrWaitType DEF ProcessLocalWLock, Proto
  <2>4. QED
    BY <1>4, <2>1, <2>2, <2>3 DEF ProcessLocalWLock
<1>5. QED
  BY <1>1, <1>2, <1>3, <1>4

\* A cache that asks home.
LEMMA CacheAsksTypes ==
    ASSUME Proto, NEW w \in Remotes, NEW r \in LocalRequest, NEW o \in CacheCallOps,
           CacheAsks(w, r, o), UNCHANGED <<dir, mem, remoteq>>,
           line' \in [Remotes -> CacheLineOf(Data)]
    PROVE  Proto'
<1>1. w \in Workers /\ Home \in Workers /\ r.try \in BOOLEAN /\ o \in HomeOps
  BY DEF Workers, LocalRequest, CacheCallOps, HomeOps
<1>2. PendOK(pend')
  BY <1>1, PendingTypes, PendType DEF CacheAsks, Proto
<1>3. NetOK(net')
  <2>1. Request(o, w, r.try) \in MessageTo(Home)
    BY <1>1, RequestTypes, MessageTypes
  <2>2. <<Request(o, w, r.try)>> \in Seq(MessageTo(Home))
    BY <2>1
  <2>3. QED
    BY <1>1, <2>2, PostType, Zenon DEF CacheAsks, Proto
<1>4. QED
  BY <1>2, <1>3, AppUnchanged DEF CacheAsks, Proto

\* The lines a cache stores when it serves a call itself.
LEMMA CacheCallTypes ==
    ASSUME Proto, NEW w \in Remotes, NEW r \in LocalRequest,
           UNCHANGED <<dir, mem, remoteq>>
    PROVE  /\ CacheMisses(w, r) => Proto'
           /\ CacheWaits(w, r) => Proto'
<1>0. w \in Workers /\ line[w] \in CacheLineOf(Data)
  BY DEF Workers, Proto
<1>1. ASSUME CacheMisses(w, r) PROVE Proto'
  <2>1. line' \in [Remotes -> CacheLineOf(Data)]
    BY <1>0, <1>1, LineTypes, SetLineType DEF CacheMisses, CacheState, Proto
  <2>2. QED
    BY <1>1, <2>1, CacheAsksTypes DEF CacheMisses, CacheCallOps
<1>2. ASSUME CacheWaits(w, r) PROVE Proto'
  BY <1>0, <1>2, AddLocalType, AppUnchanged DEF CacheWaits, Proto
<1>3. QED
  BY <1>1, <1>2

\* Cache::ReadWrite and Cache::Lock keep the types.
LEMMA CacheCalls ==
    ASSUME Proto, NEW w \in Remotes, NEW r \in LocalRequest
    PROVE  /\ CacheRead(w, r) => Proto'
           /\ CacheWrite(w, r) => Proto'
           /\ r.op = "RLOCK" /\ CacheRLock(w, r) => Proto'
           /\ r.op = "WLOCK" /\ CacheWLock(w, r) => Proto'
<1>0. /\ r.addr \in Addrs /\ w \in Workers /\ line[w] \in CacheLineOf(Data)
      /\ line[w].data \in Data /\ line[w].locks \in LockTable
  BY LineTypes DEF LocalRequest, Workers, Proto
<1>1. ASSUME CacheRead(w, r) PROVE Proto'
  <2>1. CASE CacheMisses(w, r) \/ CacheWaits(w, r)
    BY <1>1, <2>1, CacheCallTypes DEF CacheRead
  <2>2. CASE /\ UNCHANGED line \/ SetLine(w, Touch(line[w]))
             /\ ReadReturns(r, line[w].data)
             /\ UNCHANGED <<pend, net, localq>>
    <3>1. line' \in [Remotes -> CacheLineOf(Data)]
      BY <1>0, <2>2, LineTypes, SetLineType DEF Proto
    <3>2. QED
      BY <1>0, <1>1, <2>2, <3>1, CallEnds DEF CacheRead, Proto
  <2>3. QED
    BY <1>1, <2>1, <2>2 DEF CacheRead
<1>2. ASSUME CacheWrite(w, r) PROVE Proto'
  <2>1. CASE CacheMisses(w, r) \/ CacheWaits(w, r)
    BY <1>2, <2>1, CacheCallTypes DEF CacheWrite
  <2>2. CASE /\ SetLine(w, [CacheToToDirty(line[w]) EXCEPT !.data = Store(@, r)])
             /\ CacheAsks(w, r, "WRITE_PERMISSION_ONLY")
    <3>1. CacheToToDirty(line[w]) \in CacheLineOf(Data)
      BY <1>0, LineTypes
    <3>2. [CacheToToDirty(line[w]) EXCEPT !.data = Store(@, r)]
            \in CacheLineOf(Data)
      BY <3>1, LineTypes, StoreType
    <3>3. line' \in [Remotes -> CacheLineOf(Data)]
      BY <2>2, <3>2, SetLineType DEF Proto
    <3>4. QED
      BY <1>2, <2>2, <3>3, CacheAsksTypes DEF CacheWrite, CacheCallOps
  <2>3. CASE /\ SetLine(w, [Touch(line[w]) EXCEPT !.data = Store(@, r)])
             /\ WriteTakesEffect(r)
             /\ UNCHANGED <<pend, net, localq>>
    <3>1. Touch(line[w]) \in CacheLineOf(Data)
      BY <1>0, LineTypes
    <3>2. [Touch(line[w]) EXCEPT !.data = Store(@, r)] \in CacheLineOf(Data)
      BY <3>1, LineTypes, StoreType
    <3>3. line' \in [Remotes -> CacheLineOf(Data)]
      BY <2>3, <3>2, SetLineType DEF Proto
    <3>4. QED
      BY <1>2, <2>3, <3>3, CallEnds DEF CacheWrite, Proto
  <2>4. QED
    BY <1>2, <2>1, <2>2, <2>3 DEF CacheWrite
<1>3. ASSUME r.op = "RLOCK", CacheRLock(w, r) PROVE Proto'
  <2>1. CASE CacheMisses(w, r) \/ CacheWaits(w, r)
    BY <1>3, <2>1, CacheCallTypes DEF CacheRLock
  <2>2. CASE /\ SetLine(w, [Touch(line[w]) EXCEPT !.locks = RLock(@, r.addr)])
             /\ LockGranted(r)
             /\ UNCHANGED <<pend, net, localq>>
    <3>1. Touch(line[w]) \in CacheLineOf(Data)
      BY <1>0, LineTypes
    <3>2. [Touch(line[w]) EXCEPT !.locks = RLock(@, r.addr)] \in CacheLineOf(Data)
      BY <1>0, <3>1, LineTypes, LockTableTypes
    <3>3. line' \in [Remotes -> CacheLineOf(Data)]
      BY <2>2, <3>2, SetLineType DEF Proto
    <3>4. QED
      BY <1>3, <2>2, <3>3, CallEnds DEF CacheRLock, Proto
  <2>3. CASE FailOrWait(w, r) /\ UNCHANGED <<line, pend, net>>
    BY <1>0, <1>3, <2>3, FailOrWaitType DEF CacheRLock, Proto
  <2>4. QED
    BY <1>3, <2>1, <2>2, <2>3 DEF CacheRLock
<1>4. ASSUME r.op = "WLOCK", CacheWLock(w, r) PROVE Proto'
  <2>1. CASE CacheMisses(w, r) \/ CacheWaits(w, r)
    BY <1>4, <2>1, CacheCallTypes DEF CacheWLock
  <2>2. CASE /\ SetLine(w, CacheToToDirty(line[w]))
             /\ CacheAsks(w, r, "WRITE_PERMISSION_ONLY")
    <3>1. line' \in [Remotes -> CacheLineOf(Data)]
      BY <1>0, <2>2, LineTypes, SetLineType DEF Proto
    <3>2. QED
      BY <1>4, <2>2, <3>1, CacheAsksTypes DEF CacheWLock, CacheCallOps
  <2>3. CASE /\ SetLine(w, [Touch(line[w]) EXCEPT !.locks = WLock(@, r.addr)])
             /\ LockGranted(r)
             /\ UNCHANGED <<pend, net, localq>>
    <3>1. Touch(line[w]) \in CacheLineOf(Data)
      BY <1>0, LineTypes
    <3>2. [Touch(line[w]) EXCEPT !.locks = WLock(@, r.addr)] \in CacheLineOf(Data)
      BY <1>0, <3>1, LineTypes, LockTableTypes
    <3>3. line' \in [Remotes -> CacheLineOf(Data)]
      BY <2>3, <3>2, SetLineType DEF Proto
    <3>4. QED
      BY <1>4, <2>3, <3>3, CallEnds DEF CacheWLock, Proto
  <2>4. CASE /\ SetLine(w, Touch(line[w]))
             /\ FailOrWait(w, r)
             /\ UNCHANGED <<pend, net>>
    <3>1. line' \in [Remotes -> CacheLineOf(Data)]
      BY <1>0, <2>4, LineTypes, SetLineType DEF Proto
    <3>2. QED
      BY <1>0, <1>4, <2>4, <3>1, FailOrWaitType DEF CacheWLock, Proto
  <2>5. QED
    BY <1>4, <2>1, <2>2, <2>3, <2>4 DEF CacheWLock
<1>5. QED
  BY <1>1, <1>2, <1>3, <1>4

\* ProcessLocalRequest keeps the types.
LEMMA LocalRequestType ==
    ASSUME Proto, NEW r \in LocalRequest, ProcessLocalRequest(r)
    PROVE  Proto'
<1>1. WorkerOf(r.t) \in Workers
  BY ThreadsAssumption DEF WorkerOf, LocalRequest
<1>2. QED
  BY <1>1, HomeCalls, CacheCalls DEF ProcessLocalRequest, Workers

(***************************************************************************)
(* Requests of other workers.                                              *)
(***************************************************************************)
\* A request that is queued, refused or forwarded at home.
LEMMA HomeRequestTypes ==
    ASSUME Proto, NEW m \in HomeRequest, NEW n, NetOK(n),
           UNCHANGED <<mem, line, localq, app>>
    PROVE  /\ HomeQueues(m, n) => Proto'
           /\ \A o \in {"READ_REPLY", "WRITE_REPLY"} :
                 RefuseOrQueue(m, n, o) => Proto'
           /\ \A o \in ForwardOps, S \in SUBSET Remotes, k \in Int :
                 Forward(S, o, k, m, n) /\ dir' \in DirEntry => Proto'
<1>0. /\ Home \in Workers /\ m \in RequestTo(Home) /\ m.req \in Remotes
      /\ m.req \in Workers /\ m.try \in BOOLEAN
  BY DEF Workers, RequestTo, HomeRequest
<1>1. AppOK'
  BY AppUnchanged DEF Proto
<1>2. ASSUME HomeQueues(m, n) PROVE Proto'
  BY <1>0, <1>1, <1>2, AddRemoteType DEF HomeQueues, Proto
<1>3. ASSUME NEW o \in {"READ_REPLY", "WRITE_REPLY"}, RefuseOrQueue(m, n, o)
      PROVE  Proto'
  <2>1. CASE ~m.try
    BY <1>0, <1>1, <1>3, <2>1, AddRemoteType DEF RefuseOrQueue, Proto
  <2>2. CASE m.try
    <3>1. <<Reply(o, FALSE)>> \in Seq(MessageTo(m.req))
      BY <1>0, MessageTypes, Zenon
    <3>2. NetOK(Post(n, Home, m.req, <<Reply(o, FALSE)>>))
      BY <1>0, <3>1, PostType, Zenon
    <3>3. QED
      BY <1>1, <1>3, <2>2, <3>2 DEF RefuseOrQueue, Proto
  <2>3. QED
    BY <2>1, <2>2
<1>4. ASSUME NEW o \in ForwardOps, NEW S \in SUBSET Remotes, NEW k \in Int,
             Forward(S, o, k, m, n), dir' \in DirEntry
      PROVE  Proto'
  <2>1. PendOK(pend')
    BY <1>0, <1>4, PendingTypes, PendType DEF Forward, Proto
  <2>2. o \in ReadCacheOps \cup WriteCacheOps
    BY DEF ForwardOps, ReadCacheOps, WriteCacheOps, InvalidateOps
  <2>3. \A j \in Workers \cap S : Request(o, m.req, m.try) \in MessageTo(j)
    BY <1>0, <2>2, RequestTypes, MessageTypes
  <2>4. NetOK(net')
    BY <1>4, <2>3, PostAllType DEF Forward
  <2>5. QED
    BY <1>1, <1>4, <2>1, <2>4 DEF Forward, Proto
<1>5. QED
  BY <1>2, <1>3, <1>4

\* The answer that grants ownership is well typed, with content or without.
LEMMA GrantWriteType ==
    ASSUME NEW n, NetOK(n), NEW w \in Workers, NEW b \in BOOLEAN, mem \in Data
    PROVE  NetOK(GrantWrite(n, w, b))
<1> DEFINE content == IF b THEN <<RdmaWrite(mem)>> ELSE <<>>
           reply == <<Reply("WRITE_REPLY", TRUE)>>
<1>1. content \in Seq(MessageTo(w))
  <2>1. RdmaWrite(mem) \in MessageTo(w)
    BY MessageTypes
  <2>2. QED
    BY <2>1
<1>2. reply \in Seq(MessageTo(w))
  BY MessageTypes, Zenon
<1>3. GrantWrite(n, w, b) = Post(n, Home, w, content \o reply)
  BY DEF GrantWrite
<1> HIDE DEF content, reply
<1>4. content \o reply \in Seq(MessageTo(w))
  BY <1>1, <1>2
<1>5. QED
  BY <1>3, <1>4, PostType, Zenon DEF Workers

\* The handlers of requests at home keep the types.
LEMMA HomeRequests ==
    ASSUME Proto, NEW m \in HomeRequest, NEW n, NetOK(n)
    PROVE  /\ ProcessRemoteRead(m, n) => Proto'
           /\ ProcessRemoteWrite(m, n) => Proto'
           /\ ProcessRemoteEvictShared(m, n) => Proto'
           /\ ProcessRemoteEvictDirty(m, n) => Proto'
<1>0. /\ Home \in Workers /\ m.req \in Remotes /\ m.req \in Workers
      /\ mem \in Data /\ dir \in DirEntry
      /\ dir.shared \in SUBSET Remotes
      /\ dir.shared \ {m.req} \in SUBSET Remotes
      /\ Cardinality(dir.shared \ {m.req}) \in Int
  BY SharersCounted DEF Workers, HomeRequest, Proto, DirEntry
<1>1. ASSUME ProcessRemoteRead(m, n) PROVE Proto'
  <2>1. CASE HomeQueues(m, n) \/ RefuseOrQueue(m, n, "READ_REPLY")
    BY <1>1, <2>1, HomeRequestTypes DEF ProcessRemoteRead
  <2>2. CASE /\ net' = Post(n, Home, m.req, WriteWithImm(mem))
             /\ dir' = DirToShared(dir, m.req)
             /\ UNCHANGED <<pend, remoteq>>
    <3>1. NetOK(net')
      BY <1>0, <2>2, PostType, MessageTypes
    <3>2. QED
      BY <1>0, <1>1, <2>2, <3>1, DirTypes, AppUnchanged, Zenon
      DEF ProcessRemoteRead, Proto
  <2>3. CASE /\ dir' = DirToToShared(dir)
             /\ Forward(dir.shared, "READ_FORWARD", 0, m, n)
    <3>1. dir' \in DirEntry
      BY <1>0, <2>3, DirTypes
    <3>2. UNCHANGED <<mem, line, localq, app>> /\ "READ_FORWARD" \in ForwardOps
      BY <1>1 DEF ProcessRemoteRead, ForwardOps
    <3>3. 0 \in Int
      OBVIOUS
    <3>4. QED
      BY <1>0, <2>3, <3>1, <3>2, <3>3, HomeRequestTypes, Zenon
  <2>4. QED
    BY <1>1, <2>1, <2>2, <2>3 DEF ProcessRemoteRead
<1>2. ASSUME ProcessRemoteWrite(m, n) PROVE Proto'
  <2> DEFINE others == dir.shared \ {m.req}
  <2>1. CASE HomeQueues(m, n) \/ RefuseOrQueue(m, n, "WRITE_REPLY")
    BY <1>2, <2>1, HomeRequestTypes DEF ProcessRemoteWrite
  <2>2. CASE /\ dir' = DirToToDirty(dir)
             /\ Forward(others, "INVALIDATE_FORWARD", Cardinality(others), m, n)
    BY <1>0, <1>2, <2>2, DirTypes, HomeRequestTypes, Zenon
    DEF ProcessRemoteWrite, ForwardOps
  <2>3. CASE /\ net' = GrantWrite(n, m.req, dir.state = "UNSHARED")
             /\ dir' = DirToDirty(dir, m.req)
             /\ UNCHANGED <<pend, remoteq>>
    <3>1. NetOK(net')
      BY <1>0, <2>3, GrantWriteType, Zenon
    <3>2. QED
      BY <1>0, <1>2, <2>3, <3>1, DirTypes, AppUnchanged, Zenon
      DEF ProcessRemoteWrite, Proto
  <2>4. CASE /\ dir' = DirToToDirty(dir)
             /\ Forward(dir.shared, "WRITE_FORWARD", 0, m, n)
    <3>1. dir' \in DirEntry
      BY <1>0, <2>4, DirTypes
    <3>2. UNCHANGED <<mem, line, localq, app>> /\ "WRITE_FORWARD" \in ForwardOps
      BY <1>2 DEF ProcessRemoteWrite, ForwardOps
    <3>3. 0 \in Int
      OBVIOUS
    <3>4. QED
      BY <1>0, <2>4, <3>1, <3>2, <3>3, HomeRequestTypes, Zenon
  <2>5. QED
    BY <1>2, <2>1, <2>2, <2>3, <2>4, Zenon DEF ProcessRemoteWrite
<1>3. ASSUME ProcessRemoteEvictShared(m, n) PROVE Proto'
  <2>1. CASE HomeQueues(m, n)
    BY <1>3, <2>1, HomeRequestTypes DEF ProcessRemoteEvictShared
  <2>2. CASE dir' = DirClear(dir, m.req) /\ net' = n /\ UNCHANGED <<pend, remoteq>>
    BY <1>0, <1>3, <2>2, DirTypes, AppUnchanged, Zenon
    DEF ProcessRemoteEvictShared, Proto
  <2>3. QED
    BY <1>3, <2>1, <2>2 DEF ProcessRemoteEvictShared
<1>4. ASSUME ProcessRemoteEvictDirty(m, n) PROVE Proto'
  <2>1. CASE HomeQueues(m, n)
    BY <1>4, <2>1, HomeRequestTypes DEF ProcessRemoteEvictDirty
  <2>2. CASE /\ dir' = DirClear(dir, m.req)
             /\ net' = Post(n, Home, m.req, <<Imm>>)
             /\ UNCHANGED <<pend, remoteq>>
    <3>1. NetOK(net')
      BY <1>0, <2>2, PostType, MessageTypes, Zenon
    <3>2. QED
      BY <1>0, <1>4, <2>2, <3>1, DirTypes, AppUnchanged, Zenon
      DEF ProcessRemoteEvictDirty, Proto
  <2>3. QED
    BY <1>4, <2>1, <2>2 DEF ProcessRemoteEvictDirty
<1>5. QED
  BY <1>1, <1>2, <1>3, <1>4

\* A refusal is well typed.
LEMMA RefuseType ==
    ASSUME NEW n, NetOK(n), NEW w \in Workers, NEW m \in RequestTo(w),
           NEW o \in {"READ_REPLY", "WRITE_REPLY"}
    PROVE  NetOK(Refuse(n, w, m, o))
<1>0. Home \in Workers /\ m.req \in Workers
  BY RequestKinds DEF Workers
<1> DEFINE no == <<Reply(o, FALSE)>>
<1>1. \A j \in Workers : no \in Seq(MessageTo(j))
  BY MessageTypes, Zenon
<1> HIDE DEF no
<1>2. NetOK(Post(n, w, Home, no)) /\ NetOK(Post(Post(n, w, Home, no), w, m.req, no))
  BY <1>0, <1>1, PostType
<1>3. QED
  BY <1>2 DEF Refuse, no

\* So are the messages with which a copy is given up.
LEMMA GiveUpType ==
    ASSUME NEW n, NetOK(n), NEW w \in Remotes, NEW m \in RequestTo(w),
           line[w] \in CacheLineOf(Data)
    PROVE  NetOK(GiveUp(n, w, m))
<1>0. Home \in Workers /\ w \in Workers /\ m.req \in Workers /\ line[w].data \in Data
  BY RequestKinds, LineTypes DEF Workers
<1> DEFINE copy == WriteWithImm(line[w].data)
           ack == <<Imm>>
<1>1. \A j \in Workers : copy \in Seq(MessageTo(j)) /\ ack \in Seq(MessageTo(j))
  BY <1>0, MessageTypes
<1> HIDE DEF copy, ack
<1>2. /\ NetOK(Post(n, w, Home, copy)) /\ NetOK(Post(n, w, Home, ack))
      /\ NetOK(Post(Post(n, w, m.req, copy), w, Home, ack))
  BY <1>0, <1>1, PostType
<1>3. QED
  BY <1>2 DEF GiveUp, copy, ack

\* A request that is queued or refused at a cache.
LEMMA CacheRequestTypes ==
    ASSUME Proto, NEW w \in Remotes, NEW m \in RequestTo(w), NEW n, NetOK(n),
           UNCHANGED <<dir, mem, localq, app>>
    PROVE  /\ CacheQueues(w, m, n) => Proto'
           /\ \A o \in {"READ_REPLY", "WRITE_REPLY"} :
                 RefuseOrQueueCache(w, m, n, o) => Proto'
<1>0. w \in Workers /\ AppOK'
  BY AppUnchanged DEF Workers, Proto
<1>1. ASSUME CacheQueues(w, m, n) PROVE Proto'
  BY <1>0, <1>1, AddRemoteType DEF CacheQueues, Proto
<1>2. ASSUME NEW o \in {"READ_REPLY", "WRITE_REPLY"},
             RefuseOrQueueCache(w, m, n, o)
      PROVE  Proto'
  BY <1>0, <1>1, <1>2, RefuseType DEF RefuseOrQueueCache, Proto
<1>3. QED
  BY <1>1, <1>2

\* ProcessRemoteReadCache keeps the types.
LEMMA ReadCacheType ==
    ASSUME Proto, NEW w \in Remotes, NEW m \in RequestTo(w), NEW n, NetOK(n),
           ProcessRemoteReadCache(w, m, n)
    PROVE  Proto'
<1>0. /\ w \in Workers /\ Home \in Workers /\ m.req \in Workers
      /\ line[w] \in CacheLineOf(Data) /\ line[w].data \in Data
      /\ UNCHANGED <<dir, mem, localq, app>>
  BY RequestKinds, LineTypes DEF Workers, Proto, ProcessRemoteReadCache
<1> DEFINE c == line[w]
           copy == WriteWithImm(c.data)
<1>1. CASE CacheQueues(w, m, n) \/ RefuseOrQueueCache(w, m, n, "READ_REPLY")
  BY <1>0, <1>1, CacheRequestTypes
<1>2. CASE /\ net' = IF m.op = "READ_FORWARD"
                     THEN Post(Post(n, w, m.req, copy), w, Home, copy)
                     ELSE Post(n, w, Home, copy)
           /\ SetLine(w, IF CacheInTransition(c) THEN c ELSE CacheToShared(c))
           /\ UNCHANGED <<pend, remoteq>>
  <2>1. \A j \in Workers : copy \in Seq(MessageTo(j))
    BY <1>0, MessageTypes
  <2>2. line' \in [Remotes -> CacheLineOf(Data)]
    BY <1>0, <1>2, LineTypes, SetLineType DEF Proto
  <2> HIDE DEF copy
  <2>3. NetOK(net')
    BY <1>0, <1>2, <2>1, PostType
  <2>4. QED
    BY <1>0, <1>2, <2>2, <2>3, AppUnchanged DEF Proto
<1>3. QED
  BY <1>1, <1>2 DEF ProcessRemoteReadCache

\* ProcessRemoteWriteCache keeps the types.
LEMMA WriteCacheType ==
    ASSUME Proto, NEW w \in Remotes, NEW m \in RequestTo(w), NEW n, NetOK(n),
           ProcessRemoteWriteCache(w, m, n)
    PROVE  Proto'
<1>0. /\ w \in Workers /\ line[w] \in CacheLineOf(Data)
      /\ UNCHANGED <<dir, mem, localq, app>>
      /\ NetOK(GiveUp(n, w, m))
      /\ AppOK'
  BY GiveUpType, AppUnchanged DEF Workers, Proto, ProcessRemoteWriteCache
<1>1. CASE CacheQueues(w, m, n) \/ RefuseOrQueueCache(w, m, n, "WRITE_REPLY")
  BY <1>0, <1>1, CacheRequestTypes
<1>2. CASE net' = GiveUp(n, w, m) /\ UNCHANGED <<line, pend, remoteq>>
  BY <1>0, <1>2 DEF Proto
<1>3. CASE /\ net' = GiveUp(n, w, m) /\ UNCHANGED <<pend, remoteq>>
           /\ SetLine(w, NewLine("INVALID", Zeroes))
  <2>1. line' \in [Remotes -> CacheLineOf(Data)]
    BY <1>0, <1>3, LineTypes, SetLineType, Zenon DEF Proto, CacheState
  <2>2. QED
    BY <1>0, <1>3, <2>1 DEF Proto
<1>4. CASE /\ net' = GiveUp(n, w, m) /\ UNCHANGED remoteq
           /\ SetLine(w, CacheToToInvalid(line[w]))
           /\ Pend(w, Leaving("PENDING_INVALIDATE"))
  <2>1. line' \in [Remotes -> CacheLineOf(Data)]
    BY <1>0, <1>4, LineTypes, SetLineType DEF Proto
  <2>2. PendOK(pend')
    BY <1>0, <1>4, PendingTypes, PendType DEF Proto, LeavingOps
  <2>3. QED
    BY <1>0, <1>4, <2>1, <2>2 DEF Proto
<1>5. QED
  BY <1>1, <1>2, <1>3, <1>4, Zenon DEF ProcessRemoteWriteCache

\* ProcessRequest keeps the types, wherever the request comes from.
LEMMA RequestType ==
    ASSUME Proto, NEW w \in Workers, NEW m \in RequestTo(w), NEW n, NetOK(n),
           ProcessRequest(w, m, n)
    PROVE  Proto'
<1>1. /\ m.op \in HomeOps => m \in HomeRequest
      /\ m.op \in ReadCacheOps \cup WriteCacheOps => w \in Remotes
  BY RequestKinds
<1>2. CASE m.op \in HomeOps
  BY <1>1, <1>2, HomeRequests
  DEF ProcessRequest, HomeOps, ReadCacheOps, WriteCacheOps, InvalidateOps
<1>3. CASE m.op \in ReadCacheOps \cup WriteCacheOps
  BY <1>1, <1>3, ReadCacheType, WriteCacheType
  DEF ProcessRequest, ReadCacheOps, WriteCacheOps, InvalidateOps
<1>4. QED
  BY <1>2, <1>3 DEF ProcessRequest, HomeOps

=============================================================================
