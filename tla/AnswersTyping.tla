---------------------------- MODULE AnswersTyping ----------------------------
(***************************************************************************)
(* The handlers of PendingRequests keep the types.                         *)
(***************************************************************************)
EXTENDS RequestsTyping

(***************************************************************************)
(* Answers.                                                                *)
(***************************************************************************)
Served == Proto /\ RunOK(run)

\* ProcessRemoteReadReply keeps the types.
LEMMA ReadReplyType ==
    ASSUME Served, NEW w \in Workers, NEW n, NetOK(n), ProcessRemoteReadReply(w, n)
    PROVE  Served'
<1> DEFINE p == pend[w]
<1>0. /\ p \in PendingAt(w) /\ PendOK(pend') /\ RunOK(run')
      /\ net' = n /\ UNCHANGED <<mem, localq, remoteq>>
  BY FinishType DEF Served, Proto, ProcessRemoteReadReply, PendOK
<1>1. CASE /\ p.op = "READ"
           /\ SetLine(w, NewLine("INVALID", Zeroes))
           /\ LockFailed(p.r)
           /\ UNCHANGED dir
  <2>1. w \in Remotes /\ p.r \in LocalRequest
    BY <1>0, <1>1, PendingKinds, Zenon DEF CacheCallOps
  <2>2. line' \in [Remotes -> CacheLineOf(Data)]
    BY <1>1, <2>1, LineTypes, SetLineType, Zenon DEF Served, Proto, CacheState
  <2>3. QED
    BY <1>0, <1>1, <2>1, <2>2, CallEnds, Zenon DEF Served, Proto
<1>2. CASE /\ p.op = "FETCH_AND_SHARED"
           /\ dir' = DirUndoDirty(dir)
           /\ LockFailed(p.r)
           /\ UNCHANGED line
  <2>1. p.r \in LocalRequest
    BY <1>0, <1>2, PendingKinds, Zenon DEF HomeCallOps
  <2>2. QED
    BY <1>0, <1>2, <2>1, DirTypes, CallEnds DEF Served, Proto
<1>3. CASE dir' = DirUndoDirty(dir) /\ UNCHANGED <<line, app>>
  BY <1>0, <1>3, DirTypes, AppUnchanged DEF Served, Proto
<1>4. QED
  BY <1>1, <1>2, <1>3 DEF ProcessRemoteReadReply

\* Undoing a refused write yields an entry and a line.
LEMMA UndoWriteType ==
    ASSUME Proto, NEW w \in Workers, UndoWrite(w, pend[w])
    PROVE  /\ dir' \in DirEntry
           /\ line' \in [Remotes -> CacheLineOf(Data)]
<1>0. pend[w] \in PendingAt(w)
  BY DEF Proto, PendOK
<1>1. CASE /\ pend[w].op = "WRITE"
           /\ SetLine(w, NewLine("INVALID", Zeroes)) /\ UNCHANGED dir
  <2>1. w \in Remotes
    BY <1>0, <1>1, PendingKinds, Zenon DEF CacheCallOps
  <2>2. QED
    BY <1>1, <2>1, LineTypes, SetLineType, Zenon DEF Proto, CacheState
<1>2. CASE /\ pend[w].op = "WRITE_PERMISSION_ONLY"
           /\ SetLine(w, CacheUndoShared(line[w])) /\ UNCHANGED dir
  <2>1. w \in Remotes
    BY <1>0, <1>2, PendingKinds, Zenon DEF CacheCallOps
  <2>2. QED
    BY <1>2, <2>1, LineTypes, SetLineType DEF Proto
<1>3. CASE dir' \in {DirUndoDirty(dir), DirUndoShared(dir)} /\ UNCHANGED line
  BY <1>3, DirTypes DEF Proto
<1>4. QED
  BY <1>1, <1>2, <1>3 DEF UndoWrite

\* A refusing ProcessRemoteWriteReply keeps the types.
LEMMA WriteRefusedType ==
    ASSUME Served, NEW w \in Workers, NEW src \in Workers, NEW n, NetOK(n),
           WriteRefused(w, src, n)
    PROVE  Served'
<1> DEFINE p == pend[w]
           left == IF src = Home THEN 0 ELSE p.counter - 1
           q == [p EXCEPT !.counter = left, !.failed = TRUE]
<1>0. /\ p \in PendingAt(w) /\ Home \in Workers
      /\ UNCHANGED <<mem, localq, remoteq>>
  BY DEF Served, Proto, WriteRefused, PendOK, Workers
<1>a. ASSUME Finish(w) PROVE PendOK(pend') /\ RunOK(run')
  BY <1>a, FinishType DEF Served, Proto
<1>1. CASE /\ p.op \in RefusableOps
           /\ UndoWrite(w, p)
           /\ LockFailed(p.r)
           /\ Finish(w)
           /\ net' = n
  <2>1. p.r \in LocalRequest
    BY <1>0, <1>1, PendingKinds, Zenon
    DEF RefusableOps, CacheCallOps, HomeCallOps
  <2>2. QED
    BY <1>0, <1>a, <1>1, <2>1, UndoWriteType, CallEnds, Zenon DEF Served, Proto
<1>2. CASE /\ p.op = "WRITE_FORWARD"
           /\ dir' = DirUndoDirty(dir)
           /\ Finish(w)
           /\ net' = Post(n, Home, p.m.req, <<Imm>>)
           /\ UNCHANGED <<line, app>>
  <2>1. p.m.req \in Workers
    BY <1>0, <1>2, PendingKinds, Zenon DEF ForwardOps, Workers
  <2>2. NetOK(net')
    BY <1>0, <1>2, <2>1, PostType, MessageTypes, Zenon
  <2>3. QED
    BY <1>0, <1>a, <1>2, <2>2, DirTypes, AppUnchanged DEF Served, Proto
<1>3. CASE /\ p.op = "INVALIDATE_FORWARD"
           /\ dir' = DirUndoShared(dir)
           /\ Finish(w)
           /\ net' = Post(n, Home, p.m.req, <<Reply("WRITE_REPLY", FALSE)>>)
           /\ UNCHANGED <<line, app>>
  <2>1. p.m.req \in Workers
    BY <1>0, <1>3, PendingKinds, Zenon DEF ForwardOps, Workers
  <2>2. NetOK(net')
    BY <1>0, <1>3, <2>1, PostType, MessageTypes, Zenon
  <2>3. QED
    BY <1>0, <1>a, <1>3, <2>2, DirTypes, AppUnchanged DEF Served, Proto
<1>4. CASE /\ p.op \in RefusableOps \cup {"INVALIDATE_FORWARD"}
           /\ Pend(w, q)
           /\ net' = n
           /\ UNCHANGED <<dir, line, run, app>>
  <2>a. p.op \in CacheCallOps \cup HomeCallOps \cup ForwardOps
    BY <1>4 DEF RefusableOps, CacheCallOps, HomeCallOps, ForwardOps
  <2>d. p.counter \in Int
    BY <1>0, <2>a, PendingKinds, Zenon
  <2>b. left \in Int
    BY <2>d
  <2> HIDE DEF left
  <2>c. \A k \in Int, b \in BOOLEAN :
          [p EXCEPT !.counter = k, !.failed = b] \in PendingAt(w)
    BY <1>0, <2>a, PendingKinds, Zenon
  <2>1. q \in PendingAt(w)
    BY <2>b, <2>c, Zenon
  <2> HIDE DEF q
  <2>2. PendOK(pend')
    BY <1>4, <2>1, PendType DEF Served, Proto
  <2>3. QED
    BY <1>0, <1>4, <2>2, AppUnchanged DEF Served, Proto
<1>5. QED
  BY <1>1, <1>2, <1>3, <1>4 DEF WriteRefused

\* ProcessPendingRead keeps the types.
LEMMA PendingReadType ==
    ASSUME Served, NEW w \in Workers, NEW n, NetOK(n), ProcessPendingRead(w, n)
    PROVE  Served'
<1> DEFINE p == pend[w]
           c == CacheToShared(line[w])
           d == DirUndoShared(dir)
<1>0. /\ p \in PendingAt(w) /\ PendOK(pend') /\ RunOK(run')
      /\ net' = n /\ UNCHANGED <<mem, localq, remoteq>>
  BY FinishType DEF Served, Proto, ProcessPendingRead, PendOK
<1>1. CASE /\ p.op = "READ"
           /\ SetLine(w, IF p.r.op = "RLOCK"
                         THEN [c EXCEPT !.locks = RLock(@, p.r.addr)] ELSE c)
           /\ IF p.r.op = "RLOCK" THEN LockGranted(p.r) ELSE ReadReturns(p.r, c.data)
           /\ UNCHANGED dir
  <2>1. w \in Remotes /\ p.r \in LocalRequest
    BY <1>0, <1>1, PendingKinds, Zenon DEF CacheCallOps
  <2>2. c \in CacheLineOf(Data) /\ p.r.addr \in Addrs
    BY <2>1, LineTypes DEF Served, Proto, LocalRequest
  <2>3. c.data \in Data /\ [c EXCEPT !.locks = RLock(@, p.r.addr)] \in CacheLineOf(Data)
    BY <2>2, LineTypes, LockTableTypes
  <2> HIDE DEF c
  <2>4. line' \in [Remotes -> CacheLineOf(Data)]
    BY <1>1, <2>1, <2>2, <2>3, SetLineType DEF Served, Proto
  <2>5. AppOK'
    BY <1>1, <2>1, <2>3, CallEnds DEF Served, Proto
  <2>6. QED
    BY <1>0, <1>1, <2>4, <2>5 DEF Served, Proto
<1>2. CASE /\ p.op = "FETCH_AND_SHARED"
           /\ dir' = IF p.r.op = "RLOCK" THEN DirRLock(d, p.r.addr) ELSE d
           /\ IF p.r.op = "RLOCK" THEN LockGranted(p.r) ELSE ReadReturns(p.r, mem)
           /\ UNCHANGED line
  <2>1. p.r \in LocalRequest /\ p.r.addr \in Addrs
    BY <1>0, <1>2, PendingKinds, Zenon DEF HomeCallOps, LocalRequest
  <2>2. d \in DirEntry
    BY DirTypes DEF Served, Proto
  <2> HIDE DEF d
  <2>3. dir' \in DirEntry
    BY <1>2, <2>1, <2>2, DirLockTypes
  <2>4. AppOK'
    BY <1>2, <2>1, CallEnds DEF Served, Proto
  <2>5. QED
    BY <1>0, <1>2, <2>3, <2>4 DEF Served, Proto
<1>3. QED
  BY <1>1, <1>2 DEF ProcessPendingRead

\* ProcessPendingReadForward keeps the types.
LEMMA ReadForwardType ==
    ASSUME Served, NEW n, NetOK(n), pend[Home].op = "READ_FORWARD",
           ProcessPendingReadForward(n)
    PROVE  Served'
<1>1. Home \in Workers /\ PendOK(pend') /\ RunOK(run')
  BY FinishType, Zenon DEF Served, Proto, ProcessPendingReadForward, Workers
<1>2. pend[Home].m.req \in Remotes
  BY <1>1, PendingKinds, Zenon DEF Served, Proto, PendOK, ForwardOps
<1>3. dir' \in DirEntry
  BY <1>2, DirTypes, Zenon DEF Served, Proto, ProcessPendingReadForward
<1>4. QED
  BY <1>1, <1>3, AppUnchanged DEF Served, Proto, ProcessPendingReadForward

\* The write or lock done once ownership has arrived.
LEMMA CacheWriteDoneType ==
    ASSUME Proto, NEW w \in Remotes, NEW r \in LocalRequest,
           NEW p, p.r = r, CacheWriteDone(w, p)
    PROVE  /\ line' \in [Remotes -> CacheLineOf(Data)]
           /\ localq' \in [Workers -> Seq(LocalRequest)]
           /\ AppOK'
<1> DEFINE c == CacheToDirty(line[w])
<1>1. c \in CacheLineOf(Data) /\ r.addr \in Addrs /\ w \in Workers
  BY LineTypes DEF Proto, LocalRequest, Workers
<1>2. c.data \in Data /\ c.locks \in LockTable
  BY <1>1 DEF CacheLineOf
<1>3. /\ [c EXCEPT !.data = Store(c.data, r)] \in CacheLineOf(Data)
      /\ [c EXCEPT !.locks = WLock(c.locks, r.addr)] \in CacheLineOf(Data)
  BY <1>1, <1>2, LineTypes, LockTableTypes, StoreType
<1> HIDE DEF c
<1>4. CASE /\ SetLine(w, [c EXCEPT !.data = Store(c.data, r)])
           /\ WriteTakesEffect(r)
           /\ UNCHANGED localq
  BY <1>3, <1>4, SetLineType, CallEnds DEF Proto
<1>5. CASE /\ r.op = "WLOCK"
           /\ SetLine(w, [c EXCEPT !.locks = WLock(c.locks, r.addr)])
           /\ LockGranted(r)
           /\ UNCHANGED localq
  BY <1>3, <1>5, SetLineType, CallEnds DEF Proto
<1>6. CASE /\ SetLine(w, c)
           /\ AddToServeLocalRequest(w, r)
           /\ UNCHANGED app
  BY <1>1, <1>6, SetLineType, AddLocalType, AppUnchanged DEF Proto
<1>7. QED
  BY <1>4, <1>5, <1>6 DEF CacheWriteDone, c

\* ProcessPendingWrite at a cache keeps the types.
LEMMA CachePendingWriteType ==
    ASSUME Served, NEW w \in Workers, NEW src \in Workers, NEW n, NetOK(n),
           pend[w].op \in {"WRITE", "WRITE_PERMISSION_ONLY"},
           CachePendingWrite(w, src, n)
    PROVE  Served'
<1> DEFINE p == pend[w]
           left == IF src = Home THEN p.counter + 1 ELSE p.counter - 1
           q == [p EXCEPT !.counter = left]
<1>0. /\ p \in PendingAt(w)
      /\ net' = n /\ UNCHANGED <<mem, remoteq>>
  BY DEF Served, Proto, CachePendingWrite, PendOK
<1>1. w \in Remotes /\ p.r \in LocalRequest /\ p.counter \in Int
  BY <1>0, PendingKinds, Zenon DEF CacheCallOps
<1>2. ASSUME Finish(w) PROVE PendOK(pend') /\ RunOK(run')
  BY <1>2, FinishType DEF Served, Proto
<1>3. CASE UndoWrite(w, p) /\ LockFailed(p.r) /\ Finish(w) /\ UNCHANGED localq
  BY <1>0, <1>1, <1>2, <1>3, UndoWriteType, CallEnds, Zenon DEF Served, Proto
<1>4. CASE CacheWriteDone(w, p) /\ Finish(w) /\ UNCHANGED dir
  BY <1>0, <1>1, <1>2, <1>4, CacheWriteDoneType, Zenon DEF Served, Proto
<1>5. CASE Pend(w, q) /\ UNCHANGED <<dir, line, localq, run, app>>
  <2>1. left \in Int
    BY <1>1
  <2> HIDE DEF left
  <2>2. \A k \in Int : [p EXCEPT !.counter = k] \in PendingAt(w)
    BY <1>0, PendingKinds, Zenon DEF CacheCallOps
  <2>3. q \in PendingAt(w)
    BY <2>1, <2>2, Zenon
  <2> HIDE DEF q
  <2>4. PendOK(pend')
    BY <1>5, <2>3, PendType, Zenon DEF Served, Proto
  <2>5. QED
    BY <1>0, <1>5, <2>4, AppUnchanged DEF Served, Proto
<1>6. QED
  BY <1>3, <1>4, <1>5 DEF CachePendingWrite

\* ProcessRemoteWriteReply keeps the types.
LEMMA WriteReplyType ==
    ASSUME Served, NEW w \in Workers, NEW src \in Workers, NEW n, NetOK(n),
           NEW ok, ProcessRemoteWriteReply(w, src, ok, n)
    PROVE  Served'
<1>1. CASE WriteGranted(w, n)
  <2>1. /\ pend[w] \in PendingAt(w) /\ PendOK(pend') /\ RunOK(run')
    BY <1>1, FinishType DEF Served, Proto, WriteGranted, PendOK
  <2>2. w \in Remotes /\ pend[w].r \in LocalRequest
    BY <1>1, <2>1, PendingKinds, Zenon DEF CacheCallOps, WriteGranted
  <2>3. QED
    BY <1>1, <2>1, <2>2, CacheWriteDoneType, Zenon
    DEF Served, Proto, WriteGranted
<1>2. CASE WriteRefused(w, src, n)
  BY <1>2, WriteRefusedType
<1>3. QED
  BY <1>1, <1>2 DEF ProcessRemoteWriteReply

\* ProcessPendingWrite at home keeps the types.
LEMMA HomePendingWriteType ==
    ASSUME Served, NEW src \in Workers, NEW n, NetOK(n),
           pend[Home].op \in {"FETCH_AND_INVALIDATE", "INVALIDATE"},
           HomePendingWrite(src, n)
    PROVE  Served'
<1> DEFINE p == pend[Home]
           left == p.counter - 1
           q == [p EXCEPT !.counter = left]
           d == DirRemove(dir, src)
           u == DirToUnShared(d)
<1>0. /\ Home \in Workers /\ p \in PendingAt(Home)
      /\ net' = n /\ UNCHANGED <<line, remoteq>>
  BY DEF Served, Proto, HomePendingWrite, PendOK, Workers
<1>1. p.r \in LocalRequest /\ p.counter \in Int /\ p.r.addr \in Addrs
  BY <1>0, PendingKinds, Zenon DEF HomeCallOps, LocalRequest
<1>2. ASSUME Finish(Home) PROVE PendOK(pend') /\ RunOK(run')
  BY <1>0, <1>2, FinishType DEF Served, Proto
<1>3. d \in DirEntry /\ u \in DirEntry
  BY DirTypes, Zenon DEF Served, Proto
<1>a. DirUndoShared(d) \in DirEntry /\ DirWLock(u, p.r.addr) \in DirEntry
  BY <1>1, <1>3, DirTypes, DirLockTypes
<1> HIDE DEF d, u
<1>4. CASE /\ dir' = d
           /\ Pend(Home, q)
           /\ UNCHANGED <<mem, localq, run, app>>
  <2>1. left \in Int
    BY <1>1
  <2> HIDE DEF left
  <2>2. \A k \in Int : [p EXCEPT !.counter = k] \in PendingAt(Home)
    BY <1>0, PendingKinds, Zenon DEF HomeCallOps
  <2>3. q \in PendingAt(Home)
    BY <2>1, <2>2, Zenon
  <2> HIDE DEF q
  <2>4. PendOK(pend')
    BY <1>0, <1>4, <2>3, PendType DEF Served, Proto
  <2>5. QED
    BY <1>0, <1>3, <1>4, <2>4, AppUnchanged DEF Served, Proto
<1>5. CASE /\ Finish(Home)
           /\ dir' = DirUndoShared(d)
           /\ LockFailed(p.r)
           /\ UNCHANGED <<mem, localq>>
  BY <1>0, <1>1, <1>2, <1>a, <1>5, CallEnds, Zenon DEF Served, Proto
<1>6. CASE /\ Finish(Home)
           /\ dir' = u
           /\ mem' = Store(mem, p.r)
           /\ WriteTakesEffect(p.r)
           /\ UNCHANGED localq
  BY <1>0, <1>1, <1>2, <1>3, <1>6, CallEnds, StoreType, Zenon DEF Served, Proto
<1>7. CASE /\ Finish(Home)
           /\ p.r.op = "WLOCK"
           /\ dir' = DirWLock(u, p.r.addr)
           /\ LockGranted(p.r)
           /\ UNCHANGED <<mem, localq>>
  BY <1>0, <1>1, <1>2, <1>a, <1>7, CallEnds, Zenon DEF Served, Proto
<1>8. CASE /\ Finish(Home)
           /\ dir' = u
           /\ AddToServeLocalRequest(Home, p.r)
           /\ UNCHANGED <<mem, app>>
  BY <1>0, <1>1, <1>2, <1>3, <1>8, AddLocalType, AppUnchanged DEF Served, Proto
<1>9. QED
  BY <1>4, <1>5, <1>6, <1>7, <1>8 DEF HomePendingWrite, d, u

\* ProcessPendingWriteForward keeps the types.
LEMMA WriteForwardType ==
    ASSUME Served, NEW n, NetOK(n), pend[Home].op = "WRITE_FORWARD",
           ProcessPendingWriteForward(n)
    PROVE  Served'
<1>1. Home \in Workers /\ PendOK(pend') /\ RunOK(run')
  BY FinishType DEF Served, Proto, ProcessPendingWriteForward, Workers
<1>2. pend[Home].m.req \in Remotes /\ pend[Home].m.req \in Workers
  BY <1>1, PendingKinds, Zenon DEF Served, Proto, PendOK, ForwardOps, Workers
<1>3. dir' \in DirEntry
  BY <1>2, DirTypes, Zenon DEF Served, Proto, ProcessPendingWriteForward
<1>4. NetOK(net')
  BY <1>1, <1>2, PostType, MessageTypes, Zenon DEF ProcessPendingWriteForward
<1>5. QED
  BY <1>1, <1>3, <1>4, AppUnchanged, Zenon
  DEF Served, Proto, ProcessPendingWriteForward

\* ProcessPendingInvalidateForward keeps the types.
LEMMA InvalidateForwardType ==
    ASSUME Served, NEW src \in Workers, NEW n, NetOK(n),
           pend[Home].op = "INVALIDATE_FORWARD",
           ProcessPendingInvalidateForward(src, n)
    PROVE  Served'
<1> DEFINE p == pend[Home]
           left == p.counter - 1
           q == [p EXCEPT !.counter = left]
           d == DirRemove(dir, src)
<1>0. /\ Home \in Workers /\ p \in PendingAt(Home)
      /\ UNCHANGED <<mem, line, localq, remoteq, app>>
  BY DEF Served, Proto, ProcessPendingInvalidateForward, PendOK, Workers
<1>1. p.m.req \in Remotes /\ p.m.req \in Workers /\ p.counter \in Int
  BY <1>0, PendingKinds, Zenon DEF ForwardOps, Workers
<1>2. ASSUME Finish(Home) PROVE PendOK(pend') /\ RunOK(run')
  BY <1>0, <1>2, FinishType DEF Served, Proto
<1>3. d \in DirEntry
  BY DirTypes, Zenon DEF Served, Proto
<1>4. DirUndoShared(d) \in DirEntry /\ DirToDirty(d, p.m.req) \in DirEntry
  BY <1>1, <1>3, DirTypes
<1> HIDE DEF d
<1>5. CASE dir' = d /\ Pend(Home, q) /\ net' = n /\ UNCHANGED run
  <2>1. left \in Int
    BY <1>1
  <2> HIDE DEF left
  <2>2. \A k \in Int : [p EXCEPT !.counter = k] \in PendingAt(Home)
    BY <1>0, PendingKinds, Zenon DEF ForwardOps
  <2>3. q \in PendingAt(Home)
    BY <2>1, <2>2, Zenon
  <2> HIDE DEF q
  <2>4. PendOK(pend')
    BY <1>0, <1>5, <2>3, PendType DEF Served, Proto
  <2>5. QED
    BY <1>0, <1>3, <1>5, <2>4, AppUnchanged DEF Served, Proto
<1>6. CASE /\ Finish(Home)
           /\ dir' = DirUndoShared(d)
           /\ net' = Post(n, Home, p.m.req, <<Reply("WRITE_REPLY", FALSE)>>)
  <2>1. NetOK(net')
    BY <1>0, <1>1, <1>6, PostType, MessageTypes, Zenon
  <2>2. QED
    BY <1>0, <1>2, <1>4, <1>6, <2>1, AppUnchanged, Zenon DEF Served, Proto
<1>7. CASE /\ Finish(Home)
           /\ dir' = DirToDirty(d, p.m.req)
           /\ \E b \in BOOLEAN : net' = GrantWrite(n, p.m.req, b)
  <2>1. NetOK(net')
    BY <1>1, <1>7, GrantWriteType, Zenon DEF Served, Proto
  <2>2. QED
    BY <1>0, <1>2, <1>4, <1>7, <2>1, AppUnchanged, Zenon DEF Served, Proto
<1>8. (p.m.op = "WRITE" \/ d.state = "UNSHARED") \in BOOLEAN
  OBVIOUS
<1>9. QED
  BY <1>5, <1>6, <1>7, <1>8, Zenon DEF ProcessPendingInvalidateForward, d

\* ProcessPendingEvictDirty keeps the types.
LEMMA EvictDirtyType ==
    ASSUME Served, NEW w \in Workers, NEW n, NetOK(n), pend[w].op = "WRITE_BACK",
           ProcessPendingEvictDirty(w, n)
    PROVE  Served'
<1>1. PendOK(pend') /\ RunOK(run') /\ pend[w] \in PendingAt(w)
  BY FinishType DEF Served, Proto, ProcessPendingEvictDirty, PendOK
<1>2. w \in Remotes
  BY <1>1, PendingKinds, Zenon DEF LeavingOps
<1>3. line' \in [Remotes -> CacheLineOf(Data)]
  BY <1>2, LineTypes, SetLineType, Zenon
  DEF Served, Proto, CacheState, ProcessPendingEvictDirty
<1>4. QED
  BY <1>1, <1>3, AppUnchanged DEF Served, Proto, ProcessPendingEvictDirty

\* An immediate, whatever it answers, keeps the types.
LEMMA PendingRequestType ==
    ASSUME Served, NEW w \in Workers, NEW src \in Workers, NEW n, NetOK(n),
           ProcessPendingRequest(w, src, n)
    PROVE  Served'
<1>1. Home \in Workers /\ pend[w] \in PendingAt(w)
  BY DEF Served, Proto, PendOK, Workers
<1>2. pend[w].op \in HomeCallOps \cup ForwardOps => w = Home
  BY <1>1, PendingKinds, Zenon
<1>3. CASE ProcessPendingRead(w, n)
  BY <1>3, PendingReadType
<1>4. CASE pend[w].op = "READ_FORWARD" /\ ProcessPendingReadForward(n)
  BY <1>2, <1>4, ReadForwardType DEF ForwardOps
<1>5. CASE /\ pend[w].op \in {"WRITE", "WRITE_PERMISSION_ONLY"}
           /\ CachePendingWrite(w, src, n)
  BY <1>5, CachePendingWriteType
<1>6. CASE /\ pend[w].op \in {"FETCH_AND_INVALIDATE", "INVALIDATE"}
           /\ HomePendingWrite(src, n)
  BY <1>2, <1>6, HomePendingWriteType DEF HomeCallOps
<1>7. CASE pend[w].op = "WRITE_FORWARD" /\ ProcessPendingWriteForward(n)
  BY <1>2, <1>7, WriteForwardType DEF ForwardOps
<1>8. CASE pend[w].op = "WRITE_BACK" /\ ProcessPendingEvictDirty(w, n)
  BY <1>8, EvictDirtyType
<1>9. CASE /\ pend[w].op = "INVALIDATE_FORWARD"
           /\ ProcessPendingInvalidateForward(src, n)
  BY <1>2, <1>9, InvalidateForwardType DEF ForwardOps
<1>10. QED
  BY <1>3, <1>4, <1>5, <1>6, <1>7, <1>8, <1>9, Zenon DEF ProcessPendingRequest

=============================================================================
