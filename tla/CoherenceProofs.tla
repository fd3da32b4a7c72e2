--------------------------- MODULE CoherenceProofs ---------------------------
(***************************************************************************)
(* Theorems about the cache lines of Coherence, for any set of workers,    *)
(* threads, addresses and calls.                                           *)
(***************************************************************************)
EXTENDS CoherenceTyping

(***************************************************************************)
(* The lines and the pending requests of the caches.  Every step of the    *)
(* system is, for them, one of five kinds (LineStep).                      *)
(***************************************************************************)
Stable == {"INVALID", "SHARED", "DIRTY"}

Matches(c, p) ==
    /\ c.state = "TO_SHARED" <=> p.op = "READ"
    /\ c.state = "TO_DIRTY" <=> p.op \in {"WRITE", "WRITE_PERMISSION_ONLY"}
    /\ c.state = "TO_INVALID" <=> p.op \in LeavingOps

LineStep ==
    \/ UNCHANGED <<line, pend>>
    \/ \E p : UNCHANGED line /\ Pend(Home, p)
    \/ \E w \in Remotes : \E p : UNCHANGED line /\ Pend(w, p) /\ p.op = pend[w].op
    \/ \E w \in Remotes : \E c :
         /\ SetLine(w, c)
         /\ UNCHANGED pend
         /\ c.state = line[w].state \/ {c.state, line[w].state} \subseteq Stable
    \/ \E w \in Remotes : \E c, p :
         /\ SetLine(w, c)
         /\ Pend(w, p)
         /\ Matches(c, p)
         /\ pend[w].op = "NONE" \/ p.op = "NONE"

\* A cache never replaces a request it waits an answer for by another one.
CacheWaitsForOne ==
    \A w \in Remotes : pend[w].op # "NONE" /\ pend'[w].op # "NONE"
                         => pend'[w].op = pend[w].op

\* Each of the five kinds of steps keeps lines and pending requests matched.
LEMMA LineStepKeepsMatch ==
    ASSUME TypeOK, LineMatchesPending, LineStep
    PROVE  LineMatchesPending' /\ CacheWaitsForOne
<1>0. /\ line \in [Remotes -> CacheLineOf(Data)]
      /\ pend \in [Workers -> Pending] /\ Remotes \subseteq Workers
      /\ \A w \in Remotes : Matches(line[w], pend[w])
  BY DEF TypeOK, LineMatchesPending, Matches, Workers
<1>1. SUFFICES /\ \A v \in Remotes : Matches(line'[v], pend'[v])
               /\ CacheWaitsForOne
  BY DEF LineMatchesPending, Matches
<1>2. CASE UNCHANGED <<line, pend>>
  BY <1>0, <1>2 DEF CacheWaitsForOne
<1>3. ASSUME NEW p, UNCHANGED line, Pend(Home, p)
      PROVE  /\ \A v \in Remotes : Matches(line'[v], pend'[v])
             /\ CacheWaitsForOne
  <2>1. \A v \in Remotes : pend'[v] = pend[v]
    BY <1>0, <1>3, HomeAssumption DEF Pend
  <2>2. QED
    BY <1>0, <1>3, <2>1 DEF CacheWaitsForOne
<1>4. ASSUME NEW w \in Remotes, NEW p, UNCHANGED line, Pend(w, p),
             p.op = pend[w].op
      PROVE  /\ \A v \in Remotes : Matches(line'[v], pend'[v])
             /\ CacheWaitsForOne
  <2>1. \A v \in Remotes : pend'[v].op = pend[v].op
    BY <1>0, <1>4 DEF Pend
  <2>2. QED
    BY <1>0, <1>4, <2>1 DEF CacheWaitsForOne, Matches
<1>5. ASSUME NEW w \in Remotes, NEW c, SetLine(w, c), UNCHANGED pend,
             c.state = line[w].state \/ {c.state, line[w].state} \subseteq Stable
      PROVE  /\ \A v \in Remotes : Matches(line'[v], pend'[v])
             /\ CacheWaitsForOne
  <2>1. line'[w] = c /\ \A v \in Remotes \ {w} : line'[v] = line[v]
    BY <1>0, <1>5 DEF SetLine
  <2>2. Matches(c, pend[w])
    BY <1>0, <1>5 DEF Matches, Stable
  <2>3. QED
    BY <1>0, <1>5, <2>1, <2>2 DEF CacheWaitsForOne
<1>6. ASSUME NEW w \in Remotes, NEW c, NEW p, SetLine(w, c), Pend(w, p),
             Matches(c, p), pend[w].op = "NONE" \/ p.op = "NONE"
      PROVE  /\ \A v \in Remotes : Matches(line'[v], pend'[v])
             /\ CacheWaitsForOne
  <2>1. /\ line'[w] = c /\ \A v \in Remotes \ {w} : line'[v] = line[v]
        /\ pend'[w] = p /\ \A v \in Remotes \ {w} : pend'[v] = pend[v]
    BY <1>0, <1>6 DEF SetLine, Pend
  <2>2. QED
    BY <1>0, <1>6, <2>1 DEF CacheWaitsForOne
<1>7. QED
  BY <1>2, <1>3, <1>4, <1>5, <1>6 DEF LineStep

\* What the invariants say of one cache; a stable line has nothing pending.
LEMMA StateTypes ==
    ASSUME TypeOK, LineMatchesPending, NEW w \in Remotes
    PROVE  /\ pend[w] \in CachePending
           /\ line[w] \in CacheLineOf(Data)
           /\ line[w].state \in Stable => pend[w].op = "NONE"
           /\ Matches(line[w], pend[w])
<1>1. pend[w] \in CachePending /\ line[w] \in CacheLineOf(Data)
  BY HomeAssumption DEF TypeOK, PendingAt, Workers
<1>2. Matches(line[w], pend[w])
  BY DEF LineMatchesPending, Matches
<1>3. pend[w].op \in {"NONE"} \cup LeavingOps \cup CacheCallOps
  BY <1>1 DEF CachePending, CallPending
<1>4. QED
  BY <1>1, <1>2, <1>3 DEF Matches, Stable, LeavingOps, CacheCallOps

\* The five kinds, one by one.
LEMMA LineStepKinds ==
    /\ UNCHANGED <<line, pend>> => LineStep
    /\ \A p : UNCHANGED line /\ Pend(Home, p) => LineStep
    /\ \A w \in Remotes : \A p :
          UNCHANGED line /\ Pend(w, p) /\ p.op = pend[w].op => LineStep
    /\ \A w \in Remotes : \A c :
          /\ SetLine(w, c)
          /\ UNCHANGED pend
          /\ c.state = line[w].state \/ {c.state, line[w].state} \subseteq Stable
          => LineStep
    /\ \A w \in Remotes : \A c, p :
          /\ SetLine(w, c)
          /\ Pend(w, p)
          /\ Matches(c, p)
          /\ pend[w].op = "NONE" \/ p.op = "NONE"
          => LineStep
BY Zenon DEF LineStep

\* A call asks home only for a line that has nothing pending.
LEMMA LocalRequestLines ==
    ASSUME TypeOK, LineMatchesPending, NEW r \in LocalRequest,
           ProcessLocalRequest(r)
    PROVE  LineStep
<1> DEFINE w == WorkerOf(r.t)
           c == line[w]
<1>1. CASE w = Home
  <2>1. UNCHANGED line
    BY <1>1 DEF ProcessLocalRequest, ProcessLocalRead, ProcessLocalWrite,
                ProcessLocalRLock, ProcessLocalWLock
  <2>2. UNCHANGED pend \/ \E p : Pend(Home, p)
    BY <1>1 DEF ProcessLocalRequest, ProcessLocalRead, ProcessLocalWrite,
                ProcessLocalRLock, ProcessLocalWLock, HomeWaits, HomeFetches,
                HomeInvalidates
  <2>3. QED
    BY <2>1, <2>2, LineStepKinds
<1>2. CASE w # Home
  <2>1. w \in Remotes
    BY <1>2, ThreadsAssumption DEF WorkerOf, LocalRequest, Workers
  <2>2. /\ c \in CacheLineOf(Data) /\ Matches(c, pend[w])
        /\ c.state \in Stable => pend[w].op = "NONE"
    BY <2>1, StateTypes
  <2>3. CASE CacheMisses(w, r)
    <3>1. pend[w].op = "NONE"
      BY <2>2, <2>3 DEF CacheMisses, Stable
    <3>2. CASE SetLine(w, NewLine("TO_SHARED", Zeroes)) /\ CacheAsks(w, r, "READ")
      <4>1. Matches(NewLine("TO_SHARED", Zeroes), ForCall("READ", 0, r))
        BY DEF Matches, NewLine, ForCall, LeavingOps
      <4>2. QED
        BY <2>1, <3>1, <3>2, <4>1, LineStepKinds DEF CacheAsks
    <3>3. CASE SetLine(w, NewLine("TO_DIRTY", Zeroes)) /\ CacheAsks(w, r, "WRITE")
      <4>1. Matches(NewLine("TO_DIRTY", Zeroes), ForCall("WRITE", 0, r))
        BY DEF Matches, NewLine, ForCall, LeavingOps
      <4>2. QED
        BY <2>1, <3>1, <3>3, <4>1, LineStepKinds DEF CacheAsks
    <3>4. QED
      BY <2>3, <3>2, <3>3 DEF CacheMisses
  <2>4. CASE UNCHANGED <<line, pend>>
    BY <2>4, LineStepKinds
  <2>5. CASE \E d : SetLine(w, d) /\ d.state = c.state /\ UNCHANGED pend
    BY <2>1, <2>5, LineStepKinds
  <2>6. CASE /\ c.state = "SHARED"
             /\ \E d : SetLine(w, d) /\ d.state = "TO_DIRTY"
             /\ CacheAsks(w, r, "WRITE_PERMISSION_ONLY")
    <3>1. PICK d : SetLine(w, d) /\ d.state = "TO_DIRTY"
      BY <2>6
    <3>2. Matches(d, ForCall("WRITE_PERMISSION_ONLY", 0, r))
      BY <3>1 DEF Matches, ForCall, LeavingOps
    <3>3. pend[w].op = "NONE"
      BY <2>2, <2>6 DEF Stable
    <3>4. QED
      BY <2>1, <2>6, <3>1, <3>2, <3>3, LineStepKinds DEF CacheAsks
  <2>7. /\ Touch(c).state = c.state
        /\ \A x : [Touch(c) EXCEPT !.data = x].state = c.state
        /\ \A x : [Touch(c) EXCEPT !.locks = x].state = c.state
        /\ CacheToToDirty(c).state = "TO_DIRTY"
        /\ \A x : [CacheToToDirty(c) EXCEPT !.data = x].state = "TO_DIRTY"
    BY <2>2 DEF Touch, CacheToToDirty, CacheLineOf
  <2> HIDE DEF w
  <2>8. CASE CacheRead(w, r)
    <3>1. \/ CacheMisses(w, r)
          \/ UNCHANGED <<line, pend>>
          \/ SetLine(w, Touch(c)) /\ UNCHANGED pend
      BY <2>8 DEF CacheRead, CacheWaits
    <3>2. QED
      BY <3>1, <2>3, <2>4, <2>5, <2>7
  <2>9. CASE CacheWrite(w, r)
    <3>1. \/ CacheMisses(w, r)
          \/ UNCHANGED <<line, pend>>
          \/ \E x : SetLine(w, [Touch(c) EXCEPT !.data = x]) /\ UNCHANGED pend
          \/ /\ c.state = "SHARED"
             /\ \E x : SetLine(w, [CacheToToDirty(c) EXCEPT !.data = x])
             /\ CacheAsks(w, r, "WRITE_PERMISSION_ONLY")
      BY <2>9 DEF CacheWrite, CacheWaits
    <3>2. QED
      BY <3>1, <2>3, <2>4, <2>5, <2>6, <2>7
  <2>10. CASE CacheRLock(w, r)
    <3>1. \/ CacheMisses(w, r)
          \/ UNCHANGED <<line, pend>>
          \/ \E x : SetLine(w, [Touch(c) EXCEPT !.locks = x]) /\ UNCHANGED pend
      BY <2>10 DEF CacheRLock, CacheWaits
    <3>2. QED
      BY <3>1, <2>3, <2>4, <2>5, <2>7
  <2>11. CASE CacheWLock(w, r)
    <3>1. \/ CacheMisses(w, r)
          \/ UNCHANGED <<line, pend>>
          \/ SetLine(w, Touch(c)) /\ UNCHANGED pend
          \/ \E x : SetLine(w, [Touch(c) EXCEPT !.locks = x]) /\ UNCHANGED pend
          \/ /\ c.state = "SHARED" /\ SetLine(w, CacheToToDirty(c))
             /\ CacheAsks(w, r, "WRITE_PERMISSION_ONLY")
      BY <2>11 DEF CacheWLock, CacheWaits
    <3>2. QED
      BY <3>1, <2>3, <2>4, <2>5, <2>6, <2>7
  <2>12. QED
    BY <1>2, <2>8, <2>9, <2>10, <2>11 DEF ProcessLocalRequest, w
<1>3. QED
  BY <1>1, <1>2

\* A request of home starts a transition only from a stable line.
LEMMA RequestLines ==
    ASSUME TypeOK, LineMatchesPending, NEW w \in Workers, NEW m \in RequestTo(w),
           NEW n, ProcessRequest(w, m, n)
    PROVE  LineStep
<1> DEFINE c == line[w]
<1>1. CASE m.op \in HomeOps
  <2>1. UNCHANGED line /\ (UNCHANGED pend \/ \E p : Pend(Home, p))
    BY <1>1
    DEF HomeOps, ReadCacheOps, WriteCacheOps, InvalidateOps, ProcessRequest,
        ProcessRemoteRead, ProcessRemoteWrite, ProcessRemoteEvictShared,
        ProcessRemoteEvictDirty, HomeQueues, RefuseOrQueue, Forward
  <2>2. QED
    BY <2>1, LineStepKinds
<1>2. CASE m.op \in ReadCacheOps \cup WriteCacheOps
  <2>1. w \in Remotes
    BY <1>2, RequestKinds
  <2>2. /\ c \in CacheLineOf(Data)
        /\ c.state \in Stable => pend[w].op = "NONE"
    BY <2>1, StateTypes
  <2>3. CASE UNCHANGED <<line, pend>>
    BY <2>3, LineStepKinds
  <2>4. CASE ProcessRemoteReadCache(w, m, n)
    <3>1. \/ UNCHANGED <<line, pend>>
          \/ /\ SetLine(w, IF CacheInTransition(c) THEN c ELSE CacheToShared(c))
             /\ UNCHANGED pend
      BY <2>4 DEF ProcessRemoteReadCache, RefuseOrQueueCache, CacheQueues
    <3>2. ~CacheInTransition(c) => c.state \in Stable
      BY <2>2 DEF CacheInTransition, Stable, CacheLineOf, CacheState
    <3>3. CacheToShared(c).state = "SHARED"
      BY <2>2 DEF CacheToShared, CacheLineOf
    <3>4. QED
      BY <2>1, <3>1, <3>2, <3>3, LineStepKinds DEF Stable
  <2>5. CASE ProcessRemoteWriteCache(w, m, n)
    <3>1. \/ UNCHANGED <<line, pend>>
          \/ /\ c.state \in Stable
             /\ SetLine(w, NewLine("INVALID", Zeroes))
             /\ UNCHANGED pend
          \/ /\ c.state \in Stable
             /\ SetLine(w, CacheToToInvalid(c))
             /\ Pend(w, Leaving("PENDING_INVALIDATE"))
      BY <2>5
      DEF ProcessRemoteWriteCache, RefuseOrQueueCache, CacheQueues, Stable
    <3>2. NewLine("INVALID", Zeroes).state \in Stable
      BY DEF NewLine, Stable
    <3>3. Matches(CacheToToInvalid(c), Leaving("PENDING_INVALIDATE"))
      BY <2>2 DEF Matches, Leaving, LeavingOps, CacheToToInvalid, CacheLineOf
    <3>4. QED
      BY <2>1, <2>2, <3>1, <3>2, <3>3, LineStepKinds
  <2>6. QED
    BY <1>2, <2>4, <2>5
    DEF ProcessRequest, ReadCacheOps, WriteCacheOps, InvalidateOps
<1>3. QED
  BY <1>1, <1>2 DEF RequestTo, HomeRequest, CacheRequest

\* A transition that ends: the line becomes stable, nothing is pending.
LEMMA TransitionEnds ==
    ASSUME NEW w \in Remotes, NEW c, c.state \in Stable, SetLine(w, c), Finish(w)
    PROVE  LineStep
<1>1. Matches(c, NoPending) /\ NoPending.op = "NONE"
  BY DEF Matches, NoPending, Stable, LeavingOps
<1>2. QED
  BY <1>1, LineStepKinds DEF Finish

\* The lines that the ends of transitions store are stable.
LEMMA StableLines ==
    ASSUME NEW c \in CacheLineOf(Data)
    PROVE  /\ NewLine("INVALID", Zeroes).state \in Stable
           /\ CacheToShared(c).state \in Stable
           /\ CacheToDirty(c).state \in Stable
           /\ CacheUndoShared(c).state \in Stable
           /\ \A x : [CacheToShared(c) EXCEPT !.locks = x].state \in Stable
           /\ \A x : [CacheToDirty(c) EXCEPT !.locks = x].state \in Stable
           /\ \A x : [CacheToDirty(c) EXCEPT !.data = x].state \in Stable
BY DEF NewLine, CacheToShared, CacheToDirty, CacheUndoShared, CacheLineOf, Stable

\* The end of a pending request of home does not touch the lines.
LEMMA HomeFinishes ==
    ASSUME UNCHANGED line, Finish(Home)
    PROVE  LineStep
BY LineStepKinds DEF Finish

\* The kind of a pending request tells where it is pending.
LEMMA AnswerKinds ==
    ASSUME TypeOK, NEW w \in Workers
    PROVE  /\ pend[w].op \in CacheCallOps \cup LeavingOps => w \in Remotes
           /\ pend[w].op \in HomeCallOps \cup ForwardOps => w = Home
           /\ w \in Remotes => line[w] \in CacheLineOf(Data)
BY PendingKinds DEF TypeOK

\* Counting an answer does not change the kind of the pending request.
LEMMA CounterChanges ==
    ASSUME TypeOK, NEW w \in Workers,
           pend[w].op \in CacheCallOps \cup HomeCallOps \cup ForwardOps,
           UNCHANGED line,
           \E k : \/ Pend(w, [pend[w] EXCEPT !.counter = k])
                  \/ Pend(w, [pend[w] EXCEPT !.counter = k, !.failed = TRUE])
    PROVE  LineStep
<1>1. PICK k : \/ Pend(w, [pend[w] EXCEPT !.counter = k])
               \/ Pend(w, [pend[w] EXCEPT !.counter = k, !.failed = TRUE])
  OBVIOUS
<1>2. CASE w = Home
  BY <1>1, <1>2, LineStepKinds
<1>3. CASE w \in Remotes
  <2>1. pend[w] \in CachePending
    BY <1>3, HomeAssumption DEF TypeOK, PendingAt
  <2>2. pend[w] \in CallPending(CacheCallOps)
    BY <2>1 DEF CachePending, LeavingOps, CacheCallOps, HomeCallOps, ForwardOps
  <2>3. /\ [pend[w] EXCEPT !.counter = k].op = pend[w].op
        /\ [pend[w] EXCEPT !.counter = k, !.failed = TRUE].op = pend[w].op
    BY <2>2 DEF CallPending
  <2>4. QED
    BY <1>1, <1>3, <2>3, LineStepKinds
<1>4. QED
  BY <1>2, <1>3 DEF Workers

\* Undoing a refused write ends the transition.
LEMMA UndoWriteLines ==
    ASSUME TypeOK, NEW w \in Workers, UndoWrite(w, pend[w]), Finish(w)
    PROVE  LineStep
<1>1. CASE /\ pend[w].op \in CacheCallOps
           /\ \/ SetLine(w, NewLine("INVALID", Zeroes))
              \/ SetLine(w, CacheUndoShared(line[w]))
  BY <1>1, AnswerKinds, StableLines, TransitionEnds
<1>2. CASE pend[w].op \in HomeCallOps /\ UNCHANGED line
  BY <1>2, AnswerKinds, HomeFinishes
<1>3. QED
  BY <1>1, <1>2 DEF UndoWrite, CacheCallOps, HomeCallOps

\* So does the write or the lock itself.
LEMMA WriteDoneLines ==
    ASSUME TypeOK, NEW w \in Remotes, NEW p, CacheWriteDone(w, p), Finish(w)
    PROVE  LineStep
<1> DEFINE c == CacheToDirty(line[w])
<1>1. \/ SetLine(w, c)
      \/ \E x : SetLine(w, [c EXCEPT !.data = x])
      \/ \E x : SetLine(w, [c EXCEPT !.locks = x])
  BY DEF CacheWriteDone
<1>2. line[w] \in CacheLineOf(Data)
  BY DEF TypeOK
<1>3. /\ c.state \in Stable
      /\ \A x : [c EXCEPT !.data = x].state \in Stable
      /\ \A x : [c EXCEPT !.locks = x].state \in Stable
  BY <1>2, StableLines
<1> HIDE DEF c
<1>4. QED
  BY <1>1, <1>3, TransitionEnds

\* So does a refused read.
LEMMA ReadReplyLines ==
    ASSUME TypeOK, NEW w \in Workers, NEW n, ProcessRemoteReadReply(w, n)
    PROVE  LineStep
<1>1. CASE pend[w].op = "READ" /\ SetLine(w, NewLine("INVALID", Zeroes))
  BY <1>1, AnswerKinds, StableLines, TransitionEnds
  DEF CacheCallOps, ProcessRemoteReadReply
<1>2. CASE pend[w].op \in {"FETCH_AND_SHARED", "READ_FORWARD"} /\ UNCHANGED line
  BY <1>2, AnswerKinds, HomeFinishes
  DEF HomeCallOps, ForwardOps, ProcessRemoteReadReply
<1>3. QED
  BY <1>1, <1>2 DEF ProcessRemoteReadReply

\* ProcessRemoteWriteReply ends the transition or counts an answer.
LEMMA WriteReplyLines ==
    ASSUME TypeOK, NEW w \in Workers, NEW src, NEW n, NEW ok,
           ProcessRemoteWriteReply(w, src, ok, n)
    PROVE  LineStep
<1>1. CASE WriteGranted(w, n)
  BY <1>1, AnswerKinds, WriteDoneLines DEF WriteGranted, CacheCallOps
<1>2. CASE WriteRefused(w, src, n)
  <2>1. CASE UndoWrite(w, pend[w]) /\ Finish(w)
    BY <2>1, UndoWriteLines
  <2>2. CASE pend[w].op \in ForwardOps /\ Finish(w) /\ UNCHANGED line
    BY <2>2, AnswerKinds, HomeFinishes
  <2>3. CASE /\ pend[w].op \in RefusableOps \cup {"INVALIDATE_FORWARD"}
             /\ \E k : Pend(w, [pend[w] EXCEPT !.counter = k, !.failed = TRUE])
             /\ UNCHANGED line
    BY <2>3, CounterChanges
    DEF RefusableOps, CacheCallOps, HomeCallOps, ForwardOps
  <2>4. QED
    BY <1>2, <2>1, <2>2, <2>3 DEF WriteRefused, ForwardOps
<1>3. QED
  BY <1>1, <1>2 DEF ProcessRemoteWriteReply

\* An immediate ends the transition or counts an answer.
LEMMA PendingRequestLines ==
    ASSUME TypeOK, NEW w \in Workers, NEW src, NEW n, ProcessPendingRequest(w, src, n)
    PROVE  LineStep
<1> DEFINE o == pend[w].op
<1>1. CASE o = "READ" /\ ProcessPendingRead(w, n)
  <2>1. /\ \/ SetLine(w, CacheToShared(line[w]))
           \/ \E x : SetLine(w, [CacheToShared(line[w]) EXCEPT !.locks = x])
        /\ Finish(w)
    BY <1>1 DEF ProcessPendingRead
  <2>2. w \in Remotes /\ line[w] \in CacheLineOf(Data)
    BY <1>1, AnswerKinds DEF CacheCallOps
  <2>3. QED
    BY <2>1, <2>2, StableLines, TransitionEnds
<1>2. CASE /\ o \in HomeCallOps \cup ForwardOps
           /\ Finish(Home) /\ UNCHANGED line
  BY <1>2, HomeFinishes
<1>3. CASE /\ o \in HomeCallOps \cup ForwardOps /\ UNCHANGED line
           /\ \E k : Pend(Home, [pend[Home] EXCEPT !.counter = k])
  BY <1>3, LineStepKinds
<1>4. CASE o \in {"WRITE", "WRITE_PERMISSION_ONLY"} /\ CachePendingWrite(w, src, n)
  <2>1. w \in Remotes
    BY <1>4, AnswerKinds DEF CacheCallOps
  <2>2. \/ UndoWrite(w, pend[w]) /\ Finish(w)
        \/ CacheWriteDone(w, pend[w]) /\ Finish(w)
        \/ (\E k : Pend(w, [pend[w] EXCEPT !.counter = k])) /\ UNCHANGED line
    BY <1>4 DEF CachePendingWrite
  <2>3. QED
    BY <1>4, <2>1, <2>2, UndoWriteLines, WriteDoneLines, CounterChanges
    DEF CacheCallOps
<1>5. CASE o = "WRITE_BACK" /\ ProcessPendingEvictDirty(w, n)
  BY <1>5, AnswerKinds, StableLines, TransitionEnds
  DEF ProcessPendingEvictDirty, LeavingOps
<1>6. CASE o = "FETCH_AND_SHARED" /\ ProcessPendingRead(w, n)
  BY <1>2, <1>6, AnswerKinds DEF ProcessPendingRead, HomeCallOps
<1>7. CASE o = "READ_FORWARD" /\ ProcessPendingReadForward(n)
  BY <1>2, <1>7 DEF ProcessPendingReadForward, ForwardOps
<1>8. CASE o \in {"FETCH_AND_INVALIDATE", "INVALIDATE"} /\ HomePendingWrite(src, n)
  BY <1>2, <1>3, <1>8 DEF HomePendingWrite, HomeCallOps
<1>9. CASE o = "WRITE_FORWARD" /\ ProcessPendingWriteForward(n)
  BY <1>2, <1>9 DEF ProcessPendingWriteForward, ForwardOps
<1>10. CASE o = "INVALIDATE_FORWARD" /\ ProcessPendingInvalidateForward(src, n)
  BY <1>2, <1>3, <1>10 DEF ProcessPendingInvalidateForward, ForwardOps
<1>11. QED
  BY <1>1, <1>4, <1>5, <1>6, <1>7, <1>8, <1>9, <1>10 DEF ProcessPendingRequest

\* Every action is one of the five kinds.
LEMMA NextLines ==
    ASSUME TypeOK, LineMatchesPending, Next
    PROVE  LineStep
<1>0. Served /\ Proto
  BY TypeOKIsServed DEF Served
<1>1. ASSUME NEW t \in Threads, Issue(t) PROVE LineStep
  BY <1>1, LineStepKinds DEF Issue
<1>2. ASSUME NEW t \in Threads, ProcessLocalUnLock(t) PROVE LineStep
  <2> DEFINE w == WorkerOf(t)
  <2>1. /\ UNCHANGED pend
        /\ \/ UNCHANGED line
           \/ w # Home /\ \E x : SetLine(w, [line[w] EXCEPT !.locks = x])
    BY <1>2 DEF ProcessLocalUnLock
  <2>2. w \in Workers
    BY AgentTypes
  <2>3. w \in Remotes => \A x : [line[w] EXCEPT !.locks = x].state = line[w].state
    BY DEF TypeOK, CacheLineOf
  <2> HIDE DEF w
  <2>4. QED
    BY <2>1, <2>2, <2>3, LineStepKinds DEF Workers
<1>3. ASSUME NEW g \in Agents, AgentStep(g) PROVE LineStep
  <2>1. CASE TakeLocal(g) \/ TakeRemote(g)
    BY <2>1, LineStepKinds DEF TakeLocal, TakeRemote
  <2>2. CASE ServeLocal(g) \/ ServeRemote(g)
    <3> DEFINE it == Head(run[g])
    <3>1. /\ run[g] # <<>> /\ it.kind \in {"local", "remote"}
          /\ \/ it.kind = "local" /\ ProcessLocalRequest(it.r)
             \/ it.kind = "remote" /\ ProcessRequest(WorkerOf(g), it.m, net)
      BY <2>2 DEF ServeLocal, ServeRemote, Take
    <3>2. it \in ItemOf(RequestTo(WorkerOf(g))) /\ WorkerOf(g) \in Workers
      BY <1>0, <3>1, AgentTypes DEF Served, RunOK
    <3> HIDE DEF it
    <3>3. /\ it.kind = "local" => it.r \in LocalRequest
          /\ it.kind = "remote" => it.m \in RequestTo(WorkerOf(g))
      BY <3>2 DEF ItemOf
    <3>4. QED
      BY <3>1, <3>2, <3>3, LocalRequestLines, RequestLines
  <2>3. QED
    BY <1>3, <2>1, <2>2 DEF AgentStep
<1>4. ASSUME NEW src \in Workers, NEW w \in Workers, Receive(src, w) PROVE LineStep
  <2> DEFINE m == Head(net[src][w])
  <2>1. net[src][w] # <<>>
    BY <1>4 DEF Receive, ReceiveRequest, ReceiveReadReply, ReceiveWriteReply,
                ReceiveImm, Deliverable
  <2>2. m \in MessageTo(w)
    BY <1>0, <2>1, RestType DEF Proto
  <2> HIDE DEF m
  <2>3. CASE m.op \in RequestOps /\ ProcessRequest(w, m, Rest(src, w))
    BY <2>2, <2>3, MessageKinds, RequestLines
  <2>4. CASE ProcessRemoteReadReply(w, Rest(src, w))
    BY <2>4, ReadReplyLines
  <2>5. CASE ProcessRemoteWriteReply(w, src, m.ok, Rest(src, w))
    BY <2>5, WriteReplyLines
  <2>6. CASE ProcessPendingRequest(w, src, Rest(src, w))
    BY <2>6, PendingRequestLines
  <2>7. QED
    BY <1>4, <2>3, <2>4, <2>5, <2>6
    DEF m, Receive, ReceiveRequest, ReceiveReadReply, ReceiveWriteReply, ReceiveImm
<1>5. ASSUME NEW src \in Workers, NEW w \in Workers, Land(src, w) PROVE LineStep
  <2>1. /\ UNCHANGED pend
        /\ \/ UNCHANGED line
           \/ w # Home /\ \E x : SetLine(w, [line[w] EXCEPT !.data = x])
    BY <1>5 DEF Land
  <2>2. w \in Remotes => \A x : [line[w] EXCEPT !.data = x].state = line[w].state
    BY DEF TypeOK, CacheLineOf
  <2>3. QED
    BY <2>1, <2>2, LineStepKinds DEF Workers
<1>6. ASSUME NEW w \in Remotes, CompletionCheck(w) PROVE LineStep
  <2>1. line[w] \in CacheLineOf(Data)
    BY DEF TypeOK
  <2>2. QED
    BY <1>6, <2>1, StableLines, TransitionEnds DEF CompletionCheck
<1>7. ASSUME NEW w \in Remotes, Evict(w) PROVE LineStep
  <2> DEFINE c == line[w]
             left == [CacheToToInvalid(c) EXCEPT !.lru = FALSE]
  <2>1. c \in CacheLineOf(Data) /\ (c.state \in Stable => pend[w].op = "NONE")
    BY StateTypes
  <2>2. \/ /\ c.state \in Stable
           /\ SetLine(w, NewLine("INVALID", Zeroes)) /\ UNCHANGED pend
        \/ /\ c.state \in Stable
           /\ SetLine(w, left) /\ Pend(w, Leaving("WRITE_BACK"))
    BY <1>7 DEF Evict, Stable
  <2>3. Matches(left, Leaving("WRITE_BACK"))
    BY <2>1 DEF Matches, Leaving, LeavingOps, CacheToToInvalid, CacheLineOf
  <2> HIDE DEF left
  <2>4. QED
    BY <2>1, <2>2, <2>3, StableLines, LineStepKinds
<1>8. CASE Done
  BY <1>8, LineStepKinds DEF Done, vars
<1>9. QED
  BY <1>1, <1>2, <1>3, <1>4, <1>5, <1>6, <1>7, <1>8 DEF Next

\* Nothing is pending at the start and no line exists.
LEMMA InitLines == Init => LineMatchesPending
BY DEF Init, LineMatchesPending, NewLine, NoPending, LeavingOps, Workers

\* Every step keeps the match and a cache to one request.
LEMMA NextLinesMatch ==
    TypeOK /\ LineMatchesPending /\ [Next]_vars
      => LineMatchesPending' /\ [CacheWaitsForOne]_pend
<1> SUFFICES ASSUME TypeOK, LineMatchesPending, [Next]_vars
             PROVE  LineMatchesPending' /\ [CacheWaitsForOne]_pend
  OBVIOUS
<1>1. CASE Next
  BY <1>1, NextLines, LineStepKeepsMatch
<1>2. CASE UNCHANGED vars
  BY <1>2, LineStepKinds, LineStepKeepsMatch DEF vars
<1>3. QED
  BY <1>1, <1>2

\* A cache line is in TO_SHARED, TO_DIRTY or TO_INVALID exactly while its worker
\* has the request pending whose answer or completion ends this transition, for
\* any number of workers and threads: no handler of cache.cc and
\* pending_request.cc leaves a line in a transition that nobody will end, nor
\* ends one whose answer is still expected.
THEOREM TransitionsMatch == Spec => []LineMatchesPending
<1>1. Spec => [](TypeOK /\ LineMatchesPending)
  BY InitType, NextType, InitLines, NextLinesMatch, PTL DEF Spec
<1>2. QED
  BY <1>1, PTL

\* A cache that waits for an answer about a block never replaces the pending
\* request by one of another kind: SubmitRequest is reached by a cache only when
\* nothing is pending.
THEOREM CachesWaitForOne == Spec => [][CacheWaitsForOne]_pend
<1>1. Spec => [](TypeOK /\ LineMatchesPending)
  BY InitType, NextType, InitLines, NextLinesMatch, PTL DEF Spec
<1>2. QED
  BY <1>1, NextLinesMatch, PTL DEF Spec

=============================================================================
