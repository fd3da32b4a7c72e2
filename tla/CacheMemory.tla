---------------------------- MODULE CacheMemory ----------------------------
(***************************************************************************)
(* A worker's memory: the cache lines of remote blocks, the LRU lists they *)
(* are on, the eviction that keeps the cache small, and the slab allocator *)
(* that holds both the lines and what the application allocates            *)
(* (src/cache.cc, include/cache.h, src/slabs.cc).                          *)
(*                                                                         *)
(* Application threads and the event loop share all of it.  A line is      *)
(* changed under the lock of its bucket in `caches', a list under its own  *)
(* lock.  A thread with a bucket waits for a list; a thread with a list    *)
(* (Evict) only tries a bucket.  The transitions of a line are those of    *)
(* the coherence protocol (module CacheLine); the messages that cause them *)
(* are not repeated here: whatever may happen to a line in its state may   *)
(* happen next.                                                            *)
(***************************************************************************)
EXTENDS Slabs, SequencesExt

CONSTANTS Threads, Blocks, Nil,
          Lists,            \* the LRU_NUM lists
          Bucket,           \* the bucket of `caches' each block hashes to
          max_cache_mem,
          Plans             \* what a behaviour starts from, allocates and at most does

ASSUME MemoryAssumption ==
    /\ Nil \notin Blocks /\ Bucket \in [Blocks -> Nat]
    /\ IsFiniteSet(Lists) /\ Lists \subseteq Nat /\ max_cache_mem \in Nat
    /\ \A p \in Plans :
          /\ p.sizing.BLOCK_SIZE % p.sizing.CHUNK_ALIGN_BYTES = 0
          /\ p.sizing.item_size_max % p.sizing.BLOCK_SIZE = 0
          /\ p.prealloc => Preallocated(slabs_init(p.sizing, TRUE))

VARIABLES plan,        \* the chosen element of Plans; maxOps bounds the operations
          sb,          \* the allocator
          heap,        \* the application's objects: address -> aligned or not
          lines,       \* block -> its CacheLine
          heads, tails,
          bucketLock, lruLock,   \* holder, or Nil
          used_bytes, to_evicted,
          th,          \* thread -> what it is doing
          ops          \* operations started

lru == <<heads, tails>>
counts == <<used_bytes, to_evicted>>
vars == <<plan, sb, heap, lines, lru, bucketLock, lruLock, counts, th, ops>>

Z == plan.sizing
BLOCK_SIZE == Z.BLOCK_SIZE
Buckets == {Bucket[b] : b \in Blocks}

\* pos is -1 for a line that is on no list.  `upgrade': the line was shared
\* when it asked to become dirty.  `undone': UndoShared put it back.
NoLine == [state |-> "NOT_EXIST", line |-> NULL, locked |-> FALSE, pos |-> -1,
           prev |-> Nil, next |-> Nil, upgrade |-> FALSE, undone |-> FALSE]
Exists(b) == lines[b].state # "NOT_EXIST"
InTransitionState(b) == lines[b].state \in {"TO_SHARED", "TO_DIRTY", "TO_INVALID"}

\* An idle thread; todo are the steps left of its operation on block b, list
\* is the list whose lock it wants or has, seen the lists it found locked,
\* left how many more lines it is to evict.
Idle == [at |-> "idle", b |-> Nil, todo |-> <<>>, list |-> -1, seen |-> {}, left |-> 0]

\* The allocator once n lines have been made, and where each line is.
RECURSIVE Warm(_, _)
Warm(p, n) ==
    IF n = 0 THEN [sb |-> slabs_init(p.sizing, p.prealloc), at |-> <<>>]
    ELSE LET w == Warm(p, n - 1)
             r == sb_aligned_malloc(p.sizing, w.sb, p.sizing.BLOCK_SIZE)
         IN  [sb |-> r.sb, at |-> Append(w.at, r.ret)]

\* The worker starts with an empty cache; a plan may begin later, when the
\* blocks of the sequence `cached' are on list 0 in that order.
WarmLine(p, k, state) ==
    [NoLine EXCEPT !.state = state, !.line = Warm(p, k).at[k], !.pos = 0,
                   !.prev = IF k = 1 THEN Nil ELSE p.cached[k - 1],
                   !.next = IF k = Len(p.cached) THEN Nil ELSE p.cached[k + 1]]

Init ==
    /\ plan \in Plans
    /\ sb = Warm(plan, Len(plan.cached)).sb
    /\ heap = [p \in {} |-> FALSE]
    /\ lines = [b \in Blocks |->
                   IF b \in ToSet(plan.cached)
                   THEN LET k == CHOOSE k \in DOMAIN plan.cached : plan.cached[k] = b
                        IN  WarmLine(plan, k, plan.state[k])
                   ELSE NoLine]
    /\ heads = [i \in Lists |-> IF i = 0 /\ plan.cached # <<>> THEN Head(plan.cached) ELSE Nil]
    /\ tails = [i \in Lists |-> IF i = 0 /\ plan.cached # <<>> THEN Last(plan.cached) ELSE Nil]
    /\ bucketLock = [k \in Buckets |-> Nil]
    /\ lruLock = [i \in Lists |-> Nil]
    /\ used_bytes = Len(plan.cached) * BLOCK_SIZE /\ to_evicted = 0
    /\ th = [t \in Threads |-> Idle]
    /\ ops = 0

-----------------------------------------------------------------------------
(***************************************************************************)
(* The application's allocations.                                          *)
(***************************************************************************)
Call == ops < plan.maxOps /\ ops' = ops + 1

Malloc(size, aligned) ==
    LET r == IF aligned THEN sb_aligned_malloc(Z, sb, size) ELSE sb_malloc(Z, sb, size)
    IN  /\ Call
        /\ r.ret # NULL
        /\ sb' = r.sb
        /\ heap' = (r.ret :> aligned) @@ heap
        /\ UNCHANGED <<plan, lines, lru, bucketLock, lruLock, counts, th>>

Free(p) ==
    /\ Call
    /\ sb' = sb_free(sb, p)
    /\ heap' = Restrict(heap, DOMAIN heap \ {p})
    /\ UNCHANGED <<plan, lines, lru, bucketLock, lruLock, counts, th>>

Realloc(p, size) ==
    LET r == sb_realloc(Z, sb, p, size)
    IN  /\ Call
        /\ r.ret # NULL
        /\ sb' = r.sb
        /\ heap' = (r.ret :> FALSE) @@ Restrict(heap, DOMAIN heap \ {p})
        /\ UNCHANGED <<plan, lines, lru, bucketLock, lruLock, counts, th>>

-----------------------------------------------------------------------------
(***************************************************************************)
(* How many lines Evict(n) may evict: down to 0.8 of the limit, counting   *)
(* the lines already on their way out as gone.                             *)
(***************************************************************************)
Used == used_bytes - to_evicted * BLOCK_SIZE
Above(used, tenths) == (10 * used - tenths * max_cache_mem) \div (10 * BLOCK_SIZE)
EvictLimit(used, n) ==
    IF used < 0 \/ 10 * used <= 8 * max_cache_mem THEN 0
    ELSE Min({n, Above(used, 8)})

Evicting(n) == [Idle EXCEPT !.at = IF n = 0 THEN "idle" ELSE "evict", !.left = n]
CallsEvict(n) == [Idle EXCEPT !.at = "call", !.left = n]

(***************************************************************************)
(* Operations on a line.  Each starts with the lock of the line's bucket.  *)
(***************************************************************************)
Begin(t, b) ==
    /\ th[t].at = "idle" /\ plan.lines /\ Call
    /\ bucketLock[Bucket[b]] = Nil
    /\ UNCHANGED <<plan, heap, lru, lruLock>>

\* The rest of the operation: steps under the bucket lock.
Then(t, b, todo) ==
    /\ th' = [th EXCEPT ![t] = [Idle EXCEPT !.at = "work", !.b = b, !.todo = todo]]
    /\ bucketLock' = [bucketLock EXCEPT ![Bucket[b]] = t]

SetState(b, s) == lines' = [lines EXCEPT ![b].state = s]

\* A miss makes a line and asks for the block.  When the request has been
\* sent, and the bucket unlocked, the thread evicts as many lines as it made.
SetCLine(t, b) ==
    LET r == sb_aligned_malloc(Z, sb, BLOCK_SIZE)
    IN  /\ Begin(t, b)
        /\ ~Exists(b) /\ r.ret # NULL
        /\ sb' = r.sb
        /\ \E s \in {"TO_SHARED", "TO_DIRTY"} :
              lines' = [lines EXCEPT ![b] = [NoLine EXCEPT !.line = r.ret, !.state = s]]
        /\ used_bytes' = used_bytes + BLOCK_SIZE
        /\ th' = [th EXCEPT ![t] = CallsEvict(1)]
        /\ UNCHANGED <<bucketLock, to_evicted>>

\* Mutant: the line is not put back on a list.
UnlinkOnly == <<"unlink">>
Relink == <<"unlink", "link">>

\* A read, a write of a dirty line, or a lock.
Hit(t, b) ==
    /\ Begin(t, b)
    /\ lines[b].state \in {"SHARED", "DIRTY"}
    /\ \E lock \in BOOLEAN : lines' = [lines EXCEPT ![b].locked = @ \/ lock]
    /\ Then(t, b, Relink)
    /\ UNCHANGED <<sb, counts>>

UnLock(t, b) ==
    /\ Begin(t, b)
    /\ lines[b].locked
    /\ lines' = [lines EXCEPT ![b].locked = FALSE]
    /\ UNCHANGED <<sb, counts, th, bucketLock>>

\* A write of a shared line: it is unlinked so that it is not evicted before
\* the reply comes.
Upgrade(t, b) ==
    /\ Begin(t, b)
    /\ lines[b].state = "SHARED"
    /\ lines' = [lines EXCEPT ![b].state = "TO_DIRTY", ![b].upgrade = TRUE]
    /\ Then(t, b, <<"unlink">>)
    /\ UNCHANGED <<sb, counts>>

\* The reply: ToShared links a line that was in TO_SHARED, ToDirty any line.
Fill(t, b) ==
    /\ Begin(t, b)
    /\ \/ lines[b].state = "TO_SHARED" /\ SetState(b, "SHARED")
       \/ /\ lines[b].state = "TO_DIRTY"
          /\ lines' = [lines EXCEPT ![b].state = "DIRTY", ![b].upgrade = FALSE]
    /\ Then(t, b, <<"link">>)
    /\ UNCHANGED <<sb, counts>>

\* Another worker reads the block: a dirty line becomes shared where it is.
ToShared(t, b) ==
    /\ Begin(t, b)
    /\ lines[b].state = "DIRTY"
    /\ SetState(b, "SHARED")
    /\ UNCHANGED <<sb, counts, th, bucketLock>>

UndoShared(t, b) ==
    /\ Begin(t, b)
    /\ lines[b].state = "TO_DIRTY" /\ lines[b].upgrade
    /\ lines' = [lines EXCEPT ![b].state = "SHARED", ![b].upgrade = FALSE,
                              ![b].undone = TRUE]
    /\ UNCHANGED <<sb, counts, th, bucketLock>>

ToToInvalid(t, b) ==
    /\ Begin(t, b)
    /\ lines[b].state = "DIRTY" /\ ~lines[b].locked
    /\ SetState(b, "TO_INVALID")
    /\ to_evicted' = to_evicted + 1
    /\ UNCHANGED <<sb, used_bytes, th, bucketLock>>

WasToEvict(b) == lines[b].state = "TO_INVALID"

\* The chunk is given back first; the line leaves its list and `caches' after.
Release(b) ==
    /\ sb' = sb_free(sb, lines[b].line)
    /\ used_bytes' = used_bytes - BLOCK_SIZE
    /\ to_evicted' = IF WasToEvict(b) THEN to_evicted - 1 ELSE to_evicted
    /\ lines' = [lines EXCEPT ![b].line = NULL]

\* Mutant: the line is deleted without leaving its list.
EraseOnly == <<"erase">>
ToInvalidRest == <<"unlink", "erase">>

\* An INVALIDATE of a shared line, the end of a write back or of a recall,
\* and a refused lock of a block that was not cached.
ToInvalid(t, b) ==
    /\ Begin(t, b)
    /\ \/ lines[b].state \in {"SHARED", "TO_INVALID", "TO_SHARED"}
       \/ lines[b].state = "TO_DIRTY" /\ ~lines[b].upgrade
    /\ ~lines[b].locked
    /\ Release(b)
    /\ Then(t, b, ToInvalidRest)

-----------------------------------------------------------------------------
(***************************************************************************)
(* Steps under the bucket lock.                                            *)
(***************************************************************************)
Doing(t, step) == th[t].at = "work" /\ th[t].todo # <<>> /\ Head(th[t].todo) = step
Done(r) == [r EXCEPT !.at = "work", !.todo = Tail(@), !.list = -1, !.seen = {}]

\* UnLinkLRU(cline): the position is reset before the list is locked.
UnLinkLRU(t) ==
    LET b == th[t].b IN
    /\ Doing(t, "unlink")
    /\ IF lines[b].pos = -1
       THEN /\ th' = [th EXCEPT ![t] = Done(@)]
            /\ UNCHANGED lines
       ELSE /\ th' = [th EXCEPT ![t].at = "wait", ![t].list = lines[b].pos]
            /\ lines' = [lines EXCEPT ![b].pos = -1]
    /\ UNCHANGED <<plan, sb, heap, lru, bucketLock, lruLock, counts, ops>>

\* LinkLRU tries lists at random, then all in turn, and waits for a random
\* one when it has found every list locked.
LinkLRU(t) ==
    /\ Doing(t, "link")
    /\ \E i \in Lists :
          IF th[t].seen = Lists
          THEN th' = [th EXCEPT ![t].at = "wait", ![t].list = i] /\ UNCHANGED lruLock
          ELSE IF lruLock[i] = Nil
          THEN /\ lruLock' = [lruLock EXCEPT ![i] = t]
               /\ th' = [th EXCEPT ![t].at = "hold", ![t].list = i]
          ELSE th' = [th EXCEPT ![t].seen = @ \cup {i}] /\ UNCHANGED lruLock
    /\ UNCHANGED <<plan, sb, heap, lines, lru, bucketLock, counts, ops>>

LockList(t) ==
    /\ th[t].at = "wait" /\ lruLock[th[t].list] = Nil
    /\ lruLock' = [lruLock EXCEPT ![th[t].list] = t]
    /\ th' = [th EXCEPT ![t].at = "hold"]
    /\ UNCHANGED <<plan, sb, heap, lines, lru, bucketLock, counts, ops>>

\* UnLinkLRU(cline, i); harmless for a line that Evict has unlinked already.
Unlinked(b, i) ==
    LET p == lines[b].prev
        n == lines[b].next
    IN  /\ heads' = IF heads[i] = b THEN [heads EXCEPT ![i] = n] ELSE heads
        /\ tails' = IF tails[i] = b THEN [tails EXCEPT ![i] = p] ELSE tails
        /\ lines' = [c \in Blocks |->
                        [lines[c] EXCEPT
                            !.prev = IF c = b THEN Nil ELSE IF c = n THEN p ELSE @,
                            !.next = IF c = b THEN Nil ELSE IF c = p THEN n ELSE @]]

Linked(b, i) ==
    /\ lines' = [c \in Blocks |->
                    IF c = b
                    THEN [lines[c] EXCEPT !.pos = i, !.prev = Nil, !.next = heads[i],
                                          !.undone = FALSE]
                    ELSE IF c = heads[i] THEN [lines[c] EXCEPT !.prev = b]
                    ELSE lines[c]]
    /\ heads' = [heads EXCEPT ![i] = b]
    /\ tails' = IF tails[i] = Nil THEN [tails EXCEPT ![i] = b] ELSE tails

ChangeList(t) ==
    LET b == th[t].b
        i == th[t].list
    IN  /\ th[t].at = "hold"
        /\ \/ Head(th[t].todo) = "unlink" /\ Unlinked(b, i)
           \/ Head(th[t].todo) = "link" /\ Linked(b, i)
        /\ lruLock' = [lruLock EXCEPT ![i] = Nil]
        /\ th' = [th EXCEPT ![t] = Done(@)]
        /\ UNCHANGED <<plan, sb, heap, bucketLock, counts, ops>>

\* caches.erase and delete.
Erase(t) ==
    /\ Doing(t, "erase")
    /\ lines' = [lines EXCEPT ![th[t].b] = NoLine]
    /\ th' = [th EXCEPT ![t] = Done(@)]
    /\ UNCHANGED <<plan, sb, heap, lru, bucketLock, lruLock, counts, ops>>

UnlockBucket(t) ==
    /\ th[t].at = "work" /\ th[t].todo = <<>>
    /\ bucketLock' = [bucketLock EXCEPT ![Bucket[th[t].b]] = Nil]
    /\ th' = [th EXCEPT ![t] = Evicting(th[t].left)]
    /\ UNCHANGED <<plan, sb, heap, lines, lru, lruLock, counts, ops>>

-----------------------------------------------------------------------------
(***************************************************************************)
(* Eviction.                                                               *)
(***************************************************************************)
\* Evict() from the event loop's timer, when 0.9 of the limit is in use.
CacheEvictor(t) ==
    /\ th[t].at = "idle" /\ plan.lines
    /\ Used > 0 /\ 10 * Used > 9 * max_cache_mem
    /\ Call
    /\ th' = [th EXCEPT ![t] = CallsEvict(Above(Used, 9))]
    /\ UNCHANGED <<plan, sb, heap, lines, lru, bucketLock, lruLock, counts>>

\* Evict(n) looks at the counters again.
StartEvict(t) ==
    /\ th[t].at = "call"
    /\ th' = [th EXCEPT ![t] = Evicting(EvictLimit(Used, th[t].left))]
    /\ UNCHANGED <<plan, sb, heap, lines, lru, bucketLock, lruLock, counts, ops>>

\* One round of Evict(n): a list at random, the next round if it is locked.
TryList(t) ==
    /\ th[t].at = "evict"
    /\ \E i \in Lists :
          IF lruLock[i] = Nil
          THEN /\ lruLock' = [lruLock EXCEPT ![i] = t]
               /\ th' = [th EXCEPT ![t].at = "search", ![t].list = i]
          ELSE /\ th' = [th EXCEPT ![t] = Evicting(th[t].left - 1)]
               /\ UNCHANGED lruLock
    /\ UNCHANGED <<plan, sb, heap, lines, lru, bucketLock, counts, ops>>

\* Mutant: the early return for an empty list keeps the lock.
AfterSearchKeeping(i) == IF tails[i] = Nil THEN lruLock ELSE [lruLock EXCEPT ![i] = Nil]

\* The list is unlocked before the line is evicted, and on every way out.
AfterSearch(i) == [lruLock EXCEPT ![i] = Nil]

\* The try_lock of the tail's bucket.
MayTake(b) == bucketLock[Bucket[b]] = Nil /\ ~lines[b].locked /\ ~InTransitionState(b)

\* The tail, and only the tail (tries = 1), if its bucket can be locked and
\* the line is idle.  An empty list ends the eviction.
Search(t) ==
    LET i == th[t].list
        b == tails[i]
    IN  /\ th[t].at = "search"
        /\ lruLock' = AfterSearch(i)
        /\ IF b # Nil /\ MayTake(b)
           THEN /\ Unlinked(b, lines[b].pos)
                /\ th' = [th EXCEPT ![t] = [Idle EXCEPT !.at = "victim", !.b = b,
                                                        !.left = th[t].left - 1]]
                /\ bucketLock' = [bucketLock EXCEPT ![Bucket[b]] = t]
           ELSE /\ th' = [th EXCEPT ![t] =
                             Evicting(IF b = Nil THEN 0 ELSE th[t].left - 1)]
                /\ UNCHANGED <<lines, lru, bucketLock>>
        /\ UNCHANGED <<plan, sb, heap, counts, ops>>

\* Evict(cline): a shared line is dropped, a dirty one is written back first.
EvictLine(t) ==
    LET b == th[t].b IN
    /\ th[t].at = "victim"
    /\ \/ /\ lines[b].state = "SHARED"
          /\ Release(b)
          /\ th' = [th EXCEPT ![t].at = "work", ![t].todo = ToInvalidRest]
       \/ /\ lines[b].state = "DIRTY"
          /\ SetState(b, "TO_INVALID")
          /\ to_evicted' = to_evicted + 1
          /\ th' = [th EXCEPT ![t].at = "work"]
          /\ UNCHANGED <<sb, used_bytes>>
    /\ UNCHANGED <<plan, heap, lru, bucketLock, lruLock, ops>>

-----------------------------------------------------------------------------
Allocate ==
    \/ \E r \in plan.requests : Malloc(r.size, r.aligned)
    \/ \E p \in DOMAIN heap : Free(p)
    \/ \E p \in DOMAIN heap, r \in plan.requests : ~heap[p] /\ Realloc(p, r.size)

Operate(t, b) ==
    \/ SetCLine(t, b) \/ Hit(t, b) \/ UnLock(t, b) \/ Upgrade(t, b) \/ Fill(t, b)
    \/ ToShared(t, b) \/ UndoShared(t, b) \/ ToToInvalid(t, b) \/ ToInvalid(t, b)

Step(t) ==
    \/ UnLinkLRU(t) \/ LinkLRU(t) \/ LockList(t) \/ ChangeList(t) \/ Erase(t)
    \/ UnlockBucket(t) \/ StartEvict(t) \/ TryList(t) \/ Search(t) \/ EvictLine(t)

Next ==
    \/ Allocate
    \/ \E t \in Threads : Step(t) \/ CacheEvictor(t) \/ \E b \in Blocks : Operate(t, b)

Spec == Init /\ [][Next]_vars

\* A thread that has begun an operation goes on with it.
FairSpec == Spec /\ \A t \in Threads : WF_vars(Step(t))

-----------------------------------------------------------------------------
(***************************************************************************)
(* Properties.                                                             *)
(***************************************************************************)
RECURSIVE Chain(_, _)
Chain(b, n) == IF b = Nil \/ n = 0 THEN <<>> ELSE <<b>> \o Chain(lines[b].next, n - 1)
List(i) == Chain(heads[i], Cardinality(Blocks) + 1)
OnList(b) == \E i \in Lists : b \in ToSet(List(i))

\* Each LRU list is a doubly linked list from its head to its tail, of lines
\* that have not been deleted, and no line is on two lists or twice on one:
\* what LinkLRU, UnLinkLRU, ToInvalid and Evict leave behind however their
\* critical sections interleave (cache.cc:634-731, 783-812, 935-961).
ListsWellFormed ==
    /\ \A i \in Lists : LET s == List(i) IN
          /\ IsInjective(s)
          /\ tails[i] = IF s = <<>> THEN Nil ELSE Last(s)
          /\ \A k \in DOMAIN s :
                /\ Exists(s[k])
                /\ lines[s[k]].prev = IF k = 1 THEN Nil ELSE s[k - 1]
    /\ \A i, j \in Lists : i # j => ToSet(List(i)) \cap ToSet(List(j)) = {}

\* With its bucket unlocked, a shared or dirty line is on a list, where it
\* can be evicted, unless UndoShared brought it back; and a line that waits
\* for a block is on none: "we unlink the cache to avoid it is evicted before
\* the reply comes back" (cache.cc:192, 490).
OnListIffEvictable ==
    \A b \in Blocks : bucketLock[Bucket[b]] = Nil =>
        /\ lines[b].state \in {"SHARED", "DIRTY"} => OnList(b) \/ lines[b].undone
        /\ lines[b].state \in {"TO_SHARED", "TO_DIRTY"} => ~OnList(b)

Cached == {b \in Blocks : lines[b].line # NULL}


InUse == {<<p, sb.size[sb.item[p].slabs_clsid]>> : p \in DOMAIN sb.item}
OnFreeList == UNION {{<<p, sb.size[i]>> : p \in ToSet(sb.slots[i])} : i \in DOMAIN sb.size}

\* The chunks in use lie inside the memory, apart from each other and from
\* the free ones; they are those of the lines and of the application's objects, each at
\* least as large as was asked for (slabs.cc:232-354).
ChunksApart ==
    /\ DOMAIN sb.item = DOMAIN heap \cup {lines[b].line : b \in Cached}
    /\ \A p \in DOMAIN sb.item :
          /\ sb.item[p].size <= sb.size[sb.item[p].slabs_clsid]
          /\ \A i \in DOMAIN sb.size : p \notin ToSet(sb.slots[i])
    /\ \A c \in InUse, d \in InUse \cup OnFreeList :
          /\ c[1] + c[2] <= Z.mem_limit
          /\ c # d => c[1] + c[2] <= d[1] \/ d[1] + d[2] <= c[1]
    /\ \A b, c \in Cached : b # c => lines[b].line # lines[c].line

\* What is asked for in whole blocks starts on a block: a line, an aligned
\* object, and any request the class table may be asked to serve.  The code
\* asserts it of each allocation (slabs.cc:434).
AlignedToBlocks ==
    /\ \A b \in Cached : lines[b].line % BLOCK_SIZE = 0
    /\ \A p \in DOMAIN heap : heap[p] => p % BLOCK_SIZE = 0
    /\ \A n \in 1..(Z.item_size_max \div BLOCK_SIZE) :
          sb.size[slabs_clsid(sb, n * BLOCK_SIZE)] % BLOCK_SIZE = 0

\* Where the allocator puts chunks.
ChunksPlaced == ChunksApart /\ AlignedToBlocks

\* Whatever a thread has begun with a line or an eviction it ends: a thread
\* with a bucket waits for a list, but none with a list waits for a bucket.
OperationsEnd == \A t \in Threads : th[t].at # "idle" ~> th[t].at = "idle"

=============================================================================
