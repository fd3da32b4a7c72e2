# GAM in TLA+

GAM is a distributed shared memory. Every worker contributes memory to a global
address space, and caches blocks (4 KB) of the other workers' memory. A
directory-based protocol over RDMA keeps the copies coherent, and the same
messages carry its read and write locks. On top of it the repository has a
database that runs TPC-C on several nodes. This directory specifies

- the coherence protocol with its locks, asynchronous writes and evictions,
- the fence that orders a thread's asynchronous writes,
- the send window of an RDMA connection,
- the memory of a worker: cache lines, LRU lists and the slab allocator,
- the concurrent hash table (libcuckoo) that holds the pending requests,
- the cluster: master, joining, memory statistics, allocation, put and get,
- the database: hash index, two-phase locking, TPC-C, and its barrier,

with TLC models, TLAPS proofs and `PROJECT.json`, which maps definitions to lines
of `src/`.

The model follows the default build (`src/src/Makefile`, `src/include/settings.h`): `MULTITHREAD`,
`USE_LRU`, `GFUNC_SUPPORT`, `ASYNC_UNLOCK` and `MERGE_RDMA_REQUESTS` on,
`NOCACHE`, `SELECTIVE_CACHING` and `ASYNC_RDMA_SEND` off, and `-DNDEBUG`: an
`epicAssert` stops nothing.

## 1. The system

| Part | Source | State | What it does |
|---|---|---|---|
| Directory | `directory.h/.cc` | per block: state, list of sharers, lock table | the home worker's knowledge of the copies of its blocks |
| Cache | `cache.h/.cc` | per block: state, content, lock table, LRU links | a worker's copies of other workers' blocks; misses, hits, eviction |
| Local requests | `local_request*.cc` | – | calls of application threads: read, write, locks, unlock, fences, malloc |
| Remote requests | `remote_request*.cc` | – | requests from other workers, and replies that refuse or grant |
| Pending requests | `pending_request.cc`, `pending_works` | id, counter, flags | what happens when an awaited answer (an RDMA immediate) arrives |
| Waiting requests | `worker.cc` | `to_serve_local_requests`, `to_serve_requests` | requests that met a block in transition; run again when it ends |
| Fence | `worker.h/.cc` | `pending_writes`, flags, queue | orders a thread's asynchronous writes before fences and locks |
| RDMA connection | `rdma.h/.cc`, `client.cc` | slots, window, signals, queue | posts SENDs and RDMA writes, merges waiting ones, polls completions |
| Server, event loop | `server.cc`, `ae*.cc`, `anet.cc` | – | one polling thread per worker dispatches completions |
| Handles, API | `worker_handle.cc`, `gallocator.cc` | – | how an application thread hands over a call and waits for it |
| Master | `master.cc` | workers, statistics, a key-value store | registration and directory of workers |
| Allocation | `slabs.cc`, `local_request.cc` | free lists, ghost size | memcached's slab allocator, and the choice of the worker that allocates |
| Hash tables | `hashtable.h`, `lib/libcuckoo` | buckets, locks | the tables of pending requests, fences and clients |
| Database | `database/` | index, records, access lists | TPC-C with two-phase locking over the shared memory |
| Application | `dht/` | – | a distributed hash table |

**How the parts meet.** A thread's call runs on that thread
(`WorkerHandle::SendRequest` -> `ProcessLocalRequest`), under the lock of the
block. If the block's state lets it, the call ends there. Otherwise the worker
puts the block in a transition state, records a pending request and sends a
message. The worker's service thread receives requests (`ProcessRequest(Client*,
WorkRequest*)`), replies and immediates (`ProcessRequest(Client*, unsigned)`).
What finds the block in a transition state is queued. Whoever ends the
transition runs `ProcessToServeRequest`: it takes the local queue as a whole and
runs it, then the remote queue, both after the block's lock has been released.
Content travels by RDMA write, ahead of the immediate or reply that announces it
on the same connection.

A line takes memory from the slab allocator, which also holds the blocks that the
worker gives to the cluster. A background thread, and the request that finds the
cache full, evict lines. Workers learn each other's addresses from the master when
they join, and each other's free memory from its broadcasts; an allocation goes to
the worker that these figures favour. The database builds its barrier from the
master's put and get, and a transaction takes one lock of the shared memory per
record.

**What is hard to get right.** Requests that cross: an invalidation meets a line
whose own upgrade, write-back or eviction is on its way. Forwarded requests: the
requester hears from the old owner and from home in either order. Refusals: one of
several recalled workers says no after the others have given up their copies.
Queues that are run outside the lock. Locks that live in the line or in the
directory entry and must survive each transition. A fence that is opened by
whichever thread completes the last write. A send window whose slots are freed by
a completion that stands for many requests. A line on an LRU list whose lock is
taken in the opposite order by the evicting thread. A cuckoo path that is replayed
after its locks were given up. Workers that join at the same time and wait for each
other. A transaction that is refused its fifth lock. `PROJECT.json` lists these hazards at
their lines.

## 2. Modules

| Module | Models | Lines of the system |
|---|---|---|
| `Locks` | the lock table of a block | `cache.h`, `directory.h`, lock operations |
| `Directory` | the directory entry and its transitions | `directory.h/.cc` |
| `CacheLine` | the cache line and its transitions | `cache.h`, `cache.cc` |
| `CoherenceState` | the variables; messages, pending requests, queues, the end of a call | `worker.h/.cc`, `client.cc` |
| `LocalRequests` | calls at home and at the others | `local_request_cache.cc`, `cache.cc` |
| `RemoteRequests` | requests of other workers | `remote_request_cache.cc` |
| `PendingRequests` | replies and immediates | `pending_request.cc`, `remote_request_cache.cc` |
| `Coherence` | the composition: threads, service threads, network, NIC, eviction; properties | `worker.cc`, `server.cc`, `cache.cc` |
| `Fence` | the fence of one thread | `worker.cc`, `local_request.cc` |
| `Channel` | what a connection promises: a FIFO channel | abstract |
| `SendWindow` | the sending side of a queue pair; refines `Channel` | `rdma.cc` |
| `Slabs` | the slab allocator, as operators on its state | `slabs.cc`, `slabs.h` |
| `CacheMemory` | lines, LRU lists, eviction and allocation in one worker's memory | `cache.cc`, `cache.h`, `map.h` |
| `Dictionary` | what a hash table promises: atomic calls | abstract |
| `Cuckoo` | the concurrent cuckoo table; refines `Dictionary` | `cuckoohash_map.hh` |
| `Cluster` | master and workers: joining, statistics, allocation | `master.cc`, `worker.cc`, `server.cc`, `local_request.cc`, ... |
| `Barrier` | what a fence of the cluster promises | abstract |
| `ClusterSync` | put and get, and the fence of the database; refines `Barrier` | `master.cc`, `ClusterSync.h`, `gallocator.cc` |
| `HashIndex` | the primary index in shared memory | `database/storage/` |
| `Transactions` | two-phase locking without waiting | `database/txn/` |
| `TpccData` | the populated rows and their keys; what each procedure computes | `TpccPopulator.h`, `TpccKeyGenerator.h` |
| `Serial` | what the transactions promise: one at a time | the SQL comments of `TpccProcedure.h` |
| `Tpcc` | populating, fence, procedures, executor; refines `Serial` | `TpccProcedure.h`, `TransactionExecutor.h` |
| `MCCoherence`, `MCFence`, `MCSendWindow`, `MCCacheMemory`, `MCCuckoo`, `MCClusterSync`, `MCTpcc` | small instances | – |
| `ProtocolTypes`, `RequestsTyping`, `AnswersTyping`, `CoherenceTyping` | the type invariant of `Coherence`, proved | – |
| `CoherenceProofs` | theorems about the cache lines of `Coherence` | – |
| `FenceProofs` | theorems about `Fence` | – |
| `SendWindowProofs` | theorems about `SendWindow` | – |

`Coherence` EXTENDS the handler modules, which EXTEND `CoherenceState`, which
EXTENDS `Directory` and `CacheLine`, which EXTEND `Locks`. `CacheMemory` EXTENDS
`Slabs`, `ClusterSync` EXTENDS `Cluster`, and `Tpcc` EXTENDS `TpccData`,
`HashIndex` and `Transactions`. Mutated operators, each
with "Mutant:" in its comment, stand before the operator they replace; no
specification uses them.

### Coherence: state and actions

One block, one home worker, the others as `Remotes`.

| Variable | Code |
|---|---|
| `dir`, `mem` | `DirEntry` of the block and its memory at home; an erased entry is the unshared, unlocked one |
| `line[w]` | `CacheLine` at `w`; `INVALID` is "no line" |
| `pend[w]` | the entry of `pending_works` for this block at `w` |
| `net[i][j]` | what `i` has posted to `j` and `j` has not taken: one reliable connection, first in, first out |
| `localq[w]`, `remoteq[w]` | `to_serve_local_requests`, `to_serve_requests` |
| `run[a]` | what thread `a` has left of its call or of `ProcessToServeRequest` |
| `th[t]` | is thread `t` waiting, how many calls and writes it has made, `fence->pending_writes` |
| `held`, `glob`, `obs` | history: locks granted, content after every write that took effect, what each thread last saw |
| `evicted` | number of evictions, for the bound |

| Action | Code |
|---|---|
| `Issue`, `ServeLocal` | `SendRequest` and `ProcessLocalRequest` |
| `ProcessLocalUnLock` | the same, up to the drain of the queues |
| `TakeLocal`, `TakeRemote`, `ServeRemote` | `ProcessToServeRequest` |
| `ReceiveRequest` | `ProcessRequest(Client*, WorkRequest*)` for requests |
| `ReceiveReadReply`, `ReceiveWriteReply` | the same for replies |
| `ReceiveImm` | `ProcessRequest(Client*, unsigned)` and `ProcessPendingRequest` |
| `Land` | the receiver's NIC performs an RDMA write (external) |
| `CompletionCheck` | `Worker::CompletionCheck` for `PENDING_INVALIDATE` |
| `Evict` | `Cache::Evict(CacheLine*)` |

An action is one critical section of the block's lock, with the sends and the
notification next to it. The abstractions, and why they lose nothing the
properties tell apart:

- *Content* is one slot per thread with the number of the thread's last write. A
  line that misses some write differs from `glob` in that slot.
- *Sharers* are a set of workers. The code keeps a list of (worker, line address)
  pairs, from which `Clear` removes the pair of the line that was evicted. The two
  agree as long as home serves a worker's eviction before the worker's next
  request. The connection and the service thread keep that order. Only a thread of
  home that unlocks, and so runs the queue itself, could break it, after an
  eviction. No run combines the two yet (section 6).
- *RDMA payload* is taken when the write is posted.
- *One pending request per worker and block.* The code could hold several;
  `OneRequestAtATime` checks that it never does.
- *A request to a line that is not there.* The code prints "cannot find an updated
  copy" for a request that needs content and finds no line. The guard leaves
  these branches out; `OwnerHasCopy` shows that they are never reached.
- *Fenced calls.* A lock or unlock call starts when the thread's writes are done.
  That the fence really sees to this is the subject of `Fence`.
- *Locks.* A thread does not lock an address it holds already.
- *Eviction* may take any eligible line at any time, up to `MaxEvictions`: the
  cache also holds other blocks that are not modelled.
- *CompletionCheck* fires when no RDMA write of `w` is in flight: a signaled
  completion means that the write has been performed.

### Fence: state and actions

One application thread and the helpers (other threads of its worker) that complete
its requests. `pending_writes`, `mfenced`, `sfenced`, `pending_works` and
`in_process` are the fields of `struct Fence`; `holder` is the thread in the loop
of `ProcessFenced`, which holds the fence's lock; `pc` separates the steps between
which the lock is not held. `IssueRead`, `IssueWrite`, `StartWrite`, `IssueFence`
and `IssueLock` are the heads of the `ProcessLocal*` functions, `WriteDone` and
`SyncDone` are `Notify`, and `TestInProcess`, `EnterFence`, `ServeFenced` and
`LeaveFence` are `ProcessFenced`. What a request does to a block is left out.

### SendWindow: state and actions

The fields of `RdmaContext`, the queue pair (`sq`), the completions (`comps`) and
the wire (`sent`). `Rdma` is `RdmaContext::Rdma`, `SendComp` is
`RdmaContext::SendComp`, and `DrainMerge`, `DrainNew` and `DrainPost` are
`ProcessPendingRequests`, split into its rounds; the context's lock is held
throughout, so nothing else of the context runs in between. `Transmit` is the NIC
(external). Whether two waiting SENDs fit in one slot depends on their sizes and
is a free choice. `GetFreeSlot_` is modelled where a slot is free, and
`SlotsAccounted` shows that one always is when the window is open. The refinement
mapping to `Channel` is the identity on `accepted` and `sent`.

### CacheMemory and Slabs: state and actions

`lines[b]` is the `CacheLine` of block `b` (state, memory, `prev`, `next`, `pos`),
`heads` and `tails` are the LRU lists, `bucketLock` and `lruLock` the locks,
`used_bytes` and `to_evicted` the counters, `sb` the allocator. A step of a thread is
one critical section of a list's lock, or the part of one of a bucket's lock between
two of them. `Operate` is a call or a message for a block: a hit, a miss (`SetCLine`),
the arrival of the content, a recall, an unlock. Which of them may happen is decided
by the line's state, as in `CacheLine`; the messages are in `Coherence`.
`CacheEvictor` is the evicting thread. `Evict(n)` searches a list from its tail with
`try_lock` on the buckets. The functions of `slabs.cc` are operators from one
allocator state to the next, since its lock is held through every call; the class
table is computed by the code's loop, also for the sizes of the real build.

### Cuckoo: state and actions

The table (`hashpower`, `buckets`), the spin locks, and per thread the local variables
of its call. A step is what a thread does between two lock operations: take the locks
of a key's buckets and check the hash power, search for a path bucket by bucket,
replay it from its end, look for the key once more, insert, double the table. The
refinement mapping takes the content of the slots for the dictionary, and a call takes
effect in the step in which it releases the locks under which it decided. Tables of
GAM have integer keys, so partial keys are not compared.

### Cluster and ClusterSync: state and actions

Per process the three threads that the header of `Cluster` names. `pc` is how far the
constructor of `Worker` has come; `backlog` and `answer` are the TCP connections that
wait and what their other end has sent; `link` are the RDMA connections; `widCliMap`,
`freeMem`, `ghost_size` and `heap` belong to a worker, `workers`, `worker_ips` and
`memStat` to the master. Every allocation is one block. `ClusterSync` adds `kvs` and
`to_serve_kv_request` of the master and the fence of each process, which is two
exchanges of one key per process. The mapping to `Barrier` counts the fences each
process has reached and left.

### Tpcc: state and actions

`chain` and `header` are the index, `pop` what each node has still to insert; `db` are
the records, `locks` the locks of the shared memory, `acc` the access list of each
thread's transaction, `pos` where its commit or abort is. A step is one query of a
procedure, one access of a commit or abort, or one turn of the executor. A try lock is
refused as `Coherence` refuses it: by address within a node, by block between nodes.
The mapping to `Serial` lets a transaction happen when it calls `CommitTransaction`.
`sums` of `DeliveryProcedure` is never assigned in the code, so it starts with any
value of `Garbage` and keeps it.

## 3. What is checked

`tlc -workers 2 -config <run>.cfg <module>`; every run finishes within minutes.

| Run | Module | Shows |
|---|---|---|
| `evictions` | `MCCoherence` | home writes, two workers read and write, one of them evicts at any moment: one coherent content, one writer, a directory that knows every copy and asks for content only where it is, transitions matched by pending requests; no stray answer, no RDMA write into a line that does not wait for it, no forward to the requester, one request at a time; a thread never sees the block go back |
| `locks` | `MCCoherence` | locks that wait and try locks that are refused in the middle of recalls, by three workers: exclusion, lock tables that agree with the holders, and recalls counted although some are refused |
| `async_writes` | `MCCoherence` | two threads of one worker with asynchronous writes, and an eviction: coherent, and no call is lost between queues, threads and pending requests |
| `live` | `MCCoherence` | every call of well-locked threads returns, refused try locks included |
| `fences` | `MCFence` | nothing passes a fence or a lock early, order is kept |
| `window` | `MCSendWindow` | the window implements a FIFO channel, slots are not reused early, all requests are sent |
| `memory` | `MCCacheMemory` | LRU lists well formed, valid lines on a list and waiting ones on none, counters exact, chunks apart and aligned; every operation ends |
| `cuckoo` | `MCCuckoo` | the table implements an atomic dictionary; keys stay findable while they are displaced and while the table grows |
| `cluster` | `MCClusterSync` | connections complete before they are used, each address held once, statistics off by at most the ghost size, the fence is a barrier, everybody passes it |
| `transactions` | `MCTpcc` | every populated row is found, locks agree with access lists, the transactions are serialisable |
| `lock_upgrade` | `MCCoherence` | expected violation, see below |
| `fence_lost` | `MCFence` | expected violation, see below |

**Bounds.**

- *Coherence.* `MaxOps` calls per thread: two are enough for each worker to be owner,
  sharer and requester in turn and for two requests to cross; `live` uses four, a
  whole lock/access/unlock cycle twice. Two remote workers, interchangeable
  (`SYMMETRY`), are the least with a forward between caches and a recall of more than
  one copy. One eviction puts an `ACTIVE_INVALIDATE` or a `WRITE_BACK` at every
  moment. Two threads of one worker are the least that share a line and its queues.
  `EXCLUSIVE_LOCK_TAG` is 3 (255 in the code), above the number of threads. Reads of
  home's thread are in `async_writes`.
- *Fence.* Five requests reach a second fence behind a queue that is being served.
- *SendWindow.* A window of 4 with a signal every 2 (1024 and 512 in the code) and 7
  requests fills up, wraps around and drains.
- *CacheMemory.* Two threads, three blocks of which two share a bucket, two LRU lists
  (10 in the code), from an empty and from a full cache; objects of all classes of a
  small allocator; the class table for the sizes of the build.
- *Cuckoo.* Four full buckets of one slot (4 slots in the code), so that an insertion
  needs a path of three displacements or a larger table; three calls of two threads.
- *Cluster.* Three processes that join in some order, up to three allocations, two
  fences; one worker keeps half its memory for its cache, one nothing, one everything.
- *Tpcc.* Two nodes with a warehouse each and three threads, in mixes in which
  NewOrder, Payment and Delivery meet on the same district, customer or stock; five
  buckets of the index, so that rows of both nodes share chains.

`CHECK_DEADLOCK FALSE` stands where the system may stop: in `evictions` and
`async_writes` because of the deadlock below, in the other runs when the bound on
requests, operations or rounds is reached.

**Fairness.** Weak fairness of application threads inside a call or a drain, of
unlocking, of each service thread per connection and of the NIC: threads are
preemptively scheduled, the service thread polls without end and never blocks on a
connection, and a reliable connection delivers. Nothing is assumed about new calls
or evictions. In `Fence` the threads run and started requests complete; in
`SendWindow` the NIC transmits and the completion queue is polled; in `CacheMemory`
a thread goes on with what it has begun (spin locks under a preemptive scheduler; a
list's lock is not held while another thread waits for a bucket); in `ClusterSync`
each thread of each process, and the event loop of the master for each connection,
goes on. New allocations and the start of a process are not forced.

### Where the code and its comments disagree

The first two have a run that expects the violation and an entry in `PROJECT.json`.
The others are behaviours of the same modules; the instance that shows them is given.

- `lock_upgrade`: a line that is read-locked by one thread and upgraded by another
  acknowledges an `INVALIDATE`, and home grants a write lock beside the read lock.
- `fence_lost`: with two completing threads, the requests behind a second fence can
  be left in the queue: the thread that completes the last write leaves because
  another thread is still in `ProcessFenced`, which has just stopped at a fence.
- *Evict, then read* (`LiveSpec`, `HomeAndOne`, `ReadsAndWrites`, `MaxOps = 2`,
  `MaxEvictions = 1`, `CallsReturn`): a worker evicts its shared copy and reads the
  block again while home recalls the old copy. The line is in `TO_SHARED`, so the
  `INVALIDATE` waits for the read; home is in transition, so the read waits for the
  `INVALIDATE`. Both wait for ever. The comment at `remote_request_cache.cc:528` lists
  two causes of this deadlock; this is a third.
- *Refused upgrade* (`Spec`, `HomeAndOne`, `TryThenAccess`, `MaxOps = 3`, `Coherent`):
  a `Try_WLock` on a shared line is refused after the line has acknowledged an
  invalidation; `UndoShared` brings the old content back.
- *Alone* (`MCClusterSync` with `Plans <- OneWorker`, `AllAlive`): with no other
  worker and less free memory than the cache reserve, `ProcessLocalMalloc` calls
  `lock` on the null client before it tests it, where the comment at
  `local_request.cc:108` says that it allocates locally.

The passing runs stay clear of these by what their threads call: no worker has two
threads that lock, a caching worker that tries a lock makes no accesses, and no run
with an eviction checks liveness.

## 4. What is proved

TLAPS, for any finite set of remote workers, any threads, addresses and calls:

- `CoherenceTyping!Typing`: `Spec => []TypeOK`. `TypeOK` says more than types of
  variables: home is only ever sent, queues and re-runs requests of caches, a cache
  only those of home, and what is pending at a worker is of a kind its handlers
  know. `ProtocolTypes` has the lemmas about messages, queues, directory entries and
  lines, `RequestsTyping` and `AnswersTyping` one lemma per handler, and
  `CoherenceTyping` one per action. `TypeOK` is inductive because
  the messages, the queues, the work lists and the pending requests are typed per
  worker (`MessageTo(w)`, `RequestTo(w)`, `PendingAt(w)`).
- `CoherenceProofs!TransitionsMatch`: `Spec => []LineMatchesPending`. A line is in
  a transition state exactly while its worker has the request pending whose answer
  or completion ends it. `TypeOK /\ LineMatchesPending` is inductive. Every action
  is shown to be, for the lines and pending requests of the caches, one of five
  kinds of steps (`LineStep`), and each kind preserves the match.
- `CoherenceProofs!CachesWaitForOne`: a cache never replaces a pending request by
  one of another kind; the caches' half of `OneRequestAtATime`.

- `FenceProofs!FenceCorrect`: `Spec => [](WritesCounted /\ FenceHolds /\
  BeginInOrder)`, for any set of notifying threads, any calls and any number of
  requests. `FenceHolds` is not inductive: it speaks of a write and of a request that
  has begun behind a fence, and an inductive step needs to know why it could not begin.
  The invariant adds that only the thread in the loop of `ProcessFenced` holds the
  lock (`LockHeld`), that a write is admitted only while the fence is open
  (`Admitted`), that the queue holds the fenced requests in program order (`Queue`),
  that a begun fence with a write pending before it is closed and nobody serves the
  queue (`FenceClosed`), and that nothing ordered behind it has begun
  (`NotOvertaken`). One lemma per action.
- `SendWindowProofs!WindowImplementsChannel`: `Spec => C!Spec`, for any window, any
  distance of signals and any number of requests; and `WaitOnlyWhenFull`:
  `Spec => []QueueOnlyWhenFull`. The invariant says that the posted work requests, the
  batch and the waiting requests carry, one after the other, exactly what was accepted
  and not sent (`Chained`), and that the budget of a drain is what the window has left
  (`Window`), so that a drain which leaves requests waiting leaves a full window.
  `Transmit` is the only step that changes `sent`, and it appends the numbers of the
  first work request, which `Chained` makes the next ones in order.

Assumptions on constants are the `ASSUME`s of the modules: `Remotes` is finite and
does not contain `Home`, threads belong to workers, `Usage` has its type, the
exclusive tag is positive; the fenced thread is not one of the notifying ones; the
window is not empty and the signal distance within it. `MaxRequests` of `Fence` and
`SendWindow` is any number; no other bound is used.

Only model-checked: coherence, exclusion, the counting of recalls and calls; the slots
of `SendWindow`; everything about `CacheMemory`, `Cuckoo`, `ClusterSync` and `Tpcc`
(the first two and the last use recursive operators or bitwise arithmetic, which the
prover's SMT backend does not take); and all liveness, which is out of the prover's
reach.

## 5. What is not modelled

- *Reads and writes of several blocks*: the library splits them into parts, one per
  block; nothing orders the parts.
- *Several blocks in `Coherence`, several lines' messages in `CacheMemory`*: blocks
  meet only in memory, LRU lists and bucket locks, which are `CacheMemory`; there, what
  may happen to a line is decided by its state and not by messages.
- *Cached copies of freed memory*: a `FIXME` in `remote_request.cc:252` says that the
  code does not recall them.
- *The NIC's view of a buffer*: content is taken when an RDMA write is posted. The
  code does not wait for the completion before a local thread may write the block
  again (`remote_request_cache.cc:41`).
- *Relaxed memory orders*: steps are sequentially consistent. `LockWrapper` uses
  atomics that would need a weak memory model.
- *`rehash` of the cuckoo table beside insertions*: callers of GAM never do it.
- *The text encoding of requests and statistics.* With `unsynced_th` above 1 a broadcast
  has several entries, which its format string does not separate; the default is 1, and
  the model has one entry per broadcast.
- *Sizes other than one block in `Cluster`.* In the code the ghost size grows by the
  size asked for and shrinks by the size of the chunk, so that it drifts when the two
  differ; the model's allocations are exactly a chunk.
- *Failures of processes and connections*: the code does not handle any.
- RDMA reads and receive slots; GAM functions; the `NOCACHE` and `DHT` builds; the
  single-threaded transaction manager; the event loop, sockets and logging; the test
  programs.

Observations made while modelling, which no property is about:

- `sb_realloc` loses the content: an inner `ptr` hides the argument
  (`slabs.cc:519`). Nothing calls it.
- `memset` comes before the test for a null address (`local_request.cc:123`,
  `remote_request.cc:120`): `ALLOC_ERROR` cannot be returned.
- The master's `PUT` uses a reference to an element it has popped (`master.cc:180-186`).
- A reply to `GET` is announced before the pending request is erased
  (`remote_request.cc:170-173`).
- A worker other than the home of a `RANDOM` allocation with a base of its own finds the
  master under its own id in `widCliMap`.
- A warehouse number is shifted by `kWarehouseBits` = 58 into 64 bits: numbers from 64
  on lose their top bits (`TpccConstants.h:42`).
- `Delivery` takes every failed search of NEW_ORDER for a missing order and lets the
  order number wrap (`TpccProcedure.h:38-50`). A search also fails when the lock is
  refused; the manager has then released the locks taken so far, and the procedure goes
  on and commits the rest: half a transaction. `Serializable` holds in
  run `transactions` because there no lock of a NEW_ORDER row is ever refused: nobody
  writes these rows, and no other node writes in their block. The shipped benchmark is
  in this case: with `PARTITION_SOURCE` (`TpccBenchmarkMain.cpp:51`) a node write-locks
  only CUSTOMER and STOCK rows of another one, and chunks of their size come from
  other slabs. With `RANDOM_SOURCE` (line 53, commented out) another node's Delivery
  locks DISTRICT_NEW_ORDER rows, whose size is close to that of NEW_ORDER rows. When
  `BlockOf` puts the NEW_ORDER rows of a warehouse into the block of its customers,
  `transactions` refutes `Serializable` with a Delivery and a Payment from the other
  node.
- No-wait locking retries at once: two transactions may refuse each other for ever.
- A line that `UndoShared` brings back is on no LRU list until its next hit
  (`cache.h:328`).
