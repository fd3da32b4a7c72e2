--------------------------- MODULE CoherenceState ----------------------------
(***************************************************************************)
(* The state of the coherence protocol for one block, and what the         *)
(* handlers of the modules LocalRequests, RemoteRequests and               *)
(* PendingRequests share: messages, pending requests, the queues of        *)
(* requests that wait, and the end of an application's call.               *)
(***************************************************************************)
EXTENDS Directory, CacheLine, Sequences

CONSTANTS Home,          \* the worker that owns the block's memory
          Threads,       \* application threads, <<worker, number>> pairs
          Usage,         \* the calls each thread may make (see Issue)
          MaxOps,        \* bound: calls per thread
          MaxEvictions   \* bound: evictions of this block's cache lines

Workers == {Home} \cup Remotes

ASSUME HomeAssumption == Home \notin Remotes
ASSUME ThreadsAssumption == Threads \subseteq Workers \X (Nat \ {0})
ASSUME BoundsAssumption == MaxOps \in Nat /\ MaxEvictions \in Nat

LocalOps == {"READ", "WRITE", "RLOCK", "WLOCK"}

ASSUME UsageAssumption ==
    Usage \in [Threads -> SUBSET [op : LocalOps, addr : Addrs, try : BOOLEAN,
                 async : BOOLEAN, when : SUBSET {"RLOCK", "WLOCK"}]]

VARIABLES
    dir,     \* home: the block's directory entry
    mem,     \* home: the block's content
    line,    \* others: the cache line
    pend,    \* the request of this block a worker waits an answer for
    net,     \* net[i][j]: what i has posted to j
    localq,  \* to_serve_local_requests, per worker
    remoteq, \* to_serve_requests, per worker
    run,     \* what each thread has left of its current call or drain
    th,      \* application threads: state, calls made, pending async writes
    held,    \* the locks the threads have been granted
    glob,    \* the content after every write that has taken effect
    obs,     \* the last content each thread has read or written
    evicted  \* evictions so far

app == <<th, held, glob, obs>>
vars == <<dir, mem, line, pend, net, localq, remoteq, run, app, evicted>>

(***************************************************************************)
(* Data.  The block's content is abstracted to one slot per thread, which  *)
(* holds the number of the thread's last write: a thread writes its own    *)
(* bytes.  A request r is one call of a thread, k its write's number.      *)
(***************************************************************************)
Data == [Threads -> Nat]
Zeroes == [t \in Threads |-> 0]
Store(d, r) == [d EXCEPT ![r.t] = r.k]

LocalRequest == [t : Threads, op : LocalOps, addr : Addrs, try : BOOLEAN,
                 async : BOOLEAN, k : Nat]

WorkerOf(t) == t[1]
Service(w) == <<w, 0>>
Agents == Threads \cup {Service(w) : w \in Workers}

(***************************************************************************)
(* Messages.  A request names the worker it is served for; an immediate    *)
(* (WRITE_WITH_IMM) carries the id of the pending request at the receiver, *)
(* which is unique here.                                                   *)
(***************************************************************************)
HomeOps == {"READ", "WRITE", "WRITE_PERMISSION_ONLY",
            "ACTIVE_INVALIDATE", "WRITE_BACK"}
ReadCacheOps == {"FETCH_AND_SHARED", "READ_FORWARD"}
InvalidateOps == {"INVALIDATE", "INVALIDATE_FORWARD"}
WriteCacheOps == InvalidateOps \cup {"FETCH_AND_INVALIDATE", "WRITE_FORWARD"}
RequestOps == HomeOps \cup ReadCacheOps \cup WriteCacheOps

HomeRequest == [op : HomeOps, req : Remotes, try : BOOLEAN]
CacheRequest == [op : ReadCacheOps \cup WriteCacheOps, req : Workers,
                 try : BOOLEAN]
Answer == [op : {"READ_REPLY", "WRITE_REPLY"}, ok : BOOLEAN]
     \cup [op : {"IMM"}]
     \cup [op : {"RDMA_WRITE"}, data : Data]

\* What a worker can be asked, and what can be on its way to it.
RequestTo(w) == IF w = Home THEN HomeRequest ELSE CacheRequest
MessageTo(w) == RequestTo(w) \cup Answer
RequestMsg == HomeRequest \cup CacheRequest
Message == RequestMsg \cup Answer

Request(o, w, try) == [op |-> o, req |-> w, try |-> try]
Reply(o, ok) == [op |-> o, ok |-> ok]
Imm == [op |-> "IMM"]
RdmaWrite(d) == [op |-> "RDMA_WRITE", data |-> d]

\* Mutant: the notification overtakes the data.
ImmThenWrite(d) == <<Imm, RdmaWrite(d)>>

\* Client::WriteWithImm with and without a payload.
WriteWithImm(d) == <<RdmaWrite(d), Imm>>

\* Network n after i has posted ms to j, and after Home has posted m to all of S.
Post(n, i, j, ms) == [n EXCEPT ![i][j] = @ \o ms]
PostAll(n, S, m) ==
    [n EXCEPT ![Home] = [j \in Workers |-> IF j \in S THEN Append(@[j], m)
                                                      ELSE @[j]]]

(***************************************************************************)
(* Pending requests (pending_works): for a local call, for a request of    *)
(* another worker that had to be forwarded, or for a line on its way out.  *)
(***************************************************************************)
NoPending == [op |-> "NONE"]
ForCall(o, n, r) == [op |-> o, counter |-> n, failed |-> FALSE, r |-> r]
ForRequest(o, n, m) == [op |-> o, counter |-> n, failed |-> FALSE, m |-> m]
Leaving(o) == [op |-> o]

CacheCallOps == {"READ", "WRITE", "WRITE_PERMISSION_ONLY"}
HomeCallOps == {"FETCH_AND_SHARED", "FETCH_AND_INVALIDATE", "INVALIDATE"}
ForwardOps == {"READ_FORWARD", "WRITE_FORWARD", "INVALIDATE_FORWARD"}
LeavingOps == {"WRITE_BACK", "PENDING_INVALIDATE"}

CallPending(ops) ==
    [op : ops, counter : Int, failed : BOOLEAN, r : LocalRequest]
HomePending ==
    [op : {"NONE"}] \cup CallPending(HomeCallOps)
    \cup [op : ForwardOps, counter : Int, failed : BOOLEAN, m : HomeRequest]
CachePending == [op : {"NONE"} \cup LeavingOps] \cup CallPending(CacheCallOps)
Pending == HomePending \cup CachePending
PendingAt(w) == IF w = Home THEN HomePending ELSE CachePending

SetLine(w, c) == line' = [line EXCEPT ![w] = c]
Pend(w, p) == pend' = [pend EXCEPT ![w] = p]

(***************************************************************************)
(* The work list of a thread.  ProcessToServeRequest takes the local queue *)
(* as a whole, runs it, then takes the remote queue and runs it.           *)
(***************************************************************************)
TakeLocalItem == [kind |-> "take_local"]
TakeRemoteItem == [kind |-> "take_remote"]
LocalItem(r) == [kind |-> "local", r |-> r]
RemoteItem(m) == [kind |-> "remote", m |-> m]

ItemOf(M) == [kind : {"take_local", "take_remote"}]
        \cup [kind : {"local"}, r : LocalRequest]
        \cup [kind : {"remote"}, m : M]

ToServe(a) == run' = [run EXCEPT ![a] = <<TakeLocalItem, TakeRemoteItem>>]

AddToServeLocalRequest(w, r) ==
    localq' = [localq EXCEPT ![w] = Append(@, r)]
AddToServeRemoteRequest(w, m) ==
    remoteq' = [remoteq EXCEPT ![w] = Append(@, m)]

(***************************************************************************)
(* The end of a call.  Notify (or the return of ProcessLocalRequest) lets  *)
(* the calling thread go on; an asynchronous write only leaves             *)
(* fence->pending_writes.                                                  *)
(***************************************************************************)
\* Mutant: every call is notified as a synchronous one.
NotifySync(r) == th' = [th EXCEPT ![r.t].waiting = FALSE]

Notify(r) ==
    th' = [th EXCEPT ![r.t].writes = IF r.async THEN @ - 1 ELSE @,
                     ![r.t].waiting = @ /\ r.async]

ReadReturns(r, d) ==
    /\ obs' = [obs EXCEPT ![r.t] = d]
    /\ Notify(r)
    /\ UNCHANGED <<held, glob>>

WriteTakesEffect(r) ==
    /\ glob' = Store(glob, r)
    /\ Notify(r)
    /\ UNCHANGED <<held, obs>>

LockGranted(r) ==
    /\ held' = held \cup {<<r.t, r.addr, r.op>>}
    /\ Notify(r)
    /\ UNCHANGED <<glob, obs>>

LockFailed(r) == Notify(r) /\ UNCHANGED <<held, glob, obs>>

\* A lock call that finds the lock taken: Try_* fails, the others wait.
FailOrWait(w, r) ==
    \/ r.try /\ LockFailed(r) /\ UNCHANGED localq
    \/ ~r.try /\ AddToServeLocalRequest(w, r) /\ UNCHANGED app

=============================================================================
