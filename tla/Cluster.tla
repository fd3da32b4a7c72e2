------------------------------- MODULE Cluster -------------------------------
(***************************************************************************)
(* The master and the workers of a cluster: how a worker joins, how the    *)
(* memory statistics travel, and how memory is allocated and freed across  *)
(* workers.  A worker process is named by its line in the cluster's        *)
(* configuration file (its partition); the master numbers the workers in   *)
(* the order in which it accepts them.                                     *)
(*                                                                         *)
(* Each worker process has three threads here: the one that runs the       *)
(* constructor of Worker and then the application, the event loop that     *)
(* accepts TCP connections, and the one that polls the RDMA completions.   *)
(* The master has one, its event loop, that does both.  A handler runs to  *)
(* its end in one step, except where it waits for the other end of a       *)
(* socket.  Links are the RDMA connections, in order (module SendWindow).  *)
(***************************************************************************)
EXTENDS Integers, FiniteSets, SequencesExt

CONSTANTS PartitionNum,   \* worker processes in the configuration file
          MemSize,        \* conf->size, in blocks; every allocation is one block
          CacheSize,      \* conf->size * conf->cache_th of each worker
          ghost_th,       \* conf->ghost_th
          Plans           \* bound: what the processes do, see below

Partitions == 0..(PartitionNum - 1)

ASSUME ClusterAssumption ==
    /\ PartitionNum \in Nat \ {0}
    /\ {MemSize, ghost_th} \subseteq Nat
    /\ CacheSize \in [Partitions -> 0..MemSize]

(* The bounds of a behaviour: whether it starts with a cluster that is up  *)
(* or with no worker, the processes that start and in which order, and the *)
(* allocations and the fences of each application.                         *)
ASSUME PlansAssumption ==
    Plans \subseteq [joined : BOOLEAN, order : UNION {[1..n -> Partitions] : n \in 1..PartitionNum},
                    mallocs : [Partitions -> Nat], rounds : Nat]

(* Workers whose cache_th is 1 have no memory to offer.                    *)
CacheOnly == {p \in Partitions : CacheSize[p] = MemSize}

Master == PartitionNum
Ends == Partitions \union {Master}
None == -1
NoCall == [op |-> "NONE"]
Gnullptr == <<0, 0>>

VARIABLES
    (* master *)
    workers,          \* workers[w]: the process that was given worker id w
    worker_ips,       \* the processes whose address is in the worker list
    accepting,        \* whom PostAcceptWorker waits for, or None
    memStat,          \* widCliMapWorker of the master: worker id -> free memory
    (* worker *)
    pc, wid, todo,    \* the constructor of Worker
    backlog,          \* connections not yet accepted, per end
    answer,           \* what a connecting process can read from its socket, if anything
    widCliMap,        \* worker id -> the end its Client talks to
    freeMem,          \* widCliMapWorker: worker id -> free memory, as last heard
    heap,             \* the blocks of the worker's memory that are allocated
    ghost_size,       \* memory allocated less memory freed since the last statistics
    (* application *)
    call,             \* the call the application waits for, or NoCall
    held,             \* addresses the application has been given and not freed
    mallocs,          \* bound: allocations made
    plan,             \* bound: never changes
    (* network *)
    link              \* link[<<a, b>>]: messages sent by a that b has not processed

masterVars == <<workers, worker_ips, accepting, memStat>>
joinVars == <<pc, wid, todo, backlog, answer, widCliMap>>
memVars == <<freeMem, heap, ghost_size>>
appVars == <<call, held, mallocs, plan>>
clusterVars == <<masterVars, joinVars, memVars, appVars, link>>

(* No process has started.                                                 *)
Fresh ==
    /\ workers = <<>> /\ worker_ips = <<>> /\ memStat = <<>>
    /\ pc = [p \in Partitions |-> "start"]
    /\ wid = [p \in Partitions |-> 0]
    /\ widCliMap = [p \in Partitions |-> <<>>]
    /\ freeMem = [p \in Partitions |-> <<>>]

(* All that start have joined and have heard all statistics.               *)
Joined ==
    LET wids == DOMAIN plan.order
        up == Range(plan.order)
        at(p) == CHOOSE w \in wids : plan.order[w] = p
        stats == [w \in {at(p) : p \in up \ CacheOnly} |-> MemSize - CacheSize[plan.order[w]]]
    IN  /\ workers = plan.order /\ worker_ips = plan.order /\ memStat = stats
        /\ pc = [p \in Partitions |-> IF p \in up THEN "running" ELSE "start"]
        /\ wid = [p \in Partitions |-> IF p \in up THEN at(p) ELSE 0]
        /\ widCliMap = [p \in Partitions |-> IF p \in up THEN [plan.order EXCEPT ![at(p)] = Master] ELSE <<>>]
        /\ freeMem = [p \in Partitions |-> IF p \in up THEN stats ELSE <<>>]

ClusterInit ==
    /\ plan \in Plans
    /\ IF plan.joined THEN Joined ELSE Fresh
    /\ accepting = None
    /\ todo = [p \in Partitions |-> <<>>]
    /\ backlog = [e \in Ends |-> <<>>]
    /\ answer = [p \in Partitions |-> <<>>]
    /\ heap = [p \in Partitions |-> {}]
    /\ ghost_size = [p \in Partitions |-> 0]
    /\ call = [p \in Partitions |-> NoCall]
    /\ held = [p \in Partitions |-> {}]
    /\ mallocs = [p \in Partitions |-> 0]
    /\ link = [l \in Ends \X Ends |-> <<>>]

(* A map with one entry set: map[key] = value.                             *)
Put(map, key, value) ==
    [k \in DOMAIN map \union {key} |-> IF k = key THEN value ELSE map[k]]

Sent(l, from, to, message) == [l EXCEPT ![<<from, to>>] = Append(@, message)]
Received(l, from, to) == [l EXCEPT ![<<from, to>>] = Tail(@)]
Arrived(from, to, op) == link[<<from, to>>] # <<>> /\ Head(link[<<from, to>>]).op = op

(* The master runs in the process of the first partition.                  *)
Alive(p) == pc[p] # "crashed"
MasterAlive == Alive(0)
Looping(p) == pc[p] \in {"loop", "running"}

-----------------------------------------------------------------------------
(***************************************************************************)
(* Joining.                                                                *)
(***************************************************************************)

(* A worker connects to the master and sends its connection string.        *)
ExchConnParam(p) ==
    /\ pc[p] = "start"
    /\ \E i \in DOMAIN plan.order :
         plan.order[i] = p /\ \A j \in 1..(i - 1) : pc[plan.order[j]] # "start"
    /\ pc' = [pc EXCEPT ![p] = "to_master"]
    /\ backlog' = [backlog EXCEPT ![Master] = Append(@, p)]
    /\ UNCHANGED <<masterVars, wid, todo, answer, widCliMap, memVars, appVars, link>>

(* Mutant: a second connection is accepted before the first one's address  *)
(* is known.                                                               *)
MayAcceptAlways == TRUE

(* The master's event loop is not waiting for an address.                  *)
MayAccept == accepting = None

(* The worker id of a new client: the number of RDMA contexts.             *)
NewWorkerId == Len(workers) + 1

(* The master accepts the next connection: the new client's worker id goes *)
(* back with the worker list.  The event loop then waits for the worker's  *)
(* own address.                                                            *)
AcceptWorker ==
    /\ MasterAlive
    /\ MayAccept
    /\ backlog[Master] # <<>>
    /\ LET p == Head(backlog[Master]) IN
         /\ workers' = Append(workers, p)
         /\ answer' = [answer EXCEPT ![p] = <<NewWorkerId, worker_ips>>]
         /\ accepting' = p
    /\ backlog' = [backlog EXCEPT ![Master] = Tail(@)]
    /\ UNCHANGED <<worker_ips, memStat, pc, wid, todo, widCliMap, memVars, appVars, link>>

UpdateWidMap(map, w, end) == Put(map, w, end)

(* The worker learns its id.  Its client for the master goes under that id *)
(* in widCliMap.  It sends its own address and turns to the worker list.   *)
PostConnectMaster(p) ==
    /\ pc[p] = "to_master"
    /\ answer[p] # <<>>
    /\ wid' = [wid EXCEPT ![p] = answer[p][1]]
    /\ widCliMap' = [widCliMap EXCEPT ![p] = UpdateWidMap(@, answer[p][1], Master)]
    /\ todo' = [todo EXCEPT ![p] = answer[p][2]]
    /\ pc' = [pc EXCEPT ![p] = "connect"]
    /\ answer' = [answer EXCEPT ![p] = <<>>]
    /\ UNCHANGED <<masterVars, backlog, memVars, appVars, link>>

(* Mutant: the address is taken from the connection, without waiting.      *)
AddressOfConnection == TRUE

(* The worker has sent its address, having set up its own end.             *)
AddressSent == wid[accepting] # 0

(* The master reads the address and adds it to the list.                   *)
PostAcceptWorker ==
    /\ MasterAlive
    /\ accepting # None
    /\ AddressSent
    /\ worker_ips' = Append(worker_ips, accepting)
    /\ accepting' = None
    /\ UNCHANGED <<workers, memStat, joinVars, memVars, appVars, link>>

(* The worker connects to the next worker of the list and waits for the    *)
(* answer of its event loop.                                               *)
ConnectToWorker(p) ==
    /\ pc[p] = "connect"
    /\ todo[p] # <<>>
    /\ backlog' = [backlog EXCEPT ![Head(todo[p])] = Append(@, p)]
    /\ pc' = [pc EXCEPT ![p] = "to_worker"]
    /\ UNCHANGED <<masterVars, wid, todo, answer, widCliMap, memVars, appVars, link>>

(* The event loop of worker q accepts the next connection: the client of   *)
(* the caller is in widCliMap before the answer is written.                *)
AcceptTcpClientHandle(q) ==
    /\ Looping(q)
    /\ backlog[q] # <<>>
    /\ LET p == Head(backlog[q]) IN
         /\ widCliMap' = [widCliMap EXCEPT ![q] = UpdateWidMap(@, wid[p], p)]
         /\ answer' = [answer EXCEPT ![p] = <<wid[q]>>]
    /\ backlog' = [backlog EXCEPT ![q] = Tail(@)]
    /\ UNCHANGED <<masterVars, pc, wid, todo, memVars, appVars, link>>

SetRemoteConnParam(p) ==
    /\ pc[p] = "to_worker"
    /\ answer[p] # <<>>
    /\ widCliMap' = [widCliMap EXCEPT ![p] = UpdateWidMap(@, answer[p][1], Head(todo[p]))]
    /\ todo' = [todo EXCEPT ![p] = Tail(@)]
    /\ pc' = [pc EXCEPT ![p] = "connect"]
    /\ answer' = [answer EXCEPT ![p] = <<>>]
    /\ UNCHANGED <<masterVars, wid, backlog, memVars, appVars, link>>

-----------------------------------------------------------------------------
(***************************************************************************)
(* Memory statistics.                                                      *)
(***************************************************************************)

Avail(blocks) == MemSize - Cardinality(blocks)

(* SyncMaster(UPDATE_MEM_STATS).  Cache lines come from the same memory as *)
(* allocations, so sb.get_avail() + cache.GetUsedBytes() is what is left   *)
(* of it by the allocations, whatever the cache holds.                     *)
UpdateMemStats(p, blocks) ==
    [op |-> "UPDATE_MEM_STATS", free |-> Avail(blocks) - CacheSize[p]]

(* A worker's memory becomes blocks and its ghost size ghost; the master   *)
(* is told, and the ghost size reset, when it is over the threshold.       *)
(* Cache-only workers report nothing.  l is the network without this.      *)
Account(p, blocks, ghost, over, l) ==
    /\ heap' = [heap EXCEPT ![p] = blocks]
    /\ \/ /\ over /\ p \notin CacheOnly
          /\ ghost_size' = [ghost_size EXCEPT ![p] = 0]
          /\ link' = Sent(l, p, Master, UpdateMemStats(p, blocks))
       \/ /\ ~over \/ p \in CacheOnly
          /\ ghost_size' = [ghost_size EXCEPT ![p] = ghost]
          /\ link' = l


(* labs(ghost_size.load()) > conf->ghost_th                                *)
OverEither(ghost) == ghost > ghost_th \/ -ghost > ghost_th

(* The end of the constructor: connected to every worker of the list, the  *)
(* worker sends its statistics and asks for the others', and its event     *)
(* loop starts.                                                            *)
SyncMaster(p) ==
    /\ pc[p] = "connect"
    /\ todo[p] = <<>>
    /\ pc' = [pc EXCEPT ![p] = "loop"]
    /\ LET stats == IF p \in CacheOnly THEN <<>> ELSE <<UpdateMemStats(p, heap[p])>>
       IN  link' = [link EXCEPT ![<<p, Master>>] = @ \o stats \o <<[op |-> "FETCH_MEM_STATS"]>>]
    /\ UNCHANGED <<masterVars, wid, todo, backlog, answer, widCliMap, memVars, appVars>>

(* The thread that polls the RDMA completions starts.                      *)
StartService(p) ==
    /\ pc[p] = "loop"
    /\ pc' = [pc EXCEPT ![p] = "running"]
    /\ UNCHANGED <<masterVars, wid, todo, backlog, answer, widCliMap, memVars, appVars, link>>

(* The master, idle between two events, processes a request of worker p.   *)
MasterReceives(p, op) == MasterAlive /\ accepting = None /\ Arrived(p, Master, op)

(* To the client of every worker that was ever accepted.                   *)
Broadcast(l, message) ==
    [c \in DOMAIN l |-> IF c[1] = Master /\ c[2] \in Range(workers) THEN Append(l[c], message) ELSE l[c]]

(* unsynced_th is 1: every update is broadcast by itself.                  *)
ProcessUpdateMemStats(p) ==
    /\ MasterReceives(p, "UPDATE_MEM_STATS")
    /\ LET free == Head(link[<<p, Master>>]).free IN
         /\ memStat' = Put(memStat, wid[p], free)
         /\ link' = Broadcast(Received(link, p, Master),
                              [op |-> "BROADCAST_MEM_STATS", stats |-> wid[p] :> free])
    /\ UNCHANGED <<workers, worker_ips, accepting, joinVars, memVars, appVars>>

ProcessFetchMemStats(p) ==
    /\ MasterReceives(p, "FETCH_MEM_STATS")
    /\ link' = Sent(Received(link, p, Master), Master, p,
                    [op |-> "FETCH_MEM_STATS_REPLY", stats |-> memStat])
    /\ UNCHANGED <<masterVars, joinVars, memVars, appVars>>

(* The worker's service thread processes a request from an end.            *)
WorkerReceives(p, from, op) == pc[p] = "running" /\ Arrived(from, p, op)

(* A statistic of a worker that is not in widCliMap is a call on a null    *)
(* pointer: the process ends.                                              *)
ProcessRemoteMemStat(p) ==
    /\ \/ WorkerReceives(p, Master, "BROADCAST_MEM_STATS")
       \/ WorkerReceives(p, Master, "FETCH_MEM_STATS_REPLY")
    /\ LET stats == Head(link[<<Master, p>>]).stats IN
         /\ freeMem' = [freeMem EXCEPT ![p] = stats @@ @]
         /\ pc' = IF DOMAIN stats \subseteq DOMAIN widCliMap[p] THEN pc ELSE [pc EXCEPT ![p] = "crashed"]
    /\ link' = Received(link, Master, p)
    /\ UNCHANGED <<masterVars, wid, todo, backlog, answer, widCliMap, heap, ghost_size, appVars>>

-----------------------------------------------------------------------------
(***************************************************************************)
(* Allocation.                                                             *)
(***************************************************************************)
IsLocal(p, addr) == addr[1] = wid[p]

(* GetClient: the worker of an address, or one of the workers with the     *)
(* most free memory of those that have some; none is a null pointer.       *)
GetClient(p, addr) ==
    IF addr # Gnullptr
    THEN {addr[1]} \intersect DOMAIN widCliMap[p]
    ELSE LET others == {w \in DOMAIN freeMem[p] \ {wid[p]} : freeMem[p][w] > 0}
         IN  {w \in others : \A v \in others : freeMem[p][v] <= freeMem[p][w]}

OrHere(p, found) == IF found = {} THEN {wid[p]} ELSE found

(* The workers RANDOM may choose: this one, one with enough memory, or the *)
(* choice of GetClient when every try met one without.                     *)
RandomChoice(p) ==
    LET known == DOMAIN freeMem[p]
        short == {w \in known \ {wid[p]} : freeMem[p][w] < 1}
    IN  (known \ short) \union (IF known = {} \/ short # {} THEN OrHere(p, GetClient(p, Gnullptr)) ELSE {})

Choice(p, flag, base) ==
    CASE flag = "REMOTE" \/ (base # Gnullptr /\ ~IsLocal(p, base)) -> OrHere(p, GetClient(p, base))
      [] flag = "RANDOM" /\ base = Gnullptr -> RandomChoice(p)
      [] OTHER -> {wid[p]}

(* Mutant: any block that is not the first.                                *)
sb_malloc_last(blocks) == MemSize

(* The least free block.                                                   *)
sb_malloc(blocks) == CHOOSE b \in 1..MemSize : b \notin blocks /\ \A c \in 1..(b - 1) : c \in blocks

Crash(p) == pc' = [pc EXCEPT ![p] = "crashed"] /\ UNCHANGED <<memVars, call, held, link>>

(* A remote allocation: the client's free memory is lowered at once.       *)
SendMalloc(p, w) ==
    /\ freeMem' = [freeMem EXCEPT ![p] = [v \in DOMAIN @ |-> IF v = w THEN @[v] - 1 ELSE @[v]]]
    /\ call' = [call EXCEPT ![p] = [op |-> "MALLOC"]]
    /\ link' = Sent(link, p, widCliMap[p][w], [op |-> "MALLOC"])
    /\ UNCHANGED <<pc, heap, ghost_size, held>>

(* A local allocation.  When what is left is less than the cache's share   *)
(* the request goes to another worker; with no other worker that has       *)
(* memory the code locks the null client.  Memory that runs out is a null  *)
(* address, which is cleared before it is looked at.                       *)
MallocHere(p) ==
    \/ /\ Avail(heap[p]) < CacheSize[p]
       /\ \/ \E w \in GetClient(p, Gnullptr) : SendMalloc(p, w)
          \/ GetClient(p, Gnullptr) = {} /\ Crash(p)
    \/ /\ Avail(heap[p]) >= CacheSize[p]
       /\ \/ Avail(heap[p]) = 0 /\ Crash(p)
          \/ /\ Avail(heap[p]) > 0
             /\ LET b == sb_malloc(heap[p]) IN
                  /\ held' = [held EXCEPT ![p] = @ \union {<<wid[p], b>>}]
                  /\ Account(p, heap[p] \union {b}, ghost_size[p] + 1, OverEither(ghost_size[p] + 1), link)
             /\ UNCHANGED <<pc, freeMem, call>>

ProcessLocalMalloc(p, flag, base) ==
    /\ \E w \in Choice(p, flag, base) :
         \/ w = wid[p] /\ MallocHere(p)
         \/ w # wid[p] /\ SendMalloc(p, w)
    /\ UNCHANGED <<masterVars, wid, todo, backlog, answer, widCliMap, plan>>

(* The service thread allocates for another worker, whatever is left for   *)
(* the cache, and compares the ghost size without its absolute value.      *)
ProcessRemoteMalloc(p, q) ==
    /\ WorkerReceives(p, q, "MALLOC")
    /\ \/ Avail(heap[p]) = 0 /\ Crash(p)
       \/ /\ Avail(heap[p]) > 0
          /\ LET b == sb_malloc(heap[p])
                 l == Sent(Received(link, q, p), p, q, [op |-> "MALLOC_REPLY", addr |-> <<wid[p], b>>])
             IN  Account(p, heap[p] \union {b}, ghost_size[p] + 1, ghost_size[p] + 1 > ghost_th, l)
          /\ UNCHANGED <<pc, freeMem, call, held>>
    /\ UNCHANGED <<masterVars, wid, todo, backlog, answer, widCliMap, mallocs, plan>>

ProcessRemoteMallocReply(p, q) ==
    /\ WorkerReceives(p, q, "MALLOC_REPLY")
    /\ held' = [held EXCEPT ![p] = @ \union {Head(link[<<q, p>>]).addr}]
    /\ call' = [call EXCEPT ![p] = NoCall]
    /\ link' = Received(link, q, p)
    /\ UNCHANGED <<masterVars, joinVars, memVars, mallocs, plan>>

(* The caller of a remote free does not wait for it.                       *)
ProcessLocalFree(p, addr) ==
    /\ held' = [held EXCEPT ![p] = @ \ {addr}]
    /\ \/ /\ IsLocal(p, addr)
          /\ Account(p, heap[p] \ {addr[2]}, ghost_size[p] - 1, OverEither(ghost_size[p] - 1), link)
       \/ /\ ~IsLocal(p, addr)
          /\ link' = Sent(link, p, widCliMap[p][addr[1]], [op |-> "FREE", addr |-> addr])
          /\ UNCHANGED <<heap, ghost_size>>
    /\ UNCHANGED <<masterVars, joinVars, freeMem, call, mallocs, plan>>

ProcessRemoteFree(p, q) ==
    /\ WorkerReceives(p, q, "FREE")
    /\ Account(p, heap[p] \ {Head(link[<<q, p>>]).addr[2]}, ghost_size[p] - 1,
               OverEither(ghost_size[p] - 1), Received(link, q, p))
    /\ UNCHANGED <<masterVars, joinVars, freeMem, appVars>>

(* The application's calls.                                                *)
Idle(p) == Looping(p) /\ call[p] = NoCall

Malloc(p) ==
    /\ Idle(p)
    /\ mallocs[p] < plan.mallocs[p]
    /\ mallocs' = [mallocs EXCEPT ![p] = @ + 1]
    /\ \E flag \in {"NONE", "REMOTE", "RANDOM"}, base \in held[p] \union {Gnullptr} :
         ProcessLocalMalloc(p, flag, base)

Free(p) ==
    /\ Idle(p)
    /\ \E addr \in held[p] : ProcessLocalFree(p, addr)

=============================================================================
