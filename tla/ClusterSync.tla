----------------------------- MODULE ClusterSync -----------------------------
(***************************************************************************)
(* The key-value store the master keeps for the workers, and the fences    *)
(* and exchanges of data the database builds from it: ClusterSync, one per *)
(* application.  The application of a process allocates and frees memory   *)
(* and passes a number of fences.                                          *)
(***************************************************************************)
EXTENDS Cluster

VARIABLES kvs,              \* the master's store: key -> value
          to_serve_kv_request,  \* the workers that wait for a key, in order
          sync_key,         \* the next key of each ClusterSync
          stage,            \* where each application is in Fence
          collected         \* what MasterCollect has received so far

kvVars == <<kvs, to_serve_kv_request>>
syncVars == <<sync_key, stage, collected>>
vars == <<clusterVars, kvVars, syncVars>>

Init ==
    /\ ClusterInit
    /\ kvs = <<>>
    /\ to_serve_kv_request = <<>>
    /\ sync_key = [p \in Partitions |-> 0]
    /\ stage = [p \in Partitions |-> "idle"]
    /\ collected = [p \in Partitions |-> <<>>]

-----------------------------------------------------------------------------
(***************************************************************************)
(* Put and Get.  A Put is sent and not waited for; a Get waits for its     *)
(* reply.                                                                  *)
(***************************************************************************)
PutValue(p, key, value) ==
    /\ link' = Sent(link, p, Master, [op |-> "PUT", key |-> key, value |-> value])
    /\ UNCHANGED call

GetValue(p, key) ==
    /\ link' = Sent(link, p, Master, [op |-> "GET", key |-> key])
    /\ call' = [call EXCEPT ![p] = [op |-> "GET", key |-> key]]

GetReply(l, p, value) == Sent(l, Master, p, [op |-> "GET_REPLY", value |-> value])


Waiting(key) == IF key \in DOMAIN to_serve_kv_request THEN to_serve_kv_request[key] ELSE <<>>

(* The master stores the value and answers the workers that wait for it.   *)
ProcessPut(p) ==
    /\ MasterReceives(p, "PUT")
    /\ LET wr == Head(link[<<p, Master>>])
           l == Received(link, p, Master)
           Serve(sent, q) == GetReply(sent, q, wr.value)
       IN  /\ kvs' = Put(kvs, wr.key, wr.value)
           /\ link' = FoldLeft(Serve, l, Waiting(wr.key))
           /\ to_serve_kv_request' = Restrict(to_serve_kv_request, DOMAIN to_serve_kv_request \ {wr.key})
    /\ UNCHANGED <<masterVars, joinVars, memVars, appVars, syncVars>>

(* A Get of a key that is there is answered; another one waits.            *)
ProcessGet(p) ==
    /\ MasterReceives(p, "GET")
    /\ LET key == Head(link[<<p, Master>>]).key
           l == Received(link, p, Master)
       IN  \/ /\ key \in DOMAIN kvs
              /\ link' = GetReply(l, p, kvs[key])
              /\ UNCHANGED to_serve_kv_request
           \/ /\ key \notin DOMAIN kvs
              /\ link' = l
              /\ to_serve_kv_request' = Put(to_serve_kv_request, key, Append(Waiting(key), p))
    /\ UNCHANGED <<masterVars, joinVars, memVars, appVars, kvs, syncVars>>

-----------------------------------------------------------------------------
(***************************************************************************)
(* Fence: MasterCollect, then MasterBroadcast.  The value a process sends  *)
(* stands for what it holds at that fence.                                 *)
(***************************************************************************)
IsMaster(p) == p = 0

Data(p) == <<p, sync_key[p]>>

(* The keys of one exchange are left behind, whoever used them.            *)
NextKeys(p) == sync_key' = [sync_key EXCEPT ![p] = @ + PartitionNum]

StartFence(p) ==
    /\ Idle(p)
    /\ stage[p] = "idle"
    /\ sync_key[p] < 2 * PartitionNum * plan.rounds
    /\ stage' = [stage EXCEPT ![p] = "collect"]
    /\ collected' = [collected EXCEPT ![p] = <<>>]
    /\ UNCHANGED <<clusterVars, kvVars, sync_key>>

(* The key of partition i in the exchange that p is in.                    *)
KeyOf(p, i) == sync_key[p] + i

(* Mutant: the last partition is not waited for.                           *)
AllButLast(p) == Len(collected[p]) >= PartitionNum - 1

AllCollected(p) == Len(collected[p]) = PartitionNum

(* The first partition gets the value of every other one, in turn; the     *)
(* others put theirs.                                                      *)
MasterCollect(p) ==
    /\ Idle(p)
    /\ stage[p] = "collect"
    /\ LET i == Len(collected[p]) IN
         \/ /\ IsMaster(p) /\ AllCollected(p)
            /\ stage' = [stage EXCEPT ![p] = "broadcast"]
            /\ NextKeys(p)
            /\ UNCHANGED <<call, link, collected>>
         \/ /\ IsMaster(p) /\ i = p
            /\ collected' = [collected EXCEPT ![p] = Append(@, Data(p))]
            /\ UNCHANGED <<call, link, stage, sync_key>>
         \/ /\ IsMaster(p) /\ i \in Partitions \ {p}
            /\ GetValue(p, KeyOf(p, i))
            /\ UNCHANGED syncVars
         \/ /\ ~IsMaster(p)
            /\ PutValue(p, KeyOf(p, p), Data(p))
            /\ stage' = [stage EXCEPT ![p] = "broadcast"]
            /\ NextKeys(p)
            /\ UNCHANGED collected
    /\ UNCHANGED <<masterVars, joinVars, memVars, held, mallocs, plan, kvVars>>

(* The first partition puts a value, which the others get.                 *)
MasterBroadcast(p) ==
    /\ Idle(p)
    /\ stage[p] = "broadcast"
    /\ \/ /\ IsMaster(p)
          /\ PutValue(p, KeyOf(p, p), Data(p))
          /\ stage' = [stage EXCEPT ![p] = "idle"]
          /\ NextKeys(p)
       \/ /\ ~IsMaster(p)
          /\ GetValue(p, KeyOf(p, 0))
          /\ UNCHANGED <<stage, sync_key>>
    /\ UNCHANGED <<masterVars, joinVars, memVars, held, mallocs, plan, kvVars, collected>>

(* The reply wakes the application up, which goes on.                      *)
ProcessRemoteGetReply(p) ==
    /\ WorkerReceives(p, Master, "GET_REPLY")
    /\ collected' = [collected EXCEPT ![p] = Append(@, Head(link[<<Master, p>>]).value)]
    /\ \/ /\ stage[p] = "collect"
          /\ UNCHANGED <<stage, sync_key>>
       \/ /\ stage[p] = "broadcast"
          /\ stage' = [stage EXCEPT ![p] = "idle"]
          /\ NextKeys(p)
    /\ call' = [call EXCEPT ![p] = NoCall]
    /\ link' = Received(link, Master, p)
    /\ UNCHANGED <<masterVars, joinVars, memVars, held, mallocs, plan, kvVars>>

-----------------------------------------------------------------------------
(* The constructor of Worker.                                              *)
Construct(p) ==
    \/ ExchConnParam(p) \/ PostConnectMaster(p) \/ ConnectToWorker(p)
    \/ SetRemoteConnParam(p) \/ SyncMaster(p) \/ StartService(p)

(* The master's event loop serves its socket and its RDMA connections.     *)
MasterAccepts == AcceptWorker \/ PostAcceptWorker
MasterMemStats(p) == ProcessUpdateMemStats(p) \/ ProcessFetchMemStats(p)
MasterKeys(p) == ProcessPut(p) \/ ProcessGet(p)

(* The service thread of worker p.                                         *)
ServeMemory(p) ==
    \/ ProcessRemoteMemStat(p)
    \/ \E q \in Partitions : \/ ProcessRemoteMalloc(p, q) \/ ProcessRemoteMallocReply(p, q)
                             \/ ProcessRemoteFree(p, q)

Fence(p) == StartFence(p) \/ MasterCollect(p) \/ MasterBroadcast(p)

Memory(p) == stage[p] = "idle" /\ (Malloc(p) \/ Free(p))

(* Every application has ended, or a process has crashed and the others    *)
(* may wait for it.                                                        *)
Ended == \/ \E p \in Partitions : ~Alive(p)
         \/ \A p \in Range(plan.order) : Idle(p) /\ stage[p] = "idle" /\ sync_key[p] = 2 * PartitionNum * plan.rounds

Next ==
    \/ \E p \in Partitions :
         \/ (Construct(p) \/ AcceptTcpClientHandle(p)) /\ UNCHANGED <<kvVars, syncVars>>
         \/ MasterMemStats(p) /\ UNCHANGED <<kvVars, syncVars>>
         \/ (ServeMemory(p) \/ Memory(p)) /\ UNCHANGED <<kvVars, syncVars>>
         \/ MasterKeys(p) \/ ProcessRemoteGetReply(p) \/ Fence(p)
    \/ MasterAccepts /\ UNCHANGED <<kvVars, syncVars>>

(* Every thread that can take a step of its own takes one; an application  *)
(* need not allocate or free.                                              *)
Fairness ==
    /\ WF_vars(MasterAccepts /\ UNCHANGED <<kvVars, syncVars>>)
    /\ \A p \in Partitions :
         /\ WF_vars(Construct(p) /\ UNCHANGED <<kvVars, syncVars>>)
         /\ WF_vars(AcceptTcpClientHandle(p) /\ UNCHANGED <<kvVars, syncVars>>)
         /\ WF_vars((MasterMemStats(p) /\ UNCHANGED <<kvVars, syncVars>>) \/ MasterKeys(p))
         /\ WF_vars((ServeMemory(p) /\ UNCHANGED <<kvVars, syncVars>>) \/ ProcessRemoteGetReply(p))
         /\ WF_vars(Fence(p))

Spec == Init /\ [][Next]_vars

FairSpec == Spec /\ Fairness

-----------------------------------------------------------------------------
(* Nothing is sent on a connection before both ends have the other's       *)
(* parameters: a Send over a queue pair whose far end is not set up is     *)
(* lost.  The master broadcasts to every client it has accepted, and is    *)
(* kept from doing so too early only by waiting for the worker's address.  *)
SentWhenConnected ==
    \A p \in Partitions :
        /\ link[<<Master, p>>] # <<>> => wid[p] # 0
        /\ \A q \in Partitions : link[<<p, q>>] # <<>> =>
             \A r, s \in {p, q} : r # s => wid[s] \in DOMAIN widCliMap[r] /\ widCliMap[r][wid[s]] = s

(* "Guarantee a consistent join sequence of workers, avoid duplicate       *)
(* connection initiations for the same bi-connection" (PostConnectMaster): *)
(* of two workers that are both up, exactly one has connected to the       *)
(* other, and each finds the other under its worker id; a statistic that   *)
(* is on its way to a worker that processes requests is about workers it   *)
(* is connected to, so that ProcessRemoteMemStat never locks a null client.*)
Connected ==
    /\ \A p, q \in Partitions : (p # q /\ Looping(p) /\ Looping(q)) =>
        /\ wid[q] \in DOMAIN widCliMap[p] /\ widCliMap[p][wid[q]] = q
        /\ \A i \in 1..Len(backlog[q]) : backlog[q][i] # p
    /\ \A p \in Partitions : pc[p] = "running" =>
        \A m \in Range(link[<<Master, p>>]) :
            m.op \in {"BROADCAST_MEM_STATS", "FETCH_MEM_STATS_REPLY"} =>
                DOMAIN m.stats \subseteq DOMAIN widCliMap[p]

(* An address an application holds is allocated where it says, and is held *)
(* by nobody else and on its way to nobody else.                           *)
HeldOnce ==
    /\ \A p \in Partitions : \A a \in held[p] :
         /\ \E q \in Partitions : wid[q] = a[1] /\ a[2] \in heap[q]
         /\ \A q \in Partitions \ {p} : a \notin held[q]
         /\ \A c \in DOMAIN link : \A i \in 1..Len(link[c]) :
              link[c][i].op \in {"MALLOC_REPLY", "FREE"} => link[c][i].addr # a

(* The statistics a worker last sent are off by its ghost size, which is   *)
(* never beyond the threshold, whichever thread allocated or freed.        *)
LastSent(p) ==
    LET updates == SelectSeq(link[<<p, Master>>], LAMBDA m : m.op = "UPDATE_MEM_STATS")
    IN  IF updates # <<>> THEN Last(updates).free
        ELSE memStat[wid[p]]


(* ClusterSync::Fence is a barrier.                                        *)
FencesLeft == [p \in Partitions |-> sync_key[p] \div (2 * PartitionNum)]
FencesReached == [p \in Partitions |-> FencesLeft[p] + (IF stage[p] = "idle" THEN 0 ELSE 1)]
B == INSTANCE Barrier WITH Processes <- Partitions, reached <- FencesReached, left <- FencesLeft
FenceIsBarrier == B!Spec

(* "no remote worker, we have no choice expect allocate locally"           *)
(* (ProcessLocalMalloc): an allocation for which there is no other worker  *)
(* does not end the process.                                               *)
AllAlive == \A p \in Partitions : Alive(p)


=============================================================================
