-------------------------------- MODULE Fence --------------------------------
(***************************************************************************)
(* The fence of one application thread: struct Fence in include/worker.h.  *)
(* GAlloc::Write returns before the write has taken effect; MFence, and    *)
(* every lock call, make the thread's later requests wait for it.  They    *)
(* wait in fence->pending_works and are run by the thread whose Notify     *)
(* finds no write pending any more: Worker::ProcessFenced.                 *)
(*                                                                         *)
(* The requests of the thread are numbered in program order.  What a       *)
(* request does in the coherence protocol is left out: a started write,    *)
(* read or lock takes effect some time later.                              *)
(***************************************************************************)
EXTENDS Integers, Sequences, FiniteSets

CONSTANTS App,          \* the application thread
          Helpers,      \* the worker's other threads: they complete requests
          Calls,        \* the calls the application makes
          MaxRequests   \* bound: requests of the application thread

LockOps == {"RLOCK", "WLOCK", "UNLOCK"}
FenceOps == {"MFENCE", "SFENCE"}
SyncOps == {"READ", "RLOCK", "WLOCK"}
Ops == {"READ", "WRITE"} \cup LockOps \cup FenceOps

ASSUME AppAssumption == App \notin Helpers
ASSUME CallsAssumption == Calls \subseteq Ops
ASSUME MaxRequestsAssumption == MaxRequests \in Nat

VARIABLES
    pending_writes, mfenced, sfenced, pending_works, in_process,
    holder,  \* the thread that holds fence->lock_ across steps, if any
    pc,      \* where each thread is in ProcessLocalWrite, Notify, ProcessFenced
    issued,  \* number of requests so far
    op,      \* what each request is
    status   \* "new", "fenced" (in pending_works), "started" or "done"

vars == <<pending_writes, mfenced, sfenced, pending_works, in_process, holder,
          pc, issued, op, status>>
flags == <<mfenced, sfenced>>

Agents == Helpers \cup {App}
Ids == 1..MaxRequests

Init ==
    /\ pending_writes = 0
    /\ mfenced = FALSE /\ sfenced = FALSE
    /\ pending_works = <<>>
    /\ in_process = FALSE
    /\ holder = {}
    /\ pc = [n \in Agents |-> "idle"]
    /\ issued = 0
    /\ op = [i \in Ids |-> "READ"]
    /\ status = [i \in Ids |-> "new"]

IsFenced == mfenced \/ sfenced
IsMFenced == mfenced

\* A synchronous call keeps the application thread until it is done.
Waiting == \E i \in Ids : op[i] \in SyncOps /\ status[i] \in {"fenced", "started"}

SetStatus(i, s) == status' = [status EXCEPT ![i] = s]
GoTo(n, l) == pc' = [pc EXCEPT ![n] = l]

\* Mutant: the request is put in front of the queue.
AddInFront(i) ==
    /\ pending_works' = <<i>> \o pending_works
    /\ SetStatus(i, "fenced")

AddToFence(i) ==
    /\ pending_works' = Append(pending_works, i)
    /\ SetStatus(i, "fenced")

\* An unlock is done when it is started; the others take their time.
StartedAs(o) == IF o = "UNLOCK" THEN "done" ELSE "started"

\* The application makes its next call; the fence is tested under its lock.
Issue(o) ==
    LET i == issued + 1
    IN  /\ pc[App] = "idle" /\ ~Waiting /\ holder = {}
        /\ issued < MaxRequests
        /\ issued' = i
        /\ op' = [op EXCEPT ![i] = o]
        /\ UNCHANGED <<pending_writes, in_process, holder>>

\* ProcessLocalRead: only a memory fence stops it.
IssueRead ==
    LET i == issued + 1
    IN  /\ "READ" \in Calls /\ Issue("READ")
        /\ \/ IsMFenced /\ AddToFence(i)
           \/ ~IsMFenced /\ SetStatus(i, "started") /\ UNCHANGED pending_works
        /\ UNCHANGED <<flags, pc>>

\* ProcessLocalWrite up to the unlock of the fence.
IssueWrite ==
    LET i == issued + 1
    IN  /\ "WRITE" \in Calls /\ Issue("WRITE")
        /\ \/ IsFenced /\ AddToFence(i) /\ UNCHANGED pc
           \/ ~IsFenced /\ GoTo(App, "admitted") /\ UNCHANGED <<pending_works, status>>
        /\ UNCHANGED flags

\* The rest of it: the write takes effect at once or later.
StartWrite ==
    /\ pc[App] = "admitted"
    /\ \/ /\ pending_writes' = pending_writes + 1
          /\ SetStatus(issued, "started")
          /\ GoTo(App, "idle")
       \/ /\ SetStatus(issued, "done")
          /\ GoTo(App, "notify")
          /\ UNCHANGED pending_writes
    /\ UNCHANGED <<flags, pending_works, in_process, holder, issued, op>>

\* ProcessLocalMFence and ProcessLocalSFence.
IssueFence(o) ==
    LET i == issued + 1
    IN  /\ o \in Calls /\ Issue(o)
        /\ \/ IsFenced /\ AddToFence(i) /\ UNCHANGED flags
           \/ /\ ~IsFenced
              /\ mfenced' = (o = "MFENCE" /\ pending_writes # 0)
              /\ sfenced' = (o = "SFENCE" /\ pending_writes # 0)
              /\ SetStatus(i, "done")
              /\ UNCHANGED pending_works
        /\ UNCHANGED pc

\* ProcessLocalRLock, ProcessLocalWLock and ProcessLocalUnLock.
IssueLock(o) ==
    LET i == issued + 1
    IN  /\ o \in Calls /\ Issue(o)
        /\ \/ IsFenced /\ AddToFence(i) /\ UNCHANGED flags
           \/ /\ ~IsFenced /\ pending_writes # 0
              /\ mfenced' = TRUE
              /\ AddToFence(i)
              /\ UNCHANGED sfenced
           \/ /\ ~IsFenced /\ pending_writes = 0
              /\ SetStatus(i, StartedAs(o))
              /\ UNCHANGED <<flags, pending_works>>
        /\ UNCHANGED pc

\* A started read or lock is done: Notify wakes the application thread.
SyncDone(i) ==
    /\ status[i] = "started" /\ op[i] \in SyncOps
    /\ SetStatus(i, "done")
    /\ UNCHANGED <<pending_writes, flags, pending_works, in_process, holder, pc,
                   issued, op>>

\* A started write has taken effect: Notify, run by helper n.
WriteDone(n, i) ==
    /\ pc[n] = "idle"
    /\ status[i] = "started" /\ op[i] = "WRITE"
    /\ SetStatus(i, "done")
    /\ pending_writes' = pending_writes - 1
    /\ GoTo(n, "notify")
    /\ UNCHANGED <<flags, pending_works, in_process, holder, issued, op>>

(***************************************************************************)
(* ProcessFenced, by thread n.                                             *)
(***************************************************************************)
\* The test of in_process, without the lock.
TestInProcess(n) ==
    /\ pc[n] = "notify"
    /\ GoTo(n, IF in_process THEN "idle" ELSE "lock")
    /\ UNCHANGED <<pending_writes, flags, pending_works, in_process, holder,
                   issued, op, status>>

\* Mutant: the fence opens while writes are pending.
EnterAnyway(n) ==
    /\ pc[n] = "lock" /\ holder = {}
    /\ \/ /\ IsFenced
          /\ holder' = {n} /\ in_process' = TRUE /\ GoTo(n, "serve")
       \/ /\ ~IsFenced
          /\ GoTo(n, "idle")
          /\ UNCHANGED <<holder, in_process>>
    /\ UNCHANGED <<pending_writes, flags, pending_works, issued, op, status>>

EnterFence(n) ==
    /\ pc[n] = "lock" /\ holder = {}
    /\ \/ /\ pending_writes = 0 /\ IsFenced
          /\ holder' = {n} /\ in_process' = TRUE /\ GoTo(n, "serve")
       \/ /\ pending_writes # 0 \/ ~IsFenced
          /\ GoTo(n, "idle")
          /\ UNCHANGED <<holder, in_process>>
    /\ UNCHANGED <<pending_writes, flags, pending_works, issued, op, status>>

\* A fence or a lock call that finds a write of the batch pending stops the
\* loop; the fence is taken from the queue, the lock call stays.
StopAtFence(n, i) ==
    /\ pending_writes # 0
    /\ mfenced' = (op[i] # "SFENCE")
    /\ sfenced' = (op[i] = "SFENCE")
    /\ GoTo(n, "stop")
    /\ \/ /\ op[i] \in FenceOps
          /\ pending_works' = Tail(pending_works)
          /\ SetStatus(i, "done")
       \/ op[i] \in LockOps /\ UNCHANGED <<pending_works, status>>
    /\ UNCHANGED pending_writes

\* ProcessLocalRequest from the loop.  The Notify of a write that is done at
\* once finds in_process set.
RunFenced(i) ==
    /\ op[i] \in {"READ", "WRITE"} \/ pending_writes = 0
    /\ pending_works' = Tail(pending_works)
    /\ \/ /\ op[i] = "WRITE"
          /\ SetStatus(i, "started")
          /\ pending_writes' = pending_writes + 1
       \/ op[i] \in FenceOps \cup {"WRITE"} /\ SetStatus(i, "done")
            /\ UNCHANGED pending_writes
       \/ op[i] \in SyncOps \cup LockOps /\ SetStatus(i, StartedAs(op[i]))
            /\ UNCHANGED pending_writes
    /\ UNCHANGED <<flags, pc>>

\* One round of the loop.
ServeFenced(n) ==
    /\ pc[n] = "serve" /\ pending_works # <<>>
    /\ LET i == Head(pending_works)
       IN  \/ op[i] \in FenceOps \cup LockOps /\ StopAtFence(n, i)
           \/ RunFenced(i)
    /\ UNCHANGED <<in_process, holder, issued, op>>

\* The end of the loop, up to the unlock.
LeaveFence(n) ==
    /\ \/ /\ pc[n] = "serve" /\ pending_works = <<>>
          /\ mfenced' = FALSE /\ sfenced' = FALSE
       \/ pc[n] = "stop" /\ UNCHANGED flags
    /\ in_process' = FALSE
    /\ holder' = {}
    /\ GoTo(n, "idle")
    /\ UNCHANGED <<pending_writes, pending_works, issued, op, status>>

AppCall ==
    \/ IssueRead \/ IssueWrite
    \/ \E o \in FenceOps : IssueFence(o)
    \/ \E o \in LockOps : IssueLock(o)

Completion(i) == SyncDone(i) \/ \E n \in Helpers : WriteDone(n, i)

ProcessFenced(n) ==
    TestInProcess(n) \/ EnterFence(n) \/ ServeFenced(n) \/ LeaveFence(n)

Next ==
    \/ AppCall \/ StartWrite
    \/ \E i \in Ids : Completion(i)
    \/ \E n \in Agents : ProcessFenced(n)

Spec == Init /\ [][Next]_vars

\* Threads run, and what has been started takes effect.
Fairness ==
    /\ WF_vars(StartWrite)
    /\ \A i \in Ids : WF_vars(Completion(i))
    /\ \A n \in Agents : WF_vars(ProcessFenced(n))

LiveSpec == Spec /\ Fairness

-----------------------------------------------------------------------------
(***************************************************************************)
(* Properties.                                                             *)
(***************************************************************************)
Labels == {"idle", "admitted", "notify", "lock", "serve", "stop"}

\* Every variable has its type; in_process is set exactly while a thread is in
\* the loop of ProcessFenced, with the lock.
TypeOK ==
    /\ pending_writes \in Int
    /\ in_process <=> holder # {}
    /\ mfenced \in BOOLEAN /\ sfenced \in BOOLEAN /\ in_process \in BOOLEAN
    /\ pending_works \in Seq(Ids)
    /\ holder \in SUBSET Agents
    /\ pc \in [Agents -> Labels]
    /\ issued \in 0..MaxRequests
    /\ op \in [Ids -> Ops]
    /\ status \in [Ids -> {"new", "fenced", "started", "done"}]

PendingWrites == {i \in Ids : op[i] = "WRITE" /\ status[i] = "started"}

\* fence->pending_writes counts the writes that have been started and have not
\* taken effect: it is never negative, and zero when the thread has none.
WritesCounted == pending_writes = Cardinality(PendingWrites)

Begun(i) == status[i] \in {"started", "done"}

\* Reads pass a store fence, whatever has piled up behind it (SFENCE "is not
\* supported for now"); every other request is ordered.
Ordered(j) == op[j] = "READ" => \A i \in Ids : op[i] # "SFENCE"

Fences(f, j) ==
    \/ op[f] = "MFENCE" /\ f < j
    \/ op[f] \in LockOps /\ f <= j

\* When a request has begun, every write before a memory fence, a lock or an
\* unlock that precedes it has taken effect.
FenceHolds ==
    \A i, f, j \in 1..issued :
        op[i] = "WRITE" /\ i < f /\ Fences(f, j) /\ Begun(j) /\ Ordered(j)
            => status[i] = "done"

\* The requests of the thread begin in program order, also when some of them
\* are run by the thread that found the fence open.
BeginInOrder ==
    \A i, j \in 1..issued : i < j /\ Begun(j) /\ Ordered(j) => Begun(i)

\* A request that waits behind a fence is run.
FencedServed == \A i \in Ids : status[i] = "fenced" ~> Begun(i)

=============================================================================
