----------------------------- MODULE FenceProofs -----------------------------
(***************************************************************************)
(* What a fence guarantees, for any number of threads and of requests:     *)
(* Spec => [](WritesCounted /\ FenceHolds /\ BeginInOrder).                *)
(*                                                                         *)
(* The inductive invariant adds to the three how the lock, the flags and   *)
(* the queue go together, and two facts that name what FenceHolds leaves   *)
(* implicit: while a write that precedes a fence is pending, the fence is  *)
(* closed and nobody is in the loop of ProcessFenced (FenceClosed), and    *)
(* nothing behind the fence has begun (NotOvertaken).                      *)
(***************************************************************************)
EXTENDS Fence, FiniteSetTheorems, TLAPS

InLoop == {"serve", "stop"}

\* Exactly the thread in the loop has the lock.
LockHeld ==
    /\ \A n \in Agents : n \in holder <=> pc[n] \in InLoop
    /\ \A m, n \in holder : m = n
    /\ holder # {} => IsFenced

\* A write is admitted only while the fence is open.
Admitted ==
    /\ \A n \in Agents : pc[n] = "admitted" => n = App
    /\ pc[App] = "admitted" =>
         /\ ~IsFenced
         /\ issued \in Ids /\ op[issued] = "WRITE" /\ status[issued] = "new"

\* Only the request being admitted is neither queued nor begun.
Requests ==
    /\ \A i \in Ids : i > issued => op[i] = "READ" /\ status[i] = "new"
    /\ \A i \in Ids : i <= issued /\ status[i] = "new" =>
          i = issued /\ pc[App] = "admitted"

\* pending_works holds the fenced requests, in program order.
Queue ==
    /\ \A k, l \in 1..Len(pending_works) : k < l => pending_works[k] < pending_works[l]
    /\ \A i \in Ids : status[i] = "fenced" <=>
          \E k \in 1..Len(pending_works) : pending_works[k] = i
    /\ ~IsFenced => pending_works = <<>>
    /\ sfenced => \E i \in Ids : op[i] = "SFENCE"

PendingWrite(i) == op[i] = "WRITE" /\ status[i] = "started"

FenceClosed ==
    \A i, f \in 1..issued :
        PendingWrite(i) /\ i < f /\ op[f] = "MFENCE" /\ Begun(f)
            => mfenced /\ \A n \in Agents : pc[n] # "serve"

NotOvertaken ==
    \A i, f, j \in 1..issued :
        PendingWrite(i) /\ i < f /\ Fences(f, j) /\ Begun(j) => ~Ordered(j)

Inv ==
    /\ TypeOK /\ LockHeld /\ Admitted /\ Requests /\ Queue
    /\ WritesCounted /\ BeginInOrder /\ FenceClosed /\ NotOvertaken

USE AppAssumption, CallsAssumption, MaxRequestsAssumption

-----------------------------------------------------------------------------
(***************************************************************************)
(* The count of pending writes.                                            *)
(***************************************************************************)
LEMMA WritesFinite == IsFiniteSet(PendingWrites)
<1>1. IsFiniteSet(Ids)
  BY FS_Interval DEF Ids
<1>2. QED
  BY <1>1, FS_Subset DEF PendingWrites

\* With the counter at zero no write is pending.
LEMMA NonePending ==
    ASSUME WritesCounted, pending_writes = 0
    PROVE  \A i \in Ids : ~PendingWrite(i)
BY WritesFinite, FS_EmptySet DEF WritesCounted, PendingWrites, PendingWrite

\* The counter follows when the pending writes stay the same,
LEMMA CountSame ==
    ASSUME WritesCounted, pending_writes' = pending_writes,
           \A i \in Ids : PendingWrite(i)' <=> PendingWrite(i)
    PROVE  WritesCounted'
<1>1. PendingWrites' = PendingWrites
  BY DEF PendingWrites, PendingWrite
<1>2. QED
  BY <1>1 DEF WritesCounted

\* gain one,
LEMMA CountOneMore ==
    ASSUME WritesCounted, pending_writes' = pending_writes + 1,
           NEW i \in Ids, ~PendingWrite(i), PendingWrite(i)',
           \A k \in Ids \ {i} : PendingWrite(k)' <=> PendingWrite(k)
    PROVE  WritesCounted'
<1>1. PendingWrites' = PendingWrites \cup {i} /\ i \notin PendingWrites
  BY DEF PendingWrites, PendingWrite
<1>2. QED
  BY <1>1, WritesFinite, FS_AddElement DEF WritesCounted

\* or lose one.
LEMMA CountOneLess ==
    ASSUME WritesCounted, pending_writes' = pending_writes - 1,
           NEW i \in Ids, PendingWrite(i), ~PendingWrite(i)',
           \A k \in Ids \ {i} : PendingWrite(k)' <=> PendingWrite(k)
    PROVE  WritesCounted'
<1>1. PendingWrites' = PendingWrites \ {i} /\ i \in PendingWrites
  BY DEF PendingWrites, PendingWrite
<1>2. QED
  BY <1>1, WritesFinite, FS_RemoveElement DEF WritesCounted

-----------------------------------------------------------------------------
(***************************************************************************)
(* What a request that begins must respect.  The requests of the thread    *)
(* stay what they are, or one more is issued.                              *)
(***************************************************************************)
History ==
    \/ UNCHANGED <<issued, op>>
    \/ /\ issued' = issued + 1 /\ issued < MaxRequests
       /\ \E o \in Ops : op' = [op EXCEPT ![issued + 1] = o]

\* Request j may begin: those before it have begun, and no fence stands
\* between it and a write that is pending.
MayBegin(j) ==
    /\ \A i \in 1..issued : i < j => Begun(i)
    /\ \A i, f \in 1..issued' : PendingWrite(i) /\ i < f => ~Fences(f, j)'

LEMMA BeginKeepsOrder ==
    ASSUME TypeOK, Requests, BeginInOrder, NotOvertaken, History,
           NEW j \in 1..issued', ~Begun(j),
           NEW s \in {"started", "done"}, status' = [status EXCEPT ![j] = s],
           Ordered(j)' => MayBegin(j)
    PROVE  BeginInOrder' /\ NotOvertaken'
<1>1. /\ issued \in 0..MaxRequests /\ issued' \in 0..MaxRequests /\ issued <= issued'
      /\ op \in [Ids -> Ops] /\ status \in [Ids -> {"new", "fenced", "started", "done"}]
      /\ 1..issued \subseteq Ids /\ 1..issued' \subseteq Ids
  BY DEF TypeOK, History, Ids
<1>2. /\ \A i \in 1..issued : op'[i] = op[i]
      /\ \A i \in 1..issued' : i \notin 1..issued => ~Begun(i)
      /\ \A i \in Ids : op'[i] # "SFENCE" => op[i] # "SFENCE"
  BY <1>1 DEF TypeOK, History, Requests, Ids, Begun
<1>3. /\ Begun(j)'
      /\ \A i \in 1..issued' : i # j => status'[i] = status[i]
      /\ \A i \in 1..issued' : i # j => (Begun(i)' <=> Begun(i))
  BY <1>1 DEF Begun
<1>4. \A k \in 1..issued : Ordered(k)' => Ordered(k)
  BY <1>1, <1>2 DEF Ordered
<1>5. BeginInOrder'
  <2>1. SUFFICES ASSUME NEW i \in 1..issued', NEW k \in 1..issued', i < k, Begun(k)', Ordered(k)'
                 PROVE  Begun(i)'
    BY DEF BeginInOrder
  <2>2. CASE k = j
    BY <2>1, <2>2, <1>1, <1>2, <1>3 DEF MayBegin, History
  <2>3. CASE k # j
    BY <2>1, <2>3, <1>1, <1>2, <1>3, <1>4 DEF BeginInOrder
  <2>4. QED
    BY <2>2, <2>3
<1>6. NotOvertaken'
  <2>1. SUFFICES ASSUME NEW i \in 1..issued', NEW f \in 1..issued', NEW k \in 1..issued',
                        PendingWrite(i)', i < f, Fences(f, k)', Begun(k)', Ordered(k)'
                 PROVE  FALSE
    BY DEF NotOvertaken
  <2>2. i < k /\ f <= k
    BY <2>1, <1>1 DEF Fences
  <2>3. CASE k = j
    BY <2>1, <2>2, <2>3, <1>1, <1>2, <1>3 DEF MayBegin, PendingWrite, Begun
  <2>4. CASE k # j
    <3>1. k \in 1..issued /\ Begun(k) /\ Ordered(k) /\ i \in 1..issued /\ f \in 1..issued
      BY <2>1, <2>2, <2>4, <1>1, <1>2, <1>3, <1>4
    <3>2. Begun(i) /\ i # j
      BY <3>1, <2>1, <2>2 DEF BeginInOrder
    <3>3. PendingWrite(i) /\ Fences(f, k)
      BY <3>1, <3>2, <2>1, <1>1, <1>2, <1>3 DEF PendingWrite, Fences
    <3>4. QED
      BY <3>1, <3>3, <2>1 DEF NotOvertaken
  <2>5. QED
    BY <2>3, <2>4
<1>7. QED
  BY <1>5, <1>6

\* A step that begins nothing keeps them too: a request is issued and queued,
\* or one that had begun is done.
LEMMA NoBeginKeepsOrder ==
    ASSUME TypeOK, Requests, BeginInOrder, NotOvertaken, History,
           \A i \in 1..issued' : Begun(i)' <=> Begun(i),
           \A i \in 1..issued' : status'[i] = "started" => status[i] = "started"
    PROVE  BeginInOrder' /\ NotOvertaken'
<1>1. /\ issued \in 0..MaxRequests /\ issued' \in 0..MaxRequests /\ issued <= issued'
      /\ op \in [Ids -> Ops] /\ status \in [Ids -> {"new", "fenced", "started", "done"}]
      /\ 1..issued \subseteq Ids /\ 1..issued' \subseteq Ids
  BY DEF TypeOK, History, Ids
<1>2. /\ \A i \in 1..issued : op'[i] = op[i]
      /\ \A i \in 1..issued' : i \notin 1..issued => ~Begun(i)
      /\ \A i \in Ids : op'[i] # "SFENCE" => op[i] # "SFENCE"
  BY <1>1 DEF TypeOK, History, Requests, Ids, Begun
<1>3. \A k \in 1..issued : Ordered(k)' => Ordered(k)
  BY <1>1, <1>2 DEF Ordered
<1>4. BeginInOrder'
  BY <1>1, <1>2, <1>3 DEF BeginInOrder
<1>5. NotOvertaken'
  BY <1>1, <1>2, <1>3 DEF NotOvertaken, PendingWrite, Fences
<1>6. QED
  BY <1>4, <1>5

-----------------------------------------------------------------------------
(***************************************************************************)
(* The queue.                                                              *)
(***************************************************************************)
\* The request that is issued goes to the end of it.
LEMMA Enqueued ==
    ASSUME TypeOK, Requests, Queue,
           issued' = issued + 1, issued < MaxRequests,
           NEW o \in Ops, op' = [op EXCEPT ![issued + 1] = o],
           AddToFence(issued + 1), IsFenced', sfenced' => sfenced
    PROVE  pending_works' \in Seq(Ids) /\ Queue'
<1>1. /\ issued \in Nat /\ issued + 1 \in Ids /\ pending_works \in Seq(Ids)
      /\ op \in [Ids -> Ops] /\ status \in [Ids -> {"new", "fenced", "started", "done"}]
      /\ \A i \in Ids : i \in Nat
  BY DEF TypeOK, Ids
<1>2. /\ pending_works' \in Seq(Ids) /\ Len(pending_works') = Len(pending_works) + 1
      /\ pending_works'[Len(pending_works) + 1] = issued + 1
      /\ \A k \in 1..Len(pending_works) : pending_works'[k] = pending_works[k]
  BY <1>1 DEF AddToFence
<1>3. \A k \in 1..Len(pending_works) :
         pending_works[k] \in Ids /\ pending_works[k] < issued + 1
  <2>1. \A i \in Ids : status[i] = "fenced" => i < issued + 1
    BY <1>1 DEF Requests
  <2>2. TAKE k \in 1..Len(pending_works)
  <2>3. pending_works[k] \in Ids /\ status[pending_works[k]] = "fenced"
    BY <1>1 DEF Queue
  <2>4. QED
    BY <2>1, <2>3
<1>4. ASSUME NEW k \in 1..Len(pending_works'), NEW l \in 1..Len(pending_works'), k < l
      PROVE  pending_works'[k] < pending_works'[l]
  <2>1. Len(pending_works) \in Nat /\ k \in 1..Len(pending_works)
    BY <1>1, <1>2, <1>4
  <2>2. CASE l = Len(pending_works) + 1
    BY <2>1, <2>2, <1>2, <1>3
  <2>3. CASE l # Len(pending_works) + 1
    <3>1. l \in 1..Len(pending_works)
      BY <2>1, <2>3, <1>2
    <3>2. pending_works[k] < pending_works[l]
      BY <2>1, <3>1, <1>4 DEF Queue
    <3>3. QED
      BY <2>1, <3>1, <3>2, <1>2
  <2>4. QED
    BY <2>2, <2>3
<1>5. ASSUME NEW i \in Ids
      PROVE  status'[i] = "fenced" <=> \E k \in 1..Len(pending_works') : pending_works'[k] = i
  <2>1. CASE i = issued + 1
    BY <2>1, <1>1, <1>2 DEF AddToFence, SetStatus
  <2>2. CASE i # issued + 1
    <3>1. status'[i] = status[i]
      BY <2>2, <1>1 DEF AddToFence, SetStatus
    <3>2. Len(pending_works) \in Nat
      BY <1>1
    <3>3. (\E k \in 1..Len(pending_works') : pending_works'[k] = i)
            <=> \E k \in 1..Len(pending_works) : pending_works[k] = i
      BY <3>2, <2>2, <1>2
    <3>4. QED
      BY <3>1, <3>3 DEF Queue
  <2>3. QED
    BY <2>1, <2>2
<1>6. sfenced' => \E i \in Ids : op'[i] = "SFENCE"
  <2>1. SUFFICES ASSUME sfenced PROVE \E i \in Ids : op'[i] = "SFENCE"
    OBVIOUS
  <2>2. PICK i \in Ids : op[i] = "SFENCE"
    BY <2>1 DEF Queue
  <2>3. i # issued + 1
    BY <2>2, <1>1 DEF Requests
  <2>4. QED
    BY <2>2, <2>3, <1>1
<1>7. QED
  BY <1>2, <1>4, <1>5, <1>6 DEF Queue

\* The head of it is the first fenced request.
LEMMA HeadIsFirst ==
    ASSUME TypeOK, Queue, pending_works # <<>>
    PROVE  /\ Head(pending_works) \in Ids
           /\ status[Head(pending_works)] = "fenced"
           /\ \A i \in Ids : status[i] = "fenced" => Head(pending_works) <= i
<1>1. /\ pending_works \in Seq(Ids) /\ 1 \in 1..Len(pending_works)
      /\ Head(pending_works) = pending_works[1] /\ Head(pending_works) \in Ids
      /\ \A i \in Ids : i \in Nat
  BY DEF TypeOK, Ids
<1>2. QED
  BY <1>1 DEF Queue

\* When the head has been served the rest is the queue.
LEMMA Dequeued ==
    ASSUME TypeOK, Queue, pending_works # <<>>,
           pending_works' = Tail(pending_works), UNCHANGED op,
           NEW s \in {"started", "done"},
           status' = [status EXCEPT ![Head(pending_works)] = s],
           IsFenced', sfenced' => sfenced \/ op[Head(pending_works)] = "SFENCE"
    PROVE  pending_works' \in Seq(Ids) /\ Queue'
<1> DEFINE h == Head(pending_works)
<1>1. /\ pending_works \in Seq(Ids) /\ Len(pending_works) \in Nat \ {0}
      /\ h = pending_works[1] /\ h \in Ids
      /\ \A i \in Ids : i \in Nat
      /\ status \in [Ids -> {"new", "fenced", "started", "done"}]
  BY DEF TypeOK, Ids
<1>2. /\ pending_works' \in Seq(Ids) /\ Len(pending_works') = Len(pending_works) - 1
      /\ \A k \in 1..Len(pending_works') : pending_works'[k] = pending_works[k + 1]
  BY <1>1
<1>3. \A k, l \in 1..Len(pending_works') : k < l => pending_works'[k] < pending_works'[l]
  BY <1>1, <1>2 DEF Queue
<1>4. ASSUME NEW i \in Ids
      PROVE  status'[i] = "fenced" <=> \E k \in 1..Len(pending_works') : pending_works'[k] = i
  <2>1. CASE i = h
    <3>1. \A k \in 1..Len(pending_works') : h < pending_works[k + 1]
      BY <1>1, <1>2 DEF Queue
    <3>2. \A k \in 1..Len(pending_works') : pending_works'[k] # i
      BY <3>1, <2>1, <1>1, <1>2
    <3>3. status'[i] # "fenced"
      BY <2>1, <1>1
    <3>4. QED
      BY <3>2, <3>3
  <2>2. CASE i # h
    <3>1. status'[i] = status[i]
      BY <2>2, <1>1
    <3>2. ASSUME NEW k \in 1..Len(pending_works), pending_works[k] = i
          PROVE  \E l \in 1..Len(pending_works') : pending_works'[l] = i
      <4>1. k - 1 \in 1..Len(pending_works')
        BY <3>2, <2>2, <1>1, <1>2
      <4>2. pending_works'[k - 1] = pending_works[(k - 1) + 1]
        BY <4>1, <1>2
      <4>3. QED
        BY <4>1, <4>2, <3>2
    <3>3. ASSUME NEW l \in 1..Len(pending_works'), pending_works'[l] = i
          PROVE  \E k \in 1..Len(pending_works) : pending_works[k] = i
      BY <3>3, <1>1, <1>2
    <3>4. QED
      BY <3>1, <3>2, <3>3 DEF Queue
  <2>3. QED
    BY <2>1, <2>2
<1>5. sfenced' => \E i \in Ids : op'[i] = "SFENCE"
  BY <1>1 DEF Queue
<1>6. QED
  BY <1>2, <1>3, <1>4, <1>5 DEF Queue

-----------------------------------------------------------------------------
(***************************************************************************)
(* The calls of the application thread.                                    *)
(***************************************************************************)
\* What holds when the thread makes a call: the loop is not running, and the
\* requests so far are queued or have begun.
LEMMA WhenIssued ==
    ASSUME Inv, NEW o \in Ops, Issue(o)
    PROVE  /\ issued \in Nat /\ issued + 1 \in Ids /\ issued + 1 \in 1..issued'
           /\ issued' \in 0..MaxRequests /\ op' \in [Ids -> Ops]
           /\ op'[issued + 1] = o /\ \A i \in Ids : i # issued + 1 => op'[i] = op[i]
           /\ History
           /\ \A i \in 1..issued : i \in Ids /\ i \in 1..issued' /\ i # issued + 1
           /\ \A i \in 1..issued' : i \in 1..issued \/ i = issued + 1
           /\ status[issued + 1] = "new" /\ op[issued + 1] = "READ"
           /\ ~IsFenced => \A i \in 1..issued : Begun(i)
           /\ \A n \in Agents : pc[n] \notin InLoop
           /\ holder = {} /\ holder' = {} /\ pc[App] = "idle"
           /\ UNCHANGED <<pending_writes, in_process, holder>>
<1>1. /\ issued \in Nat /\ issued + 1 \in Ids /\ issued + 1 \in 1..issued'
      /\ issued' \in 0..MaxRequests /\ op' \in [Ids -> Ops]
      /\ op'[issued + 1] = o /\ \A i \in Ids : i # issued + 1 => op'[i] = op[i]
  BY DEF Inv, TypeOK, Issue, Ids
<1>0. History
  BY DEF History, Issue
<1>2. /\ \A i \in 1..issued : i \in Ids /\ i \in 1..issued' /\ i # issued + 1
      /\ \A i \in 1..issued' : i \in 1..issued \/ i = issued + 1
  BY <1>1 DEF Inv, TypeOK, Issue, Ids
<1>3. status[issued + 1] = "new" /\ op[issued + 1] = "READ"
  BY <1>1 DEF Inv, Requests, Ids
<1>4. holder = {} /\ holder' = {} /\ \A n \in Agents : pc[n] \notin InLoop
  BY DEF Inv, LockHeld, Issue
<1>5. ASSUME ~IsFenced, NEW i \in 1..issued
      PROVE  Begun(i)
  <2>1. pending_works = <<>> /\ pc[App] = "idle"
    BY <1>5 DEF Inv, Queue, Issue
  <2>2. i \in Ids /\ i <= issued /\ status[i] \in {"new", "fenced", "started", "done"}
    BY <1>1, <1>2, <1>5 DEF Inv, TypeOK
  <2>3. status[i] # "new"
    BY <2>1, <2>2 DEF Inv, Requests
  <2>4. status[i] # "fenced"
    BY <2>1, <2>2 DEF Inv, Queue
  <2>5. QED
    BY <2>2, <2>3, <2>4 DEF Begun
<1>6. QED
  BY <1>0, <1>1, <1>2, <1>3, <1>4, <1>5 DEF Issue

\* A request that is issued and queued keeps the invariant, whatever it is:
\* the fence is closed, or closes.
LEMMA IssuedAndFenced ==
    ASSUME Inv, NEW o \in Ops, Issue(o), AddToFence(issued + 1), UNCHANGED pc,
           mfenced' \in BOOLEAN, IsFenced', mfenced => mfenced', UNCHANGED sfenced
    PROVE  Inv'
<1> DEFINE i == issued + 1
<1>1. TypeOK /\ Requests /\ Queue /\ LockHeld /\ Admitted
  BY DEF Inv
<1>2. /\ i \in Ids /\ History
      /\ \A k \in 1..issued : k \in Ids /\ k \in 1..issued' /\ k # i
      /\ \A k \in 1..issued' : k \in 1..issued \/ k = i
      /\ status[i] = "new" /\ op[i] = "READ" /\ op' \in [Ids -> Ops]
      /\ \A k \in Ids : k # i => op'[k] = op[k]
      /\ holder = {} /\ pc[App] = "idle" /\ issued' \in 0..MaxRequests /\ issued \in Nat
      /\ UNCHANGED <<pending_writes, in_process, holder, pc>>
  BY WhenIssued
<1>3. /\ status' = [status EXCEPT ![i] = "fenced"]
      /\ status' \in [Ids -> {"new", "fenced", "started", "done"}]
      /\ \A k \in Ids : k # i => status'[k] = status[k]
      /\ status'[i] = "fenced"
  BY <1>1, <1>2 DEF TypeOK, AddToFence, SetStatus
<1>4. pending_works' \in Seq(Ids) /\ Queue'
  BY <1>1, Enqueued DEF Issue
<1>5. TypeOK'
  BY <1>1, <1>2, <1>3, <1>4 DEF TypeOK
<1>6. LockHeld' /\ Admitted'
  BY <1>1, <1>2 DEF LockHeld, Admitted
<1>7. Requests'
  BY <1>1, <1>2, <1>3 DEF Requests, Issue, Ids
<1>8. WritesCounted'
  BY <1>2, <1>3, CountSame DEF Inv, PendingWrite
<1>9. BeginInOrder' /\ NotOvertaken'
  <2>1. \A k \in 1..issued' : (Begun(k)' <=> Begun(k)) /\ (status'[k] = "started" => status[k] = "started")
    BY <1>2, <1>3 DEF Begun
  <2>2. QED
    BY <2>1, <1>1, <1>2, NoBeginKeepsOrder DEF Inv
<1>10. FenceClosed'
  BY <1>2, <1>3 DEF Inv, FenceClosed, PendingWrite, Begun
<1>11. QED
  BY <1>4, <1>5, <1>6, <1>7, <1>8, <1>9, <1>10 DEF Inv

\* No fence that a pending write precedes is behind the requests that have
\* begun, when the fence is open or the loop is running.
LEMMA NoFencePassed ==
    ASSUME Inv, ~mfenced \/ \E n \in Agents : pc[n] = "serve",
           NEW i \in 1..issued, NEW f \in 1..issued,
           PendingWrite(i), i < f, Begun(f)
    PROVE  op[f] \notin LockOps \cup {"MFENCE"}
<1>1. op[f] # "MFENCE"
  BY DEF Inv, FenceClosed
<1>2. ASSUME op[f] \in LockOps
      PROVE  FALSE
  <2>1. f <= f /\ Fences(f, f) /\ Ordered(f)
    BY <1>2 DEF Fences, Ordered, LockOps
  <2>2. QED
    BY <2>1 DEF Inv, NotOvertaken
<1>3. QED
  BY <1>1, <1>2

\* A request other than a write that begins when it is issued.
LEMMA IssuedAndBegun ==
    ASSUME Inv, NEW o \in Ops \ {"WRITE"}, Issue(o),
           NEW i \in Ids, i = issued + 1,
           NEW s \in {"started", "done"}, SetStatus(i, s),
           UNCHANGED <<pending_works, pc>>, flags' \in BOOLEAN \X BOOLEAN,
           ~mfenced, Ordered(i)' => ~IsFenced,
           ~IsFenced' => pending_works = <<>>,
           sfenced' => \E k \in Ids : op'[k] = "SFENCE",
           o \in LockOps => pending_writes = 0,
           o = "MFENCE" => mfenced' \/ pending_writes = 0
    PROVE  Inv'
<1>1. TypeOK /\ Requests /\ Queue /\ LockHeld /\ Admitted
  BY DEF Inv
<1>2. /\ i \in Ids /\ i \in 1..issued' /\ History
      /\ \A k \in 1..issued : k \in Ids /\ k \in 1..issued' /\ k # i
      /\ \A k \in 1..issued' : k \in 1..issued \/ k = i
      /\ status[i] = "new" /\ op[i] = "READ" /\ op' \in [Ids -> Ops]
      /\ op'[i] = o /\ \A k \in Ids : k # i => op'[k] = op[k]
      /\ ~IsFenced => \A k \in 1..issued : Begun(k)
      /\ \A n \in Agents : pc[n] \notin InLoop
      /\ holder = {} /\ pc[App] = "idle" /\ issued' \in 0..MaxRequests /\ issued \in Nat
      /\ UNCHANGED <<pending_writes, in_process, holder, pc>>
  BY WhenIssued
<1>3. /\ status' = [status EXCEPT ![i] = s]
      /\ status' \in [Ids -> {"new", "fenced", "started", "done"}]
      /\ \A k \in Ids : k # i => status'[k] = status[k]
      /\ status'[i] = s
  BY <1>1, <1>2 DEF TypeOK, SetStatus
<1>4. Queue'
  BY <1>1, <1>2, <1>3 DEF Queue, IsFenced
<1>5. TypeOK'
  BY <1>1, <1>2, <1>3 DEF TypeOK, flags
<1>6. LockHeld' /\ Admitted'
  BY <1>1, <1>2 DEF LockHeld, Admitted
<1>7. Requests'
  BY <1>1, <1>2, <1>3 DEF Requests, Issue, Ids
<1>8. WritesCounted'
  BY <1>2, <1>3, CountSame DEF Inv, PendingWrite
<1>9. Ordered(i)' => MayBegin(i)
  <2>1. SUFFICES ASSUME Ordered(i)' PROVE MayBegin(i)
    OBVIOUS
  <2>2. ~IsFenced /\ \A k \in 1..issued : Begun(k)
    BY <2>1, <1>2
  <2>3. ASSUME NEW k \in 1..issued', NEW f \in 1..issued', PendingWrite(k), k < f
        PROVE  ~Fences(f, i)'
    <3>1. k \in 1..issued /\ k \in Ids
      BY <2>3, <1>2 DEF PendingWrite
    <3>2. CASE f = i
      BY <3>1, <3>2, <2>3, <1>2, NonePending DEF Inv, Fences
    <3>3. CASE f # i
      <4>1. f \in 1..issued /\ Begun(f) /\ op'[f] = op[f]
        BY <3>3, <2>2, <1>2
      <4>2. QED
        BY <4>1, <3>1, <2>3, NoFencePassed DEF Fences
    <3>4. QED
      BY <3>2, <3>3
  <2>4. QED
    BY <2>2, <2>3 DEF MayBegin
<1>10. BeginInOrder' /\ NotOvertaken'
  BY <1>1, <1>2, <1>3, <1>9, BeginKeepsOrder DEF Inv, Begun
<1>11. FenceClosed'
  <2>1. SUFFICES ASSUME NEW k \in 1..issued', NEW f \in 1..issued',
                        PendingWrite(k)', k < f, op'[f] = "MFENCE", Begun(f)'
                 PROVE  mfenced'
    BY <1>2 DEF FenceClosed, InLoop
  <2>2. k \in 1..issued /\ k \in Ids /\ PendingWrite(k)
    BY <2>1, <1>2, <1>3 DEF PendingWrite
  <2>3. CASE f = i
    BY <2>2, <2>3, <2>1, <1>2, NonePending DEF Inv
  <2>4. CASE f # i
    <3>1. f \in 1..issued /\ Begun(f) /\ op[f] = "MFENCE"
      BY <2>4, <2>1, <1>2, <1>3 DEF Begun
    <3>2. QED
      BY <3>1, <2>1, <2>2, NoFencePassed
  <2>5. QED
    BY <2>3, <2>4
<1>12. QED
  BY <1>4, <1>5, <1>6, <1>7, <1>8, <1>10, <1>11 DEF Inv

LEMMA IssueReadKeeps ==
    ASSUME Inv, IssueRead
    PROVE  Inv'
<1>1. PICK i : i = issued + 1
  OBVIOUS
<1>2. "READ" \in Ops \ {"WRITE"} /\ "READ" \notin LockOps /\ Issue("READ")
  BY DEF IssueRead, Ops, LockOps
<1>3. /\ i \in Ids /\ op[i] = "READ" /\ op'[i] = "READ"
      /\ \A k \in Ids : k # i => op'[k] = op[k]
  BY <1>1, <1>2, WhenIssued
<1>4. /\ UNCHANGED <<mfenced, sfenced, pc>>
      /\ mfenced \in BOOLEAN /\ sfenced \in BOOLEAN
      /\ ~IsFenced => pending_works = <<>>
      /\ sfenced => \E k \in Ids : op'[k] = "SFENCE"
  BY <1>3 DEF IssueRead, flags, Inv, TypeOK, Queue
<1>5. CASE IsMFenced /\ AddToFence(issued + 1)
  BY <1>2, <1>4, <1>5, IssuedAndFenced DEF IsMFenced, IsFenced
<1>6. CASE ~IsMFenced /\ SetStatus(issued + 1, "started") /\ UNCHANGED pending_works
  <2>1. Ordered(i)' => ~IsFenced
    BY <1>3, <1>4, <1>6 DEF Ordered, IsFenced, IsMFenced
  <2>2. flags' \in BOOLEAN \X BOOLEAN /\ (~IsFenced' => pending_works = <<>>)
    BY <1>4 DEF flags, IsFenced
  <2>3. QED
    BY <2>1, <2>2, <1>1, <1>2, <1>3, <1>4, <1>6, IssuedAndBegun DEF IsMFenced
<1>7. QED
  BY <1>5, <1>6 DEF IssueRead

LEMMA IssueFenceKeeps ==
    ASSUME Inv, NEW o \in FenceOps, IssueFence(o)
    PROVE  Inv'
<1>1. PICK i : i = issued + 1
  OBVIOUS
<1>2. o \in Ops \ {"WRITE"} /\ o \notin LockOps /\ Issue(o) /\ UNCHANGED pc
  BY DEF IssueFence, Ops, LockOps, FenceOps
<1>3. i \in Ids /\ op'[i] = o
  BY <1>1, <1>2, WhenIssued
<1>4. CASE IsFenced /\ AddToFence(issued + 1) /\ UNCHANGED flags
  BY <1>2, <1>4, IssuedAndFenced DEF IsFenced, flags, Inv, TypeOK
<1>5. CASE /\ ~IsFenced
           /\ mfenced' = (o = "MFENCE" /\ pending_writes # 0)
           /\ sfenced' = (o = "SFENCE" /\ pending_writes # 0)
           /\ SetStatus(issued + 1, "done")
           /\ UNCHANGED pending_works
  <2>1. ~mfenced /\ pending_works = <<>>
    BY <1>5 DEF IsFenced, Inv, Queue
  <2>2. flags' \in BOOLEAN \X BOOLEAN /\ (sfenced' => \E k \in Ids : op'[k] = "SFENCE")
    BY <1>3, <1>5 DEF flags
  <2>3. QED
    BY <2>1, <2>2, <1>1, <1>2, <1>3, <1>5, IssuedAndBegun
<1>6. QED
  BY <1>4, <1>5 DEF IssueFence

LEMMA IssueLockKeeps ==
    ASSUME Inv, NEW o \in LockOps, IssueLock(o)
    PROVE  Inv'
<1>1. PICK i : i = issued + 1
  OBVIOUS
<1>2. o \in Ops \ {"WRITE"} /\ o # "MFENCE" /\ Issue(o) /\ UNCHANGED pc
  BY DEF IssueLock, Ops, LockOps
<1>3. i \in Ids
  BY <1>1, <1>2, WhenIssued
<1>4. CASE IsFenced /\ AddToFence(issued + 1) /\ UNCHANGED flags
  BY <1>2, <1>4, IssuedAndFenced DEF IsFenced, flags, Inv, TypeOK
<1>5. CASE /\ ~IsFenced /\ pending_writes # 0
           /\ mfenced' = TRUE
           /\ AddToFence(issued + 1)
           /\ UNCHANGED sfenced
  BY <1>2, <1>5, IssuedAndFenced DEF IsFenced
<1>6. CASE /\ ~IsFenced /\ pending_writes = 0
           /\ SetStatus(issued + 1, StartedAs(o))
           /\ UNCHANGED <<flags, pending_works>>
  <2>1. ~mfenced /\ ~sfenced /\ pending_works = <<>>
    BY <1>6 DEF IsFenced, Inv, Queue
  <2>2. /\ ~sfenced' /\ flags' \in BOOLEAN \X BOOLEAN
        /\ StartedAs(o) \in {"started", "done"}
    BY <2>1, <1>6 DEF flags, Inv, TypeOK, StartedAs
  <2>3. QED
    BY <2>1, <2>2, <1>1, <1>2, <1>3, <1>6, IssuedAndBegun
<1>7. QED
  BY <1>4, <1>5, <1>6 DEF IssueLock

LEMMA IssueWriteKeeps ==
    ASSUME Inv, IssueWrite
    PROVE  Inv'
<1>1. PICK i : i = issued + 1
  OBVIOUS
<1>2. "WRITE" \in Ops /\ Issue("WRITE") /\ UNCHANGED <<mfenced, sfenced>>
  BY DEF IssueWrite, Ops, flags
<1>3. CASE IsFenced /\ AddToFence(issued + 1) /\ UNCHANGED pc
  BY <1>2, <1>3, IssuedAndFenced DEF IsFenced, Inv, TypeOK
<1>4. CASE ~IsFenced /\ GoTo(App, "admitted") /\ UNCHANGED <<pending_works, status>>
  <2>1. TypeOK /\ Requests /\ Queue /\ LockHeld /\ Admitted
    BY DEF Inv
  <2>2. /\ i \in Ids /\ i \in 1..issued' /\ History /\ i = issued' /\ issued \in Nat
        /\ \A k \in 1..issued : k \in Ids /\ k \in 1..issued' /\ k # i
        /\ \A k \in 1..issued' : k \in 1..issued \/ k = i
        /\ status[i] = "new" /\ op[i] = "READ" /\ op' \in [Ids -> Ops]
        /\ op'[i] = "WRITE" /\ \A k \in Ids : k # i => op'[k] = op[k]
        /\ holder = {} /\ pc[App] = "idle" /\ issued' \in 0..MaxRequests
        /\ UNCHANGED <<pending_writes, in_process, holder, status, pending_works>>
        /\ \A n \in Agents : pc[n] \notin InLoop
    BY <1>1, <1>2, <1>4, WhenIssued DEF Issue
  <2>3. /\ pc' \in [Agents -> Labels] /\ pc'[App] = "admitted"
        /\ \A n \in Agents : n # App => pc'[n] = pc[n]
    BY <2>1, <1>4 DEF TypeOK, GoTo, Agents, Labels
  <2>4. TypeOK' /\ LockHeld'
    BY <2>1, <2>2, <2>3, <1>2 DEF TypeOK, LockHeld, InLoop
  <2>5. Admitted'
    BY <2>1, <2>2, <2>3, <1>2, <1>4 DEF Admitted, IsFenced
  <2>6. Requests'
    <3>1. \A k \in Ids : k > issued' => k > issued /\ k # i
      BY <2>2 DEF Ids
    <3>2. \A k \in Ids : k <= issued' /\ status[k] = "new" => k = issued'
      BY <2>1, <2>2 DEF Requests, Ids
    <3>3. QED
      BY <3>1, <3>2, <2>1, <2>2, <2>3 DEF Requests
  <2>7. Queue'
    BY <2>1, <2>2, <1>2, <1>4 DEF Queue, IsFenced
  <2>8. WritesCounted'
    BY <2>2, CountSame DEF Inv, PendingWrite
  <2>9. BeginInOrder' /\ NotOvertaken'
    BY <2>1, <2>2, NoBeginKeepsOrder DEF Inv, Begun
  <2>10. FenceClosed'
    BY <2>2, <2>3, <1>2 DEF Inv, FenceClosed, PendingWrite, Begun, InLoop
  <2>11. QED
    BY <2>4, <2>5, <2>6, <2>7, <2>8, <2>9, <2>10 DEF Inv
<1>5. QED
  BY <1>3, <1>4 DEF IssueWrite

-----------------------------------------------------------------------------
(***************************************************************************)
(* Writes and synchronous calls take effect.                               *)
(***************************************************************************)
\* The write that was admitted: the fence is still open.
LEMMA StartWriteKeeps ==
    ASSUME Inv, StartWrite
    PROVE  Inv'
<1>1. TypeOK /\ Requests /\ Queue /\ LockHeld /\ Admitted
  BY DEF Inv
<1>2. PICK j \in Ids : j = issued
  BY <1>1 DEF Admitted, StartWrite
<1>3. /\ ~mfenced /\ ~sfenced /\ pending_works = <<>> /\ pc[App] = "admitted"
      /\ op[j] = "WRITE" /\ status[j] = "new" /\ holder = {}
      /\ UNCHANGED <<mfenced, sfenced, pending_works, in_process, holder, issued, op>>
  BY <1>1, <1>2 DEF Admitted, StartWrite, IsFenced, Queue, LockHeld, flags
<1>4. PICK s \in {"started", "done"}, l \in {"idle", "notify"} :
         /\ status' = [status EXCEPT ![j] = s] /\ pc' = [pc EXCEPT ![App] = l]
         /\ s = "started" => pending_writes' = pending_writes + 1
         /\ s = "done" => pending_writes' = pending_writes
  BY <1>2 DEF StartWrite, SetStatus, GoTo
<1>5. /\ status' \in [Ids -> {"new", "fenced", "started", "done"}] /\ status'[j] = s
      /\ \A k \in Ids : k # j => status'[k] = status[k]
      /\ pc' \in [Agents -> Labels] /\ pc'[App] = l
      /\ \A n \in Agents : n # App => pc'[n] = pc[n]
      /\ pending_writes' \in Int
  BY <1>1, <1>4 DEF TypeOK, Agents, Labels
<1>6. TypeOK' /\ LockHeld' /\ Admitted'
  BY <1>1, <1>3, <1>5 DEF TypeOK, LockHeld, Admitted, IsFenced, InLoop
<1>7. Requests' /\ Queue'
  BY <1>1, <1>2, <1>3, <1>5 DEF Requests, Queue, IsFenced, Ids
<1>8. WritesCounted'
  <2>1. CASE s = "started"
    BY <2>1, <1>3, <1>4, <1>5, CountOneMore DEF Inv, PendingWrite
  <2>2. CASE s = "done"
    BY <2>2, <1>3, <1>4, <1>5, CountSame DEF Inv, PendingWrite
  <2>3. QED
    BY <2>1, <2>2
<1>9. j \in 1..issued' /\ ~Begun(j) /\ History /\ 1..issued' \subseteq Ids
  BY <1>1, <1>2, <1>3 DEF Begun, History, Ids
<1>10. MayBegin(j)
  <2>1. \A k \in 1..issued : k < j => Begun(k)
    BY <1>1, <1>2, <1>3, <1>9 DEF TypeOK, Requests, Queue, Begun
  <2>2. ASSUME NEW k \in 1..issued', NEW f \in 1..issued', PendingWrite(k), k < f
        PROVE  ~Fences(f, j)'
    <3>1. CASE f = j
      BY <3>1, <1>3 DEF Fences, LockOps
    <3>2. CASE f # j
      <4>1. Begun(f) /\ op' = op
        BY <3>2, <2>1, <1>2, <1>3, <1>9 DEF Ids
      <4>2. QED
        BY <4>1, <2>2, <1>3, NoFencePassed DEF Fences
    <3>3. QED
      BY <3>1, <3>2
  <2>3. QED
    BY <2>1, <2>2 DEF MayBegin
<1>11. BeginInOrder' /\ NotOvertaken'
  BY <1>1, <1>4, <1>9, <1>10, BeginKeepsOrder DEF Inv
<1>12. FenceClosed'
  <2>1. SUFFICES ASSUME NEW k \in 1..issued', NEW f \in 1..issued',
                        PendingWrite(k)', k < f, op'[f] = "MFENCE", Begun(f)'
                 PROVE  FALSE
    BY DEF FenceClosed
  <2>2. k # j /\ f # j /\ PendingWrite(k) /\ Begun(f)
    BY <2>1, <1>2, <1>3, <1>5, <1>9 DEF PendingWrite, Begun, Ids
  <2>3. QED
    BY <2>1, <2>2, <1>3, NoFencePassed
<1>13. QED
  BY <1>6, <1>7, <1>8, <1>11, <1>12 DEF Inv

\* A request that had begun is done.
LEMMA DoneKeepsOrder ==
    ASSUME Inv, NEW i \in Ids, status[i] = "started",
           status' = [status EXCEPT ![i] = "done"], UNCHANGED <<issued, op, flags, pending_works>>
    PROVE  Queue' /\ BeginInOrder' /\ NotOvertaken'
<1>1. /\ TypeOK /\ Requests /\ Queue /\ History /\ 1..issued' \subseteq Ids
      /\ \A k \in Ids : k # i => status'[k] = status[k]
      /\ status'[i] = "done"
  BY DEF Inv, TypeOK, History, Ids
<1>2. \A k \in 1..issued' : (Begun(k)' <=> Begun(k)) /\ (status'[k] = "started" => status[k] = "started")
  BY <1>1 DEF Begun
<1>3. Queue'
  BY <1>1 DEF Queue, IsFenced, flags
<1>4. QED
  BY <1>1, <1>2, <1>3, NoBeginKeepsOrder DEF Inv

LEMMA SyncDoneKeeps ==
    ASSUME Inv, NEW i \in Ids, SyncDone(i)
    PROVE  Inv'
<1>1. /\ TypeOK /\ Requests /\ LockHeld /\ Admitted /\ 1..issued \subseteq Ids
      /\ status' \in [Ids -> {"new", "fenced", "started", "done"}]
      /\ status[i] = "started" /\ status'[i] = "done"
      /\ \A k \in Ids : k # i => status'[k] = status[k]
      /\ op[i] \in SyncOps
      /\ UNCHANGED <<pending_writes, mfenced, sfenced, pending_works, in_process, holder, pc,
                     issued, op>>
  BY DEF Inv, TypeOK, SyncDone, SetStatus, flags, Ids
<1>2. TypeOK' /\ LockHeld' /\ Admitted' /\ Requests'
  BY <1>1 DEF TypeOK, LockHeld, Admitted, Requests, IsFenced, Inv
<1>3. WritesCounted'
  BY <1>1, CountSame DEF Inv, PendingWrite, SyncOps
<1>4. Queue' /\ BeginInOrder' /\ NotOvertaken'
  BY <1>1, DoneKeepsOrder DEF SyncDone, SetStatus
<1>5. FenceClosed'
  BY <1>1 DEF Inv, FenceClosed, PendingWrite, Begun
<1>6. QED
  BY <1>2, <1>3, <1>4, <1>5 DEF Inv

LEMMA WriteDoneKeeps ==
    ASSUME Inv, NEW i \in Ids, NEW n \in Helpers, WriteDone(n, i)
    PROVE  Inv'
<1>1. /\ TypeOK /\ Requests /\ LockHeld /\ Admitted /\ 1..issued \subseteq Ids
      /\ status' \in [Ids -> {"new", "fenced", "started", "done"}]
      /\ status[i] = "started" /\ status'[i] = "done"
      /\ \A k \in Ids : k # i => status'[k] = status[k]
      /\ op[i] = "WRITE" /\ pending_writes' = pending_writes - 1
      /\ UNCHANGED <<mfenced, sfenced, pending_works, in_process, holder, issued, op>>
  BY DEF Inv, TypeOK, WriteDone, SetStatus, flags, Ids
<1>2. /\ n \in Agents /\ App \in Agents /\ n # App /\ pc[n] = "idle"
      /\ pc' \in [Agents -> Labels] /\ pc'[n] = "notify"
      /\ \A m \in Agents : m # n => pc'[m] = pc[m]
  BY <1>1 DEF TypeOK, WriteDone, GoTo, Agents, Labels
<1>3. TypeOK' /\ LockHeld' /\ Admitted' /\ Requests'
  BY <1>1, <1>2 DEF TypeOK, LockHeld, Admitted, Requests, IsFenced, InLoop
<1>4. WritesCounted'
  BY <1>1, CountOneLess DEF Inv, PendingWrite
<1>5. Queue' /\ BeginInOrder' /\ NotOvertaken'
  BY <1>1, DoneKeepsOrder DEF WriteDone, SetStatus
<1>6. FenceClosed'
  BY <1>1, <1>2 DEF Inv, FenceClosed, PendingWrite, Begun
<1>7. QED
  BY <1>3, <1>4, <1>5, <1>6 DEF Inv

-----------------------------------------------------------------------------
(***************************************************************************)
(* ProcessFenced.                                                          *)
(***************************************************************************)
\* A step that leaves the requests alone keeps what is said of them.
LEMMA RequestsAlone ==
    ASSUME Inv, UNCHANGED <<pending_writes, issued, op, status>>
    PROVE  WritesCounted' /\ BeginInOrder' /\ NotOvertaken'
<1>1. WritesCounted'
  BY CountSame DEF Inv, PendingWrite
<1>2. BeginInOrder' /\ NotOvertaken'
  BY DEF Inv, BeginInOrder, NotOvertaken, Begun, Ordered, Fences, PendingWrite
<1>3. QED
  BY <1>1, <1>2

LEMMA TestInProcessKeeps ==
    ASSUME Inv, NEW n \in Agents, TestInProcess(n)
    PROVE  Inv'
<1>1. /\ pc[n] = "notify" /\ pc'[n] \in {"idle", "lock"} /\ pc' \in [Agents -> Labels]
      /\ \A m \in Agents : m # n => pc'[m] = pc[m]
      /\ App \in Agents
      /\ UNCHANGED <<pending_writes, mfenced, sfenced, pending_works, in_process, holder,
                     issued, op, status>>
  BY DEF Inv, TypeOK, TestInProcess, GoTo, Labels, flags, Agents
<1>2. TypeOK' /\ LockHeld' /\ Admitted' /\ Requests' /\ Queue' /\ FenceClosed'
  BY <1>1 DEF Inv, TypeOK, LockHeld, Admitted, Requests, Queue, IsFenced, InLoop,
              FenceClosed, PendingWrite, Begun
<1>3. QED
  BY <1>1, <1>2, RequestsAlone DEF Inv

\* The loop is entered with no write pending.
LEMMA EnterFenceKeeps ==
    ASSUME Inv, NEW n \in Agents, EnterFence(n)
    PROVE  Inv'
<1>1. /\ App \in Agents /\ holder = {} /\ pc[n] = "lock"
      /\ UNCHANGED <<pending_writes, mfenced, sfenced, pending_works, issued, op, status>>
  BY DEF EnterFence, flags, Agents
<1>2. CASE /\ pending_writes = 0 /\ IsFenced
           /\ holder' = {n} /\ in_process' = TRUE /\ GoTo(n, "serve")
  <2>1. /\ pc'[n] = "serve" /\ pc' \in [Agents -> Labels]
        /\ \A m \in Agents : m # n => pc'[m] = pc[m]
    BY <1>2 DEF Inv, TypeOK, GoTo, Labels
  <2>2. TypeOK' /\ LockHeld'
    BY <1>1, <1>2, <2>1 DEF Inv, TypeOK, LockHeld, IsFenced, InLoop
  <2>3. Admitted' /\ Requests' /\ Queue'
    BY <1>1, <1>2, <2>1 DEF Inv, Admitted, Requests, Queue, IsFenced
  <2>4. \A i \in 1..issued : ~PendingWrite(i)'
    BY <1>1, <1>2, NonePending DEF Inv, TypeOK, PendingWrite, Ids
  <2>5. FenceClosed'
    BY <1>1, <2>4 DEF FenceClosed
  <2>6. QED
    BY <1>1, <2>2, <2>3, <2>5, RequestsAlone DEF Inv
<1>3. CASE /\ pending_writes # 0 \/ ~IsFenced
           /\ GoTo(n, "idle")
           /\ UNCHANGED <<holder, in_process>>
  <2>1. /\ pc'[n] = "idle" /\ pc' \in [Agents -> Labels]
        /\ \A m \in Agents : m # n => pc'[m] = pc[m]
    BY <1>3 DEF Inv, TypeOK, GoTo, Labels
  <2>2. TypeOK' /\ LockHeld' /\ Admitted' /\ Requests' /\ Queue' /\ FenceClosed'
    BY <1>1, <1>3, <2>1 DEF Inv, TypeOK, LockHeld, Admitted, Requests, Queue, IsFenced,
                            InLoop, FenceClosed, PendingWrite, Begun
  <2>3. QED
    BY <1>1, <2>2, RequestsAlone DEF Inv
<1>4. QED
  BY <1>2, <1>3 DEF EnterFence

\* The fence opens only when the queue is empty, and then no write is pending
\* in front of a fence.
LEMMA LeaveFenceKeeps ==
    ASSUME Inv, NEW n \in Agents, LeaveFence(n)
    PROVE  Inv'
<1>1. /\ pc[n] \in InLoop /\ pc'[n] = "idle" /\ pc' \in [Agents -> Labels]
      /\ \A m \in Agents : m # n => pc'[m] = pc[m]
      /\ App \in Agents /\ in_process' = FALSE /\ holder' = {}
      /\ UNCHANGED <<pending_writes, pending_works, issued, op, status>>
  BY DEF Inv, TypeOK, LeaveFence, GoTo, Labels, Agents, InLoop
<1>2. \A m \in Agents : m # n => pc[m] \notin InLoop
  BY <1>1 DEF Inv, LockHeld
<1>3. IsFenced /\ pc[App] # "admitted"
  BY <1>1 DEF Inv, LockHeld, Admitted
<1>4. mfenced' \in BOOLEAN /\ sfenced' \in BOOLEAN
  BY DEF LeaveFence, flags, Inv, TypeOK
<1>5. TypeOK' /\ LockHeld' /\ Admitted' /\ Requests'
  <2>1. TypeOK'
    BY <1>1, <1>4 DEF Inv, TypeOK
  <2>2. LockHeld'
    BY <1>1, <1>2 DEF Inv, LockHeld, InLoop
  <2>3. Admitted'
    BY <1>1, <1>3 DEF Inv, Admitted
  <2>4. Requests'
    BY <1>1, <1>3 DEF Inv, Requests, InLoop
  <2>5. QED
    BY <2>1, <2>2, <2>3, <2>4
<1>6. CASE pc[n] = "serve" /\ pending_works = <<>> /\ mfenced' = FALSE /\ sfenced' = FALSE
  <2>1. Queue'
    BY <1>1, <1>6 DEF Inv, Queue, IsFenced
  <2>2. FenceClosed'
    BY <1>1, <1>6 DEF Inv, FenceClosed, PendingWrite, Begun
  <2>3. QED
    BY <1>1, <1>5, <2>1, <2>2, RequestsAlone DEF Inv
<1>7. CASE pc[n] = "stop" /\ UNCHANGED flags
  <2>1. Queue'
    BY <1>1, <1>7 DEF Inv, Queue, IsFenced, flags
  <2>2. FenceClosed'
    BY <1>1, <1>7 DEF Inv, FenceClosed, PendingWrite, Begun, flags
  <2>3. QED
    BY <1>1, <1>5, <2>1, <2>2, RequestsAlone DEF Inv
<1>8. QED
  BY <1>6, <1>7 DEF LeaveFence

\* In the loop, the head of the queue may begin.
LEMMA HeadMayBegin ==
    ASSUME Inv, NEW n \in Agents, pc[n] = "serve", pending_works # <<>>,
           NEW h, h = Head(pending_works), UNCHANGED <<issued, op>>,
           op[h] \in LockOps => pending_writes = 0
    PROVE  h \in Ids /\ h \in 1..issued /\ status[h] = "fenced" /\ MayBegin(h)
<1>1. /\ h \in Ids /\ status[h] = "fenced" /\ \A i \in Ids : status[i] = "fenced" => h <= i
  BY HeadIsFirst DEF Inv
<1>2. /\ TypeOK /\ Requests /\ issued \in Nat /\ 1..issued \subseteq Ids
      /\ \A i \in Ids : i \in Nat \ {0}
  BY DEF Inv, TypeOK, Ids
<1>3. h \in 1..issued
  BY <1>1, <1>2 DEF Requests
<1>4. n \in holder /\ IsFenced /\ pc[App] # "admitted"
  BY DEF Inv, LockHeld, Admitted, InLoop
<1>5. ASSUME NEW i \in 1..issued, i < h
      PROVE  Begun(i)
  <2>1. i \in Ids /\ status[i] # "fenced" /\ i <= issued
    BY <1>1, <1>2, <1>5
  <2>2. status[i] # "new" /\ status[i] \in {"new", "fenced", "started", "done"}
    BY <2>1, <1>2, <1>4 DEF TypeOK, Requests
  <2>3. QED
    BY <2>1, <2>2 DEF Begun
<1>6. ASSUME NEW i \in 1..issued', NEW f \in 1..issued', PendingWrite(i), i < f
      PROVE  ~Fences(f, h)'
  <2>1. i \in 1..issued /\ f \in 1..issued /\ (Fences(f, h)' <=> Fences(f, h))
    BY DEF Fences
  <2>2. CASE f = h
    BY <2>1, <2>2, <1>2, <1>6, NonePending DEF Inv, Fences
  <2>3. CASE f # h
    <3>1. SUFFICES ASSUME Fences(f, h) PROVE FALSE
      BY <2>1
    <3>2. f < h /\ op[f] \in LockOps \cup {"MFENCE"}
      BY <3>1, <2>1, <2>3, <1>1, <1>2 DEF Fences
    <3>3. QED
      BY <3>2, <2>1, <1>5, <1>6, NoFencePassed
  <2>4. QED
    BY <2>2, <2>3
<1>7. QED
  BY <1>1, <1>3, <1>5, <1>6 DEF MayBegin

\* A request is taken from the queue and begins.
LEMMA ServedKeeps ==
    ASSUME Inv, NEW n \in Agents, pc[n] = "serve", pending_works # <<>>,
           NEW h, h = Head(pending_works), UNCHANGED <<issued, op, in_process, holder>>,
           op[h] \in LockOps => pending_writes = 0,
           NEW s \in {"started", "done"}, SetStatus(h, s),
           pending_works' = Tail(pending_works),
           pc' \in [Agents -> Labels], pc'[n] \in InLoop,
           \A m \in Agents : m # n => pc'[m] = pc[m],
           mfenced' \in BOOLEAN, sfenced' \in BOOLEAN, pending_writes' \in Int,
           IsFenced', sfenced' => sfenced \/ op[h] = "SFENCE",
           WritesCounted'
    PROVE  /\ TypeOK' /\ LockHeld' /\ Admitted' /\ Requests' /\ Queue'
           /\ BeginInOrder' /\ NotOvertaken'
<1>1. /\ h \in Ids /\ h \in 1..issued /\ status[h] = "fenced" /\ MayBegin(h)
  BY HeadMayBegin
<1>2. /\ status' = [status EXCEPT ![h] = s]
      /\ status' \in [Ids -> {"new", "fenced", "started", "done"}]
      /\ \A k \in Ids : k # h => status'[k] = status[k]
      /\ status'[h] = s
  BY <1>1 DEF Inv, TypeOK, SetStatus
<1>3. pending_works' \in Seq(Ids) /\ Queue'
  BY <1>2, Dequeued DEF Inv
<1>4. /\ App \in Agents /\ n \in holder /\ pc[App] # "admitted" /\ pc'[App] # "admitted"
      /\ pc'[n] # "admitted"
  BY DEF Inv, LockHeld, Admitted, InLoop, Agents
<1>5. TypeOK'
  BY <1>2, <1>3 DEF Inv, TypeOK
<1>6. LockHeld' /\ Admitted'
  BY <1>4 DEF Inv, LockHeld, Admitted, InLoop
<1>7. Requests'
  BY <1>1, <1>2, <1>4 DEF Inv, TypeOK, Requests, Ids
<1>8. BeginInOrder' /\ NotOvertaken'
  <2>1. h \in 1..issued' /\ ~Begun(h) /\ History
    BY <1>1 DEF Begun, History
  <2>2. QED
    BY <1>1, <1>2, <2>1, BeginKeepsOrder DEF Inv
<1>9. QED
  BY <1>3, <1>5, <1>6, <1>7, <1>8

LEMMA RunFencedKeeps ==
    ASSUME Inv, NEW n \in Agents, pc[n] = "serve", pending_works # <<>>,
           NEW h, h = Head(pending_works), UNCHANGED <<issued, op, in_process, holder>>,
           RunFenced(h)
    PROVE  Inv'
<1>1. /\ op[h] \in {"READ", "WRITE"} \/ pending_writes = 0
      /\ pending_works' = Tail(pending_works)
      /\ UNCHANGED <<mfenced, sfenced, pc>>
  BY DEF RunFenced, flags
<1>2. op[h] \in LockOps => pending_writes = 0
  BY <1>1 DEF LockOps
<1>3. h \in Ids /\ h \in 1..issued /\ status[h] = "fenced" /\ op[h] \in Ops
  BY <1>2, HeadMayBegin DEF Inv, TypeOK
<1>4. PICK s \in {"started", "done"} :
         /\ SetStatus(h, s)
         /\ op[h] = "WRITE" /\ s = "started" => pending_writes' = pending_writes + 1
         /\ op[h] # "WRITE" \/ s = "done" => pending_writes' = pending_writes
  BY DEF RunFenced, StartedAs, SyncOps, LockOps
<1>5. /\ status' \in [Ids -> {"new", "fenced", "started", "done"}]
      /\ \A k \in Ids : k # h => status'[k] = status[k]
      /\ status'[h] = s
  BY <1>3, <1>4 DEF Inv, TypeOK, SetStatus
<1>6. WritesCounted' /\ pending_writes' \in Int
  <2>1. CASE op[h] = "WRITE" /\ s = "started"
    BY <2>1, <1>3, <1>4, <1>5, CountOneMore DEF Inv, TypeOK, PendingWrite
  <2>2. CASE op[h] # "WRITE" \/ s = "done"
    BY <2>2, <1>3, <1>4, <1>5, CountSame DEF Inv, TypeOK, PendingWrite
  <2>3. QED
    BY <2>1, <2>2
<1>7. /\ IsFenced /\ IsFenced' /\ mfenced' \in BOOLEAN /\ sfenced' \in BOOLEAN
      /\ pc' \in [Agents -> Labels] /\ pc'[n] \in InLoop
  BY <1>1 DEF Inv, LockHeld, TypeOK, IsFenced, InLoop
<1>8. /\ TypeOK' /\ LockHeld' /\ Admitted' /\ Requests' /\ Queue'
      /\ BeginInOrder' /\ NotOvertaken'
  BY <1>1, <1>2, <1>4, <1>6, <1>7, ServedKeeps
<1>9. FenceClosed'
  <2>1. SUFFICES ASSUME NEW i \in 1..issued, NEW f \in 1..issued,
                        PendingWrite(i)', i < f, op[f] = "MFENCE", Begun(f)'
                 PROVE  FALSE
    BY DEF FenceClosed
  <2>2. i \in Ids /\ f \in Ids
    BY DEF Inv, TypeOK, Ids
  <2>3. CASE i = h
    BY <2>1, <2>2, <2>3, <1>3, <1>5 DEF Inv, BeginInOrder, Ordered, Begun
  <2>4. CASE f = h
    BY <2>1, <2>2, <2>4, <1>1, <1>5, NonePending DEF Inv, PendingWrite
  <2>5. CASE i # h /\ f # h
    BY <2>1, <2>2, <2>5, <1>5, NoFencePassed DEF PendingWrite, Begun
  <2>6. QED
    BY <2>3, <2>4, <2>5
<1>10. QED
  BY <1>6, <1>8, <1>9 DEF Inv

\* The loop stops at a fence, or at a lock call, that finds a write pending.
LEMMA StopAtFenceKeeps ==
    ASSUME Inv, NEW n \in Agents, pc[n] = "serve", pending_works # <<>>,
           NEW h, h = Head(pending_works), UNCHANGED <<issued, op, in_process, holder>>,
           StopAtFence(n, h)
    PROVE  Inv'
<1>1. /\ UNCHANGED pending_writes
      /\ mfenced' = (op[h] # "SFENCE") /\ sfenced' = (op[h] = "SFENCE")
      /\ pc'[n] = "stop" /\ pc' \in [Agents -> Labels]
      /\ \A m \in Agents : m # n => pc'[m] = pc[m]
      /\ App \in Agents
  BY DEF StopAtFence, GoTo, Inv, TypeOK, Labels, Agents
<1>2. /\ n \in holder /\ pc[App] # "admitted" /\ pc'[App] # "admitted"
      /\ \A m \in Agents : m # n => pc[m] \notin InLoop
  BY <1>1 DEF Inv, LockHeld, Admitted, InLoop
<1>3. \A m \in Agents : pc'[m] # "serve"
  BY <1>1, <1>2 DEF InLoop
<1>4. h \in Ids /\ status[h] = "fenced"
  BY HeadIsFirst DEF Inv
<1>5. IsFenced' /\ mfenced' \in BOOLEAN /\ sfenced' \in BOOLEAN
  BY <1>1 DEF IsFenced
<1>6. CASE /\ op[h] \in FenceOps
           /\ pending_works' = Tail(pending_works)
           /\ SetStatus(h, "done")
  <2>1. /\ status' \in [Ids -> {"new", "fenced", "started", "done"}]
        /\ \A k \in Ids : k # h => status'[k] = status[k]
        /\ status'[h] = "done" /\ op[h] \notin LockOps /\ op[h] # "WRITE"
    BY <1>4, <1>6 DEF Inv, TypeOK, SetStatus, FenceOps, LockOps
  <2>2. WritesCounted' /\ pending_writes' \in Int
    BY <2>1, <1>1, <1>4, CountSame DEF Inv, TypeOK, PendingWrite
  <2>3. /\ TypeOK' /\ LockHeld' /\ Admitted' /\ Requests' /\ Queue'
        /\ BeginInOrder' /\ NotOvertaken'
    BY <2>1, <2>2, <1>1, <1>5, <1>6, ServedKeeps DEF InLoop
  <2>4. FenceClosed'
    <3>1. SUFFICES ASSUME NEW i \in 1..issued, NEW f \in 1..issued,
                          PendingWrite(i)', i < f, op[f] = "MFENCE", Begun(f)'
                   PROVE  mfenced'
      BY <1>3 DEF FenceClosed
    <3>2. i \in Ids /\ f \in Ids /\ PendingWrite(i)
      BY <3>1, <2>1 DEF Inv, TypeOK, Ids, PendingWrite
    <3>3. CASE f = h
      BY <3>1, <3>3, <1>1
    <3>4. CASE f # h
      BY <3>1, <3>2, <3>4, <2>1, NoFencePassed DEF Begun
    <3>5. QED
      BY <3>3, <3>4
  <2>5. QED
    BY <2>2, <2>3, <2>4 DEF Inv
<1>7. CASE op[h] \in LockOps /\ UNCHANGED <<pending_works, status>>
  <2>1. mfenced' /\ ~sfenced'
    BY <1>1, <1>7 DEF LockOps
  <2>2. TypeOK' /\ LockHeld' /\ Admitted' /\ Requests'
    <3>1. TypeOK'
      BY <1>1, <1>5, <1>7 DEF Inv, TypeOK
    <3>2. LockHeld'
      BY <1>1, <1>2, <1>5 DEF Inv, LockHeld, InLoop
    <3>3. Admitted'
      BY <1>1, <1>2, <1>5 DEF Inv, Admitted
    <3>4. Requests'
      BY <1>1, <1>2, <1>7 DEF Inv, Requests, InLoop
    <3>5. QED
      BY <3>1, <3>2, <3>3, <3>4
  <2>3. Queue' /\ FenceClosed'
    BY <2>1, <1>3, <1>5, <1>7 DEF Inv, Queue, FenceClosed
  <2>4. QED
    BY <2>2, <2>3, <1>1, <1>7, RequestsAlone DEF Inv
<1>8. QED
  BY <1>6, <1>7 DEF StopAtFence

-----------------------------------------------------------------------------
LEMMA InvInit == Init => Inv
<1>1. SUFFICES ASSUME Init PROVE Inv
  OBVIOUS
<1>2. /\ 1..issued = {} /\ App \in Agents
      /\ \A i \in Ids : i > issued /\ op[i] = "READ" /\ status[i] = "new"
      /\ \A n \in Agents : pc[n] = "idle"
      /\ pending_works = <<>> /\ 1..Len(pending_works) = {}
  BY <1>1 DEF Init, Agents, Ids
<1>3. TypeOK
  <2>1. op \in [Ids -> Ops] /\ pc \in [Agents -> Labels]
    BY <1>1 DEF Init, Ops, Labels
  <2>2. status \in [Ids -> {"new", "fenced", "started", "done"}]
    BY <1>1 DEF Init
  <2>3. pending_works \in Seq(Ids) /\ issued \in 0..MaxRequests /\ holder \in SUBSET Agents
    BY <1>1 DEF Init
  <2>4. pending_writes \in Int
    BY <1>1 DEF Init
  <2>5. /\ mfenced \in BOOLEAN /\ sfenced \in BOOLEAN /\ in_process \in BOOLEAN
        /\ in_process <=> holder # {}
    BY <1>1, Zenon DEF Init
  <2>6. QED
    BY <2>1, <2>2, <2>3, <2>4, <2>5 DEF TypeOK
<1>4. LockHeld /\ Admitted
  BY <1>1, <1>2 DEF Init, LockHeld, Admitted, InLoop
<1>5. Requests
  BY <1>1, <1>2 DEF Init, Requests, Ids
<1>6. Queue
  BY <1>1, <1>2 DEF Init, Queue
<1>7. WritesCounted
  <2>1. PendingWrites = {}
    BY <1>1 DEF Init, PendingWrites
  <2>2. QED
    BY <1>1, <2>1, FS_EmptySet DEF Init, WritesCounted
<1>8. BeginInOrder /\ FenceClosed /\ NotOvertaken
  BY <1>2 DEF BeginInOrder, FenceClosed, NotOvertaken
<1>9. QED
  BY <1>3, <1>4, <1>5, <1>6, <1>7, <1>8 DEF Inv

LEMMA InvNext == Inv /\ [Next]_vars => Inv'
<1>1. SUFFICES ASSUME Inv, [Next]_vars PROVE Inv'
  OBVIOUS
<1>2. CASE AppCall
  BY <1>1, <1>2, IssueReadKeeps, IssueWriteKeeps, IssueFenceKeeps, IssueLockKeeps DEF AppCall
<1>3. CASE StartWrite
  BY <1>1, <1>3, StartWriteKeeps
<1>4. ASSUME NEW i \in Ids, Completion(i) PROVE Inv'
  BY <1>1, <1>4, SyncDoneKeeps, WriteDoneKeeps DEF Completion
<1>5. ASSUME NEW n \in Agents, ProcessFenced(n) PROVE Inv'
  <2>1. CASE TestInProcess(n)
    BY <1>1, <2>1, TestInProcessKeeps
  <2>2. CASE EnterFence(n)
    BY <1>1, <2>2, EnterFenceKeeps
  <2>3. CASE ServeFenced(n)
    BY <1>1, <2>3, RunFencedKeeps, StopAtFenceKeeps DEF ServeFenced
  <2>4. CASE LeaveFence(n)
    BY <1>1, <2>4, LeaveFenceKeeps
  <2>5. QED
    BY <1>5, <2>1, <2>2, <2>3, <2>4 DEF ProcessFenced
<1>6. CASE UNCHANGED vars
  <2>1. UNCHANGED <<pending_writes, mfenced, sfenced, pending_works, in_process, holder, pc,
                    issued, op, status>>
    BY <1>6 DEF vars
  <2>2. TypeOK' /\ LockHeld' /\ Admitted' /\ Requests' /\ Queue' /\ FenceClosed'
    BY <1>1, <2>1 DEF Inv, TypeOK, LockHeld, Admitted, Requests, Queue, IsFenced,
                      FenceClosed, PendingWrite, Begun
  <2>3. QED
    BY <1>1, <2>1, <2>2, RequestsAlone DEF Inv
<1>7. QED
  BY <1>1, <1>2, <1>3, <1>4, <1>5, <1>6 DEF Next

LEMMA InvFenceHolds == Inv => FenceHolds
<1>1. SUFFICES ASSUME Inv, NEW i \in 1..issued, NEW f \in 1..issued, NEW j \in 1..issued,
                      op[i] = "WRITE", i < f, Fences(f, j), Begun(j), Ordered(j)
               PROVE  status[i] = "done"
  BY DEF FenceHolds
<1>2. i < j
  BY <1>1 DEF Fences, Inv, TypeOK
<1>3. Begun(i) /\ ~PendingWrite(i)
  BY <1>1, <1>2 DEF Inv, BeginInOrder, NotOvertaken
<1>4. QED
  BY <1>1, <1>3 DEF Begun, PendingWrite

\* For any number of threads and requests: the counter of the fence counts the
\* pending writes, requests begin in program order, and nothing behind a
\* memory fence, a lock or an unlock begins before the writes in front of it
\* have taken effect (Worker::ProcessFenced and the ProcessLocal handlers).
THEOREM FenceCorrect == Spec => [](WritesCounted /\ FenceHolds /\ BeginInOrder)
<1>1. Inv => WritesCounted /\ FenceHolds /\ BeginInOrder
  BY InvFenceHolds DEF Inv
<1>2. QED
  BY InvInit, InvNext, <1>1, PTL DEF Spec

=============================================================================
