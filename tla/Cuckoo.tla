------------------------------- MODULE Cuckoo -------------------------------
(***************************************************************************)
(* The concurrent cuckoo hash table of lib/libcuckoo, which GAM uses for   *)
(* its tables of pending requests, fences and clients (include/            *)
(* hashtable.h).  Threads run calls against one shared table.  A step of   *)
(* the model is what a thread does between two lock operations.            *)
(*                                                                         *)
(* A slot is Empty or a record [key, val].  GAM's keys are integers, so    *)
(* is_simple holds and the partial keys are never compared; a key's hash   *)
(* value is Hash[k] and HashOfTag[hv] is the product alt_index xors in.    *)
(***************************************************************************)
EXTENDS Integers, Sequences, FiniteSets, SequencesExt, Bitwise

CONSTANTS
    Threads, Keys, Vals,
    Empty, None, NoCall,
    Hash,               \* hashed_key: [Keys -> Nat]
    HashOfTag,          \* nonzero_tag * 0xc6a4a7935bd1e995 of a hash value
    SlotPerBucket,      \* slot_per_bucket
    NumLocks,           \* kNumLocks, a power of two
    MaxPathLen,         \* MAX_BFS_PATH_LEN
    MaxCuckooCount,     \* capacity of the search queue
    MinLoad,            \* minimum_load_factor, in hundredths
    MaxHashpower,       \* maximum_hashpower
    InitHashpower,      \* hashpower of the table at the start
    Stored,             \* keys inserted, in this order, before the threads start
    Calls,              \* the calls threads make: records [kind, key, val, hp]
    MaxCalls,           \* bound: calls the threads make together
    RehashAlone         \* TRUE: callers never overlap rehash with insertions

VARIABLES
    hashpower, buckets, locks, expansion, size,
    th,                 \* each thread's position and local variables
    made,               \* calls made so far
    result              \* what each thread's last call returned

vars == <<hashpower, buckets, locks, expansion, size, th, made, result>>

Slots == 0 .. SlotPerBucket - 1
LockIds == 0 .. NumLocks - 1

hashsize(hp) == 2 ^ hp
index_hash(hp, hv) == hv % hashsize(hp)
alt_index(hp, hv, i) == (i ^^ HashOfTag[hv]) % hashsize(hp)
lock_ind(i) == i % NumLocks

Occupied(b, i, s) == b[i][s] # Empty
SlotsWith(b, i, k) == {s \in Slots : Occupied(b, i, s) /\ b[i][s].key = k}
FreeSlots(b, i) == {s \in Slots : ~Occupied(b, i, s)}
FirstOf(S) == CHOOSE s \in S : \A r \in S : s <= r

(* The buckets key k may be in, and the slots of them it is in.            *)
Homes(hp, k) == LET i == index_hash(hp, Hash[k])
                IN <<i, alt_index(hp, Hash[k], i)>>
Places(b, k) == {p \in (DOMAIN b) \X Slots :
                   Occupied(b, p[1], p[2]) /\ b[p[1]][p[2]].key = k}
Contents(b) == [k \in Keys |-> {b[p[1]][p[2]].val : p \in Places(b, k)}]

setKV(b, i, s, k, v) == [b EXCEPT ![i][s] = [key |-> k, val |-> v]]
eraseKV(b, i, s) == [b EXCEPT ![i][s] = Empty]
move_to_bucket(b, i1, s1, i2, s2) == [b EXCEPT ![i2][s2] = b[i1][s1], ![i1][s1] = Empty]

(* try_find_insert_bucket on both buckets: the free slot an insert takes.  *)
InsertPlace(b, i1, i2) ==
    IF FreeSlots(b, i1) # {} THEN <<i1, FirstOf(FreeSlots(b, i1))>>
    ELSE IF FreeSlots(b, i2) # {} THEN <<i2, FirstOf(FreeSlots(b, i2))>>
    ELSE <<>>

EmptyTable(hp) == [i \in 0 .. hashsize(hp) - 1 |-> [s \in Slots |-> Empty]]

Filled ==
    LET Put(b, k) == LET h == Homes(InitHashpower, k)
                         p == InsertPlace(b, h[1], h[2])
                     IN setKV(b, p[1], p[2], k, CHOOSE v \in Vals : TRUE)
    IN FoldLeft(Put, EmptyTable(InitHashpower), Stored)
-----------------------------------------------------------------------------
(* A thread: where it is, the call it is in, the hashpower it read, its    *)
(* two buckets, the locks it still has to take and where it goes on with   *)
(* them, whether an upsert is inside cuckoo_insert_loop, and the search.   *)
NoSlot == [start |-> 0, slots |-> <<>>, bucket |-> 0]
Idle == [pc |-> "idle", op |-> NoCall, hp |-> 0, i |-> <<0, 0>>, want |-> <<>>,
         next |-> "idle", inLoop |-> FALSE, queue |-> <<>>, x |-> NoSlot,
         probe |-> 0, path |-> <<>>, depth |-> 0]
At(r, pc) == [Idle EXCEPT !.pc = pc, !.op = r.op, !.inLoop = r.inLoop,
                          !.hp = r.hp, !.i = r.i]

Held(t) == {l \in LockIds : locks[l] = t}
Released(t) == [l \in LockIds |-> IF locks[l] = t THEN None ELSE locks[l]]
Sorted(S) == [n \in 1 .. Cardinality(S) |->
                CHOOSE x \in S : Cardinality({y \in S : y < x}) = n - 1]
Wanting(r, S, next) == [r EXCEPT !.pc = "lock", !.want = Sorted(S), !.next = next]

Goto(t, r) == th' = [th EXCEPT ![t] = r]

(* The end of a call: its locks go, its result is returned.                *)
Return(t, r) ==
    /\ locks' = Released(t)
    /\ result' = [result EXCEPT ![t] = r]
    /\ Goto(t, Idle)

Init ==
    /\ hashpower = InitHashpower
    /\ buckets = Filled
    /\ locks = [l \in LockIds |-> None]
    /\ expansion = None
    /\ size = Len(Stored)
    /\ th = [t \in Threads |-> Idle]
    /\ made = 0
    /\ result = [t \in Threads |-> <<>>]

Inserting(c) == c # NoCall /\ c.kind \in {"insert", "upsert"}
Rehashing(c) == c # NoCall /\ c.kind = "rehash"

Call(t) ==
    /\ th[t].pc = "idle"
    /\ made < MaxCalls
    /\ \E c \in Calls :
          /\ RehashAlone =>
               \A u \in Threads \ {t} :
                  /\ Rehashing(c) => ~Inserting(th[u].op)
                  /\ Inserting(c) => ~Rehashing(th[u].op)
          /\ Goto(t, [Idle EXCEPT !.op = c,
                        !.pc = CASE c.kind = "rehash" -> "rehash"
                                 [] c.kind \in {"clear", "iterate"} -> "lockall"
                                 [] OTHER -> "snap"])
    /\ made' = made + 1
    /\ UNCHANGED <<hashpower, buckets, locks, expansion, size, result>>
-----------------------------------------------------------------------------
(* snapshot_and_lock_two: the buckets under the current hashpower, then    *)
(* their locks in ascending order.                                         *)
Snapshot(t) ==
    /\ th[t].pc = "snap"
    /\ LET h == Homes(hashpower, th[t].op.key)
       IN Goto(t, Wanting([At(th[t], "lock") EXCEPT !.hp = hashpower, !.i = h],
                          {lock_ind(h[1]), lock_ind(h[2])}, "body"))
    /\ UNCHANGED <<hashpower, buckets, locks, expansion, size, made, result>>

LockAll(t) ==
    /\ th[t].pc = "lockall"
    /\ Goto(t, Wanting(th[t], LockIds, "all"))
    /\ UNCHANGED <<hashpower, buckets, locks, expansion, size, made, result>>

(* Only the first lock of lock_one, lock_two and lock_three is followed by *)
(* check_hashpower; snapshot_and_lock_all has no check.                    *)
Checks(t) == Held(t) = {} /\ th[t].next \in {"body", "move"}

(* lock_two, lock_three and snapshot_and_lock_all take one more lock.      *)
Lock(t) ==
    /\ th[t].pc = "lock"
    /\ LET r == th[t] l == Head(r.want)
       IN /\ locks[l] = None
          /\ Checks(t) => hashpower = r.hp
          /\ locks' = [locks EXCEPT ![l] = t]
          /\ Goto(t, [r EXCEPT !.want = Tail(@),
                               !.pc = IF Len(r.want) = 1 THEN r.next ELSE "lock"])
    /\ UNCHANGED <<hashpower, buckets, expansion, size, made, result>>

(* The bucket whose lock a search step of run_cuckoo is about to take.     *)
PathBucket(r) ==
    LET n == Len(r.path)
    IN IF n = 0 THEN r.i[r.x.start + 1]
       ELSE alt_index(r.hp, r.path[n].hv, r.path[n].bucket)
NextLock(r) == CASE r.pc = "lock" -> Head(r.want)
                 [] r.pc = "search" -> lock_ind(r.x.bucket)
                 [] r.pc = "path" -> lock_ind(PathBucket(r))

(* check_hashpower fails: the lock just taken goes again and the whole     *)
(* operation restarts from a new snapshot.                                 *)
HashpowerChanged(t) ==
    /\ th[t].pc \in {"search", "path"} \/ (th[t].pc = "lock" /\ Checks(t))
    /\ locks[NextLock(th[t])] = None
    /\ hashpower # th[t].hp
    /\ Goto(t, At(th[t], "snap"))
    /\ UNCHANGED <<hashpower, buckets, locks, expansion, size, made, result>>
-----------------------------------------------------------------------------
(* The calls that work under the locks of the key's two buckets.           *)
Body(t, kind) == th[t].pc = "body" /\ th[t].op.kind = kind
cuckoo_contains(t) == \E n \in 1 .. 2 : SlotsWith(buckets, th[t].i[n], th[t].op.key) # {}

(* The slot the first of the two bucket scans ends on.                     *)
FoundAt(t) ==
    LET i == IF SlotsWith(buckets, th[t].i[1], th[t].op.key) # {} THEN th[t].i[1] ELSE th[t].i[2]
    IN <<i, FirstOf(SlotsWith(buckets, i, th[t].op.key))>>
cuckoo_find(t) ==
    IF cuckoo_contains(t) THEN <<"value", buckets[FoundAt(t)[1]][FoundAt(t)[2]].val>>
    ELSE <<"none">>
Assign(t, p) == buckets' = setKV(buckets, p[1], p[2], th[t].op.key, th[t].op.val)
cuckoo_update(t) ==
    IF cuckoo_contains(t) THEN Assign(t, FoundAt(t)) ELSE UNCHANGED buckets
cuckoo_delete(t) ==
    IF cuckoo_contains(t)
    THEN buckets' = eraseKV(buckets, FoundAt(t)[1], FoundAt(t)[2]) /\ size' = size - 1
    ELSE UNCHANGED <<buckets, size>>

Find(t) ==
    /\ Body(t, "find")
    /\ Return(t, cuckoo_find(t))
    /\ UNCHANGED <<hashpower, buckets, expansion, size, made>>

HasKey(t) ==
    /\ Body(t, "contains")
    /\ Return(t, <<"is", cuckoo_contains(t)>>)
    /\ UNCHANGED <<hashpower, buckets, expansion, size, made>>

Update(t) ==
    /\ Body(t, "update")
    /\ cuckoo_update(t)
    /\ Return(t, <<"is", cuckoo_contains(t)>>)
    /\ UNCHANGED <<hashpower, expansion, size, made>>

Erase(t) ==
    /\ Body(t, "erase")
    /\ cuckoo_delete(t)
    /\ Return(t, <<"is", cuckoo_contains(t)>>)
    /\ UNCHANGED <<hashpower, expansion, made>>
-----------------------------------------------------------------------------
(* insert, upsert and the loops around cuckoo_insert.                      *)
Success(t) == IF th[t].op.kind = "upsert" THEN <<>> ELSE <<"is", TRUE>>

add_to_bucket(t, p) == Assign(t, p) /\ size' = size + 1

(* failure_key_duplicated ends an insert; an upsert starts over.           *)
Duplicated(t) ==
    IF th[t].op.kind = "insert"
    THEN Return(t, <<"is", FALSE>>)
    ELSE /\ Goto(t, [At(th[t], "snap") EXCEPT !.inLoop = FALSE])
         /\ locks' = Released(t)
         /\ UNCHANGED result

(* cuckoo_update_fn, the first half of an upsert.                          *)
UpsertUpdates(t) ==
    /\ Body(t, "upsert")
    /\ ~th[t].inLoop
    /\ cuckoo_contains(t)
    /\ cuckoo_update(t)
    /\ Return(t, <<>>)
    /\ UNCHANGED <<hashpower, expansion, size, made>>

InsertBody(t) ==
    /\ th[t].pc = "body"
    /\ \/ th[t].op.kind = "insert"
       \/ th[t].op.kind = "upsert" /\ (th[t].inLoop \/ ~cuckoo_contains(t))

InsertDuplicate(t) ==
    /\ InsertBody(t)
    /\ cuckoo_contains(t)
    /\ Duplicated(t)
    /\ UNCHANGED <<hashpower, buckets, expansion, size, made>>

InsertFree(t) ==
    /\ InsertBody(t)
    /\ ~cuckoo_contains(t)
    /\ LET p == InsertPlace(buckets, th[t].i[1], th[t].i[2])
       IN p # <<>> /\ add_to_bucket(t, p)
    /\ Return(t, Success(t))
    /\ UNCHANGED <<hashpower, expansion, made>>

(* slot_search starts with both buckets in its queue; x is the b_slot      *)
(* dequeued and probe the number of its slots looked at.                   *)
Searching(r) ==
    LET b(n) == [start |-> n, slots |-> <<>>, bucket |-> r.i[n + 1]]
    IN [At(r, "search") EXCEPT !.x = b(0), !.queue = <<b(1)>>]

(* run_cuckoo lets the locks go before it looks for a path.                *)
InsertFull(t) ==
    /\ InsertBody(t)
    /\ ~cuckoo_contains(t)
    /\ InsertPlace(buckets, th[t].i[1], th[t].i[2]) = <<>>
    /\ locks' = Released(t)
    /\ Goto(t, Searching(th[t]))
    /\ UNCHANGED <<hashpower, buckets, expansion, size, made, result>>

QueueFull(q) == Len(q) >= MaxCuckooCount - 1

(* The slot slot_search looks at: it starts from the last one of the path. *)
ProbedSlot(r) ==
    ((IF r.x.slots = <<>> THEN r.x.start ELSE Last(r.x.slots)) + r.probe) % SlotPerBucket

(* One iteration of slot_search, under the lock of the bucket: a free slot *)
(* ends it, an occupied one adds the other bucket of its key to the queue. *)
SearchSlot(t) ==
    /\ th[t].pc = "search"
    /\ LET r == th[t]
           s == ProbedSlot(r)
           slots == Append(r.x.slots, s)
       IN /\ locks[lock_ind(r.x.bucket)] = None
          /\ hashpower = r.hp
          /\ IF ~Occupied(buckets, r.x.bucket, s)
             THEN Goto(t, [At(r, "path") EXCEPT !.x = [r.x EXCEPT !.slots = slots]])
             ELSE LET hv == Hash[buckets[r.x.bucket][s].key]
                      y == [start |-> r.x.start, slots |-> slots,
                            bucket |-> alt_index(r.hp, hv, r.x.bucket)]
                      q == IF Len(r.x.slots) < MaxPathLen - 1 THEN Append(r.queue, y) ELSE r.queue
                  IN Goto(t, CASE r.probe + 1 < SlotPerBucket /\ ~QueueFull(q) ->
                                    [r EXCEPT !.queue = q, !.probe = @ + 1]
                               [] QueueFull(q) \/ q = <<>> -> At(r, "full")
                               [] OTHER -> [r EXCEPT !.queue = Tail(q), !.x = Head(q), !.probe = 0])
    /\ UNCHANGED <<hashpower, buckets, locks, expansion, size, made, result>>

\* Mutant: the last displacement locks only the two buckets it works on.
MoveLocksPair(r) ==
    LET b(n) == lock_ind(r.path[n + 1].bucket)
    IN IF r.depth = 0 THEN {lock_ind(r.i[1]), lock_ind(r.i[2])} ELSE {b(r.depth - 1), b(r.depth)}

(* The locks cuckoopath_move takes next: at depth 0 or 1 the two insert    *)
(* buckets have to be locked at the end, so they are part of it.           *)
MoveLocks(r) ==
    LET b(n) == lock_ind(r.path[n + 1].bucket)
    IN CASE r.depth = 0 -> {lock_ind(r.i[1]), lock_ind(r.i[2])}
         [] r.depth = 1 -> {lock_ind(r.i[1]), lock_ind(r.i[2]), b(1)}
         [] OTHER -> {b(r.depth - 1), b(r.depth)}
Moving(r) == Wanting(r, MoveLocks(r), "move")

(* cuckoopath_search, one bucket of the path: the slots are those found,   *)
(* the buckets are computed again from the keys that are there now.        *)
PathSlot(t) ==
    /\ th[t].pc = "path"
    /\ LET r == th[t]
           n == Len(r.path)
           i == PathBucket(r)
           s == r.x.slots[n + 1]
           hv == IF Occupied(buckets, i, s) THEN Hash[buckets[i][s].key] ELSE 0
           p == [r EXCEPT !.path = Append(@, [bucket |-> i, slot |-> s, hv |-> hv])]
       IN /\ locks[lock_ind(i)] = None
          /\ hashpower = r.hp
          /\ Goto(t, IF Occupied(buckets, i, s) /\ n + 1 < Len(r.x.slots)
                     THEN p ELSE Moving([p EXCEPT !.depth = n, !.x = NoSlot]))
    /\ UNCHANGED <<hashpower, buckets, locks, expansion, size, made, result>>

(* What cuckoopath_move checks once it holds the locks again.              *)
PathStillValid(r) ==
    LET to == r.path[r.depth + 1]
        from == r.path[r.depth]
    IN IF r.depth = 0 THEN ~Occupied(buckets, to.bucket, to.slot)
       ELSE /\ Occupied(buckets, from.bucket, from.slot)
            /\ Hash[buckets[from.bucket][from.slot].key] = from.hv
            /\ ~Occupied(buckets, to.bucket, to.slot)

PathLost(t) ==
    /\ th[t].pc = "move"
    /\ ~PathStillValid(th[t])
    /\ locks' = Released(t)
    /\ Goto(t, Searching(th[t]))
    /\ UNCHANGED <<hashpower, buckets, expansion, size, made, result>>

(* One displacement.  After the last, and at depth 0, the two insert       *)
(* buckets stay locked and the freed slot is the first of the path.        *)
MoveKey(t) ==
    /\ th[t].pc = "move"
    /\ PathStillValid(th[t])
    /\ LET r == th[t]
           to == r.path[r.depth + 1]
           from == r.path[r.depth]
           kept == {lock_ind(r.i[1]), lock_ind(r.i[2])}
       IN /\ buckets' = IF r.depth = 0 THEN buckets
                        ELSE move_to_bucket(buckets, from.bucket, from.slot, to.bucket, to.slot)
          /\ IF r.depth <= 1
             THEN /\ locks' = [l \in LockIds |-> IF l \in Held(t) \ kept THEN None ELSE locks[l]]
                  /\ Goto(t, [At(r, "add") EXCEPT !.path = <<r.path[1]>>])
             ELSE /\ locks' = Released(t)
                  /\ Goto(t, Moving([r EXCEPT !.depth = @ - 1]))
    /\ UNCHANGED <<hashpower, expansion, size, made, result>>

\* Mutant: the key is added without looking for it again.
AddUnchecked(t) ==
    /\ th[t].pc = "add"
    /\ add_to_bucket(t, <<th[t].path[1].bucket, th[t].path[1].slot>>)
    /\ Return(t, Success(t))
    /\ UNCHANGED <<hashpower, expansion, made>>

(* Back in cuckoo_insert with the locks: the key may have come in since.   *)
AddToFreed(t) ==
    /\ th[t].pc = "add"
    /\ IF cuckoo_contains(t)
       THEN Duplicated(t) /\ UNCHANGED <<buckets, size>>
       ELSE /\ add_to_bucket(t, <<th[t].path[1].bucket, th[t].path[1].slot>>)
            /\ Return(t, Success(t))
    /\ UNCHANGED <<hashpower, expansion, made>>
-----------------------------------------------------------------------------
(* failure_table_full: the checks that throw, then cuckoo_fast_double.     *)
InInsertLoop(t) == th[t].op.kind = "insert" \/ th[t].inLoop
LoadTooLow(hp) == size * 100 < MinLoad * SlotPerBucket * hashsize(hp)

TableFull(t) ==
    /\ th[t].pc = "full"
    /\ IF (InInsertLoop(t) /\ LoadTooLow(th[t].hp)) \/ th[t].hp + 1 > MaxHashpower
       THEN Return(t, <<"throw">>)
       ELSE Goto(t, At(th[t], "expand")) /\ UNCHANGED <<locks, result>>
    /\ UNCHANGED <<hashpower, buckets, expansion, size, made>>

(* After an expansion, its own or another's, the insertion is tried again; *)
(* an upsert goes on in cuckoo_insert_loop.                                *)
Retry(t) == [At(th[t], "snap") EXCEPT !.inLoop = (th[t].op.kind = "upsert")]

TakeExpansionLock(t) ==
    /\ th[t].pc = "expand"
    /\ expansion = None
    /\ IF hashpower # th[t].hp
       THEN Goto(t, Retry(t)) /\ UNCHANGED expansion
       ELSE /\ expansion' = t
            /\ Goto(t, Wanting(th[t], LockIds, "double"))
    /\ UNCHANGED <<hashpower, buckets, locks, size, made, result>>

Double(t) ==
    /\ th[t].pc = "double"
    /\ LET n == Cardinality(DOMAIN buckets)
       IN buckets' = [i \in 0 .. 2 * n - 1 |->
                        IF i < n THEN buckets[i] ELSE [s \in Slots |-> Empty]]
    /\ hashpower' = th[t].hp + 1
    /\ Goto(t, At(th[t], "moving"))
    /\ UNCHANGED <<locks, expansion, size, made, result>>

\* Mutant: only the first bucket of a key is considered.
LeavingFirst(b, hp, i) ==
    {s \in Slots :
       /\ Occupied(b, i, s)
       /\ i = Homes(hp, b[i][s].key)[1]
       /\ Homes(hp + 1, b[i][s].key)[1] = i + hashsize(hp)}

(* The slots of bucket i whose key belongs in the new upper half.          *)
Leaving(b, hp, i) ==
    {s \in Slots :
       /\ Occupied(b, i, s)
       /\ LET old == Homes(hp, b[i][s].key)
              new == Homes(hp + 1, b[i][s].key)
          IN \E n \in 1 .. 2 : i = old[n] /\ new[n] = i + hashsize(hp)}

SplitBucket(b, hp, i) ==
    LET out == Sorted(Leaving(b, hp, i))
    IN [b EXCEPT ![i] = [s \in Slots |-> IF s \in Leaving(b, hp, i) THEN Empty ELSE b[i][s]],
                 ![i + hashsize(hp)] =
                    [s \in Slots |-> IF s < Len(out) THEN b[i][out[s + 1]] ELSE b[i + hashsize(hp)][s]]]

OldLocks(t) == {l \in LockIds : l < hashsize(th[t].hp)}

(* move_buckets for one lock: several cores run it on ranges of the locks, *)
(* so the locks go in any order.                                           *)
MoveBuckets(t) ==
    /\ th[t].pc = "moving"
    /\ \E l \in Held(t) \cap OldLocks(t) :
          /\ buckets' = FoldLeft(LAMBDA b, i : SplitBucket(b, th[t].hp, i), buckets,
                                 Sorted({i \in 0 .. hashsize(th[t].hp) - 1 : lock_ind(i) = l}))
          /\ locks' = [locks EXCEPT ![l] = None]
    /\ UNCHANGED <<hashpower, expansion, size, th, made, result>>

(* Only then are the locks of the new buckets opened, again in any order.  *)
OpenNewBuckets(t) ==
    /\ th[t].pc = "moving"
    /\ Held(t) \cap OldLocks(t) = {}
    /\ \E l \in Held(t) : locks' = [locks EXCEPT ![l] = None]
    /\ UNCHANGED <<hashpower, buckets, expansion, size, th, made, result>>

ExpansionDone(t) ==
    /\ th[t].pc = "moving"
    /\ Held(t) = {}
    /\ expansion' = None
    /\ Goto(t, Retry(t))
    /\ UNCHANGED <<hashpower, buckets, locks, size, made, result>>
-----------------------------------------------------------------------------
(* The calls that take every lock: clear, lock_table and rehash.           *)
All(t, kind) == th[t].pc = "all" /\ th[t].op.kind = kind

Clear(t) ==
    /\ All(t, "clear")
    /\ buckets' = [i \in DOMAIN buckets |-> [s \in Slots |-> Empty]]
    /\ size' = 0
    /\ Return(t, <<>>)
    /\ UNCHANGED <<hashpower, expansion, made>>

(* The iterators of a locked_table: ++ goes to the next occupied slot, in  *)
(* the order of buckets and slots, or to the end; begin() starts at the    *)
(* first slot and moves on when that is empty.                             *)
EndPos == <<Cardinality(DOMAIN buckets), 0>>
Advance(p) ==
    LET after == {q \in (DOMAIN buckets) \X Slots :
                    /\ Occupied(buckets, q[1], q[2])
                    /\ q[1] > p[1] \/ (q[1] = p[1] /\ q[2] > p[2])}
        i == FirstOf({q[1] : q \in after})
    IN IF after = {} THEN EndPos
       ELSE <<i, FirstOf({q[2] : q \in {r \in after : r[1] = i}})>>
BeginPos == IF Occupied(buckets, 0, 0) THEN <<0, 0>> ELSE Advance(<<0, 0>>)
Walk[n \in Nat] == IF n = 0 THEN <<BeginPos>> ELSE Append(Walk[n - 1], Advance(Last(Walk[n - 1])))
Visited == {p \in ToSet(Walk[Cardinality(DOMAIN buckets) * SlotPerBucket]) : p # EndPos}

Iterate(t) ==
    /\ All(t, "iterate")
    /\ Return(t, <<"all", {<<buckets[p[1]][p[2]].key, buckets[p[1]][p[2]].val>> : p \in Visited}>>)
    /\ UNCHANGED <<hashpower, buckets, expansion, size, made>>

(* rehash and reserve read the hashpower before they have a lock; op.hp is *)
(* the hashpower asked for.                                                *)
StartRehash(t) ==
    /\ th[t].pc = "rehash"
    /\ IF th[t].op.hp = hashpower THEN Return(t, <<"is", FALSE>>)
       ELSE IF th[t].op.hp > MaxHashpower THEN Return(t, <<"throw">>)
       ELSE /\ Goto(t, [At(th[t], "lockall") EXCEPT !.hp = hashpower])
            /\ UNCHANGED <<locks, result>>
    /\ UNCHANGED <<hashpower, buckets, expansion, size, made>>

(* cuckoo_expand_simple: a new table is filled by several threads, so a    *)
(* key may end in either of its buckets, and the new table doubles itself  *)
(* when the keys do not fit.                                               *)
StoredKeys == {k \in Keys : Places(buckets, k) # {}}
Layouts(hp) ==
    {f \in [StoredKeys -> {1, 2} \X Slots] :
       \A j, k \in StoredKeys :
          j # k => <<Homes(hp, j)[f[j][1]], f[j][2]>> # <<Homes(hp, k)[f[k][1]], f[k][2]>>}
Laid(hp, f) ==
    FoldSet(LAMBDA k, b : LET p == CHOOSE p \in Places(buckets, k) : TRUE
                          IN setKV(b, Homes(hp, k)[f[k][1]], f[k][2], k, buckets[p[1]][p[2]].val),
            EmptyTable(hp), StoredKeys)

Rehash(t) ==
    /\ All(t, "rehash")
    /\ LET n == th[t].op.hp
           overtaken == IF n > th[t].hp THEN n <= hashpower ELSE n >= hashpower
       IN IF overtaken
          THEN Return(t, <<"is", FALSE>>) /\ UNCHANGED <<hashpower, buckets>>
          ELSE /\ \E hp \in n .. MaxHashpower :
                     /\ \A m \in n .. hp - 1 : Layouts(m) = {}
                     /\ hashpower' = hp
                     /\ \E f \in Layouts(hp) : buckets' = Laid(hp, f)
               /\ Return(t, <<"is", TRUE>>)
    /\ UNCHANGED <<expansion, size, made>>
-----------------------------------------------------------------------------
Step(t) ==
    \/ Call(t) \/ Snapshot(t) \/ LockAll(t) \/ Lock(t) \/ HashpowerChanged(t)
    \/ Find(t) \/ HasKey(t) \/ Update(t) \/ Erase(t)
    \/ UpsertUpdates(t) \/ InsertDuplicate(t) \/ InsertFree(t) \/ InsertFull(t)
    \/ SearchSlot(t) \/ PathSlot(t) \/ PathLost(t) \/ MoveKey(t) \/ AddToFreed(t)
    \/ TableFull(t) \/ TakeExpansionLock(t) \/ Double(t)
    \/ MoveBuckets(t) \/ OpenNewBuckets(t) \/ ExpansionDone(t)
    \/ Clear(t) \/ Iterate(t) \/ StartRehash(t) \/ Rehash(t)

Finished ==
    /\ made = MaxCalls
    /\ \A t \in Threads : th[t].pc = "idle"
    /\ UNCHANGED vars

Next == (\E t \in Threads : Step(t)) \/ Finished

Spec == Init /\ [][Next]_vars
-----------------------------------------------------------------------------
(* Every thread sees one atomic map: a search never misses a key that      *)
(* displacements or a doubling of the table are moving, two inserts of one *)
(* key never both succeed, and nothing stored is lost or appears twice.    *)
Dict == INSTANCE Dictionary WITH
            dict <- Contents(buckets),
            pending <- [t \in Threads |-> th[t].op],
            result <- result
ImplementsDictionary == Dict!DictSpec

(* No key is stored twice, and a key is where a search for it looks: in    *)
(* one of its two buckets, except while its bucket is still locked by an   *)
(* expansion that has not split it yet.                                    *)
KeysFindable ==
    \A k \in Keys :
       /\ Cardinality(Places(buckets, k)) <= 1
       /\ \A p \in Places(buckets, k) :
            \/ p[1] \in {Homes(hashpower, k)[1], Homes(hashpower, k)[2]}
            \/ \E t \in Threads :
                  /\ th[t].pc = "moving"
                  /\ locks[lock_ind(p[1])] = t
                  /\ p[1] \in {Homes(th[t].hp, k)[1], Homes(th[t].hp, k)[2]}

(* The assertions of run_cuckoo and cuckoo_insert: when a search for room  *)
(* has succeeded both insert buckets are locked, are still the buckets of  *)
(* the key, and the freed slot is one of theirs and empty.                 *)
FreedSlotIsOurs ==
    \A t \in Threads : th[t].pc = "add" =>
       LET r == th[t]
       IN /\ {lock_ind(r.i[1]), lock_ind(r.i[2])} = Held(t)
          /\ r.i = Homes(hashpower, r.op.key)
          /\ r.path[1].bucket \in {r.i[1], r.i[2]}
          /\ ~Occupied(buckets, r.path[1].bucket, r.path[1].slot)
=============================================================================
