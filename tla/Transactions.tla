---------------------------- MODULE Transactions ----------------------------
(***************************************************************************)
(* The transaction manager of the database built on the library:           *)
(* database/txn/TransactionManager2PL.cpp, TransactionManager.h and        *)
(* TxnAccess.h.  Two-phase locking without waiting: a transaction takes a  *)
(* lock of the distributed memory on every record it touches, works on     *)
(* private copies listed in its access list, and either writes them back   *)
(* and unlocks one by one (CommitTransaction) or, when a lock is refused,  *)
(* unlocks one by one (AbortTransaction).                                  *)
(*                                                                         *)
(* The library grants locks by address to the threads of one node, but by  *)
(* block to the nodes: a try lock is also refused when another node holds  *)
(* a conflicting lock on any address of the same block.                    *)
(***************************************************************************)
EXTENDS Integers, Sequences, FiniteSets

CONSTANTS Threads,
          NodeOf(_),     \* the node a thread runs on
          BlockOf(_)     \* the block of the memory a record lies in

VARIABLES
    db,       \* the records in global memory, by address
    locks,    \* the locks held: by whom, on what, for writing or not
    acc,      \* acc[t]: the access list of the transaction of thread t
    pos,      \* pos[t]: the access that commit or abort has come to
    pc,       \* where thread t is in its procedure
    back,     \* back[t]: where it goes on when its abort is done
    mallocs   \* mallocs[t]: records that thread t has allocated

tvars == <<db, locks, acc, pos, pc, back, mallocs>>

TxnInit(records) ==
    /\ db = records
    /\ locks = {}
    /\ acc = [t \in Threads |-> <<>>]
    /\ pos = [t \in Threads |-> 1]
    /\ pc = [t \in Threads |-> "start"]
    /\ back = [t \in Threads |-> "start"]
    /\ mallocs = [t \in Threads |-> 0]

Goto(t, l) == pc' = [pc EXCEPT ![t] = l]

(***************************************************************************)
(* Try_RLock, Try_WLock and UnLock of the library.                         *)
(***************************************************************************)
Writes(type) == type # "READ_ONLY"

Conflict(t, r, type) ==
    \E l \in locks :
        /\ IF NodeOf(l.by) = NodeOf(t) THEN l.rec = r ELSE BlockOf(l.rec) = BlockOf(r)
        /\ Writes(type) \/ l.writes

TryLock(t, r, type) == locks' = locks \union {[by |-> t, rec |-> r, writes |-> Writes(type)]}

UnLockRecord(t, r) == locks' = {l \in locks : ~(l.by = t /\ l.rec = r)}

NewAccess(t, type, r, val) ==
    acc' = [acc EXCEPT ![t] = Append(@, [type |-> type, rec |-> r, val |-> val])]

(***************************************************************************)
(* SelectRecordCC: lock the record and put a copy, val as the procedure    *)
(* then changes it, on the access list; or abort, and return false.        *)
(***************************************************************************)
Selected(t, r, type, val) ==
    /\ ~Conflict(t, r, type)
    /\ TryLock(t, r, type)
    /\ NewAccess(t, type, r, val)
    /\ UNCHANGED <<db, pos, back, mallocs>>

LockRefused(t, r, type, then) ==
    /\ Conflict(t, r, type)
    /\ Goto(t, "abort")
    /\ back' = [back EXCEPT ![t] = then]
    /\ UNCHANGED <<db, locks, acc, pos, mallocs>>

(* InsertRecord, after the procedure has allocated a record and written it *)
(* (unless its access type says READ_ONLY).  The index is not told of it.  *)
NewAddr(t) == <<"malloc", t, mallocs[t]>>

InsertRecord(t, val, written) ==
    /\ mallocs' = [mallocs EXCEPT ![t] = @ + 1]
    /\ db' = IF written THEN [r \in DOMAIN db \union {NewAddr(t)} |->
                                  IF r = NewAddr(t) THEN val ELSE db[r]]
             ELSE db
    /\ IF Conflict(t, NewAddr(t), "INSERT_ONLY") THEN UNCHANGED locks
       ELSE TryLock(t, NewAddr(t), "INSERT_ONLY")
    /\ NewAccess(t, "INSERT_ONLY", NewAddr(t), val)
    /\ UNCHANGED <<pos, back>>

(***************************************************************************)
(* CommitTransaction and AbortTransaction.                                 *)
(***************************************************************************)
Access(t) == acc[t][pos[t]]

More(t) == pos[t] <= Len(acc[t])

Clear(t) ==
    /\ acc' = [acc EXCEPT ![t] = <<>>]
    /\ pos' = [pos EXCEPT ![t] = 1]

WrittenBack(t) ==
    IF Access(t).type \in {"READ_WRITE", "DELETE_ONLY"}
    THEN [db EXCEPT ![Access(t).rec] = Access(t).val] ELSE db

Freed(rs) == [r \in DOMAIN db \ rs |-> db[r]]

AccessesOf(t, type) == {acc[t][i].rec : i \in {j \in DOMAIN acc[t] : acc[t][j].type = type}}

(* A commit that releases the lock of a record before it writes it back:   *)
(* it unlocks them all, then writes them all.                              *)
CommitUnlocksFirst(t) ==
    /\ pc[t] = "commit" /\ More(t)
    /\ IF pos[t] = 1 /\ \E l \in locks : l.by = t
       THEN locks' = {l \in locks : l.by # t} /\ UNCHANGED <<db, pos>>
       ELSE /\ db' = WrittenBack(t)
            /\ pos' = [pos EXCEPT ![t] = @ + 1]
            /\ UNCHANGED locks
    /\ UNCHANGED <<acc, pc, back, mallocs>>

CommitAccess(t) ==
    /\ pc[t] = "commit" /\ More(t)
    /\ db' = WrittenBack(t)
    /\ UnLockRecord(t, Access(t).rec)
    /\ pos' = [pos EXCEPT ![t] = @ + 1]
    /\ UNCHANGED <<acc, pc, back, mallocs>>

CommitDone(t, then) ==
    /\ pc[t] = "commit" /\ ~More(t)
    /\ Clear(t)
    /\ Goto(t, then)
    /\ db' = Freed(AccessesOf(t, "DELETE_ONLY"))
    /\ UNCHANGED <<locks, back, mallocs>>

(* An abort that leaves out the access made last.                          *)
AbortMissesLast(t) ==
    /\ pc[t] = "abort" /\ More(t)
    /\ IF pos[t] < Len(acc[t]) THEN UnLockRecord(t, Access(t).rec) ELSE UNCHANGED locks
    /\ db' = IF Access(t).type = "INSERT_ONLY" THEN Freed({Access(t).rec}) ELSE db
    /\ pos' = [pos EXCEPT ![t] = @ + 1]
    /\ UNCHANGED <<acc, pc, back, mallocs>>

AbortAccess(t) ==
    /\ pc[t] = "abort" /\ More(t)
    /\ UnLockRecord(t, Access(t).rec)
    /\ db' = IF Access(t).type = "INSERT_ONLY" THEN Freed({Access(t).rec}) ELSE db
    /\ pos' = [pos EXCEPT ![t] = @ + 1]
    /\ UNCHANGED <<acc, pc, back, mallocs>>

AbortDone(t) ==
    /\ pc[t] = "abort" /\ ~More(t)
    /\ Clear(t)
    /\ Goto(t, back[t])
    /\ UNCHANGED <<db, locks, back, mallocs>>

(***************************************************************************)
(* A thread holds exactly the locks of the accesses that its commit or     *)
(* abort has not come to yet: none is leaked by a procedure that gave up   *)
(* half way, and none is released while its transaction still counts on    *)
(* it (SelectRecordCC, CommitTransaction, AbortTransaction).               *)
(***************************************************************************)
LocksMatchAccesses ==
    \A t \in Threads :
        {l.rec : l \in {m \in locks : m.by = t}} = {acc[t][i].rec : i \in pos[t]..Len(acc[t])}

(***************************************************************************)
(* What CommitTransaction has not written back yet belongs to the records  *)
(* as the other transactions will see them.                                *)
(***************************************************************************)
Unwritten(t) ==
    IF pc[t] = "commit"
    THEN {acc[t][i] : i \in {j \in pos[t]..Len(acc[t]) : acc[t][j].type = "READ_WRITE"}}
    ELSE {}

CommittedRecords(rs) ==
    LET unwritten == UNION {Unwritten(t) : t \in Threads}
    IN [r \in rs |-> IF \E a \in unwritten : a.rec = r
                     THEN (CHOOSE a \in unwritten : a.rec = r).val ELSE db[r]]
=============================================================================
