-------------------------------- MODULE Tpcc --------------------------------
(***************************************************************************)
(* The TPC-C benchmark: the nodes populate the shared tables, meet at a    *)
(* fence, and run the batches of their threads.  database/tpcc/            *)
(* TpccProcedure.h (the stored procedures), TpccBenchmarkMain.cpp (the     *)
(* phases) and database/txn/TransactionExecutor.h (the threads of a node). *)
(*                                                                         *)
(* A step is one query of a procedure, one access of a commit or of an     *)
(* abort, or one turn of the executor's loop.                              *)
(***************************************************************************)
EXTENDS TpccData, HashIndex, Transactions

CONSTANTS Batches,    \* the batches that the source may generate
          Garbage     \* what an uninitialised double may hold

VARIABLES
    fenced,    \* the nodes that have come to the fence after populating
    batch,     \* batch[t]: the parameters of the transactions of thread t
    done,      \* done[t]: transactions that have committed
    begun,     \* begun[n]: is_begin_ of the executor of node n
    finished,  \* finished[n]: is_finish_ of the executor of node n
    i,         \* i[t]: the loop counter of the procedure
    no_o_ids, c_ids, sums,   \* the fields of DeliveryProcedure
    next_o_id, \* next_o_id[t]: d_next_o_id of NewOrderProcedure
    answer     \* answer[t]: what the last transaction put into ret

xvars == <<fenced, batch, done, begun, finished>>
lvars == <<i, no_o_ids, c_ids, sums, next_o_id, answer>>
vars == <<ivars, tvars, xvars, lvars>>

Init ==
    /\ IndexInit
    /\ TxnInit(InitialRecords)
    /\ fenced = {}
    /\ batch \in Batches
    /\ done = [t \in Threads |-> 0]
    /\ begun = [n \in Nodes |-> FALSE]
    /\ finished = [n \in Nodes |-> FALSE]
    /\ i = [t \in Threads |-> 1]
    /\ no_o_ids = [t \in Threads |-> [d \in Districts |-> 0]]
    /\ c_ids = [t \in Threads |-> [d \in Districts |-> 0]]
    /\ sums \in [Threads -> [Districts -> Garbage]]
    /\ next_o_id = [t \in Threads |-> 0]
    /\ answer = [t \in Threads |-> <<>>]

(***************************************************************************)
(* The phases of a node: populate, fence, run the executor.                *)
(***************************************************************************)
Populate(n) ==
    /\ n \notin fenced
    /\ IndexInsert(n)
    /\ UNCHANGED <<tvars, xvars, lvars>>

ReachFence(n) ==
    /\ n \notin fenced
    /\ ~Populating(n)
    /\ fenced' = fenced \union {n}
    /\ UNCHANGED <<ivars, tvars, batch, done, begun, finished, lvars>>

Fence == fenced = Nodes

ThreadReady(t) ==
    /\ Fence
    /\ pc[t] = "start"
    /\ Goto(t, "ready")
    /\ UNCHANGED <<ivars, db, locks, acc, pos, back, mallocs, xvars, lvars>>

ProcessQuery(n) ==
    /\ ~begun[n]
    /\ \A t \in Threads : NodeOf(t) = n => pc[t] = "ready"
    /\ begun' = [begun EXCEPT ![n] = TRUE]
    /\ UNCHANGED <<ivars, tvars, fenced, batch, done, finished, lvars>>

(***************************************************************************)
(* ProcessQueryThread.                                                     *)
(***************************************************************************)
Param(t) == batch[t][done[t] + 1]

FirstQuery(p) ==
    CASE p.type = "NEW_ORDER" -> "no_item"
      [] p.type = "PAYMENT" -> "pay_warehouse"
      [] p.type = "DELIVERY" -> "del_district"
      [] p.type \in {"ORDER_STATUS", "STOCK_LEVEL"} -> "commit"

Execute(t) ==
    /\ pc[t] = "ready" /\ begun[NodeOf(t)]
    /\ done[t] < Len(batch[t])
    /\ Goto(t, FirstQuery(Param(t)))
    /\ i' = [i EXCEPT ![t] = 1]
    /\ answer' = [answer EXCEPT ![t] = <<>>]
    /\ UNCHANGED <<ivars, db, locks, acc, pos, back, mallocs, xvars, no_o_ids, c_ids, sums, next_o_id>>

(* Execute returned false: give up if another thread has finished, else    *)
(* execute the same transaction again.                                     *)
Failed(t) ==
    /\ pc[t] = "failed"
    /\ Goto(t, IF finished[NodeOf(t)] THEN "returned" ELSE "ready")
    /\ UNCHANGED <<ivars, db, locks, acc, pos, back, mallocs, xvars, lvars>>

BatchDone(t) ==
    /\ pc[t] = "ready" /\ begun[NodeOf(t)]
    /\ done[t] = Len(batch[t])
    /\ Goto(t, "returned")
    /\ finished' = [finished EXCEPT ![NodeOf(t)] = TRUE]
    /\ UNCHANGED <<ivars, db, locks, acc, pos, back, mallocs, fenced, batch, done, begun, lvars>>

(***************************************************************************)
(* Queries.  DB_QUERY leaves the procedure when a query returns false.     *)
(***************************************************************************)
Found(r) ==
    r \in AllRows /\ SearchRecord(TableOf(r), Keys[r]) # Gnullptr

AddrOf(r) == SearchRecord(TableOf(r), Keys[r])

Search(t, r, type, val, then, otherwise) ==
    IF Found(r)
    THEN \/ Selected(t, AddrOf(r), type, val) /\ Goto(t, then)
         \/ LockRefused(t, AddrOf(r), type, otherwise)
    ELSE Goto(t, otherwise) /\ UNCHANGED <<db, locks, acc, pos, back, mallocs>>

Query(t, r, type, val, then) == Search(t, r, type, val, then, "failed")

Succeeded(t) == pc'[t] \notin {"abort", "failed"}

(* A loop of the procedure over 1..n, at the label here: the next turn, or *)
(* the label after it with the counter back at 1.                          *)
LoopLabel(t, n, here, after) == IF i[t] < n THEN here ELSE after
LoopCount(t, n) == [i EXCEPT ![t] = IF i[t] < n THEN @ + 1 ELSE 1]

(***************************************************************************)
(* NewOrderProcedure::Execute.                                             *)
(***************************************************************************)
NewOrderItem(t) ==
    LET p == Param(t) n == Len(p.items) r == ItemRow(p.items[i[t]], p.w)
    IN /\ pc[t] = "no_item"
       /\ Query(t, r, "READ_ONLY", db[r], LoopLabel(t, n, "no_item", "no_stock"))
       /\ i' = LoopCount(t, n)
       /\ UNCHANGED <<ivars, xvars, no_o_ids, c_ids, sums, next_o_id, answer>>

NewOrderStock(t) ==
    LET p == Param(t) n == Len(p.items)
        r == StockRow(p.items[i[t]], p.supply[i[t]])
    IN /\ pc[t] = "no_stock"
       /\ Query(t, r, p.access.STOCK, Restocked(db[r], 1, p.supply[i[t]] # p.w),
                LoopLabel(t, n, "no_stock", "no_warehouse"))
       /\ i' = LoopCount(t, n)
       /\ UNCHANGED <<ivars, xvars, no_o_ids, c_ids, sums, next_o_id, answer>>

NewOrderWarehouse(t) ==
    LET r == WarehouseRow(Param(t).w)
    IN /\ pc[t] = "no_warehouse"
       /\ Query(t, r, "READ_ONLY", db[r], "no_district")
       /\ UNCHANGED <<ivars, xvars, lvars>>

NewOrderDistrict(t) ==
    LET p == Param(t) r == DistrictRow(p.d, p.w)
    IN /\ pc[t] = "no_district"
       /\ Query(t, r, p.access.DISTRICT, NextOrder(db[r]), "no_customer")
       /\ IF Succeeded(t)
          THEN /\ next_o_id' = [next_o_id EXCEPT ![t] = db[r].next_o_id]
               /\ answer' = [answer EXCEPT ![t] = <<db[r].next_o_id>>]
          ELSE UNCHANGED <<next_o_id, answer>>
       /\ UNCHANGED <<ivars, xvars, i, no_o_ids, c_ids, sums>>

NewOrderCustomer(t) ==
    LET p == Param(t) r == CustomerRow(p.c, p.d, p.w)
    IN /\ pc[t] = "no_customer"
       /\ Query(t, r, "READ_ONLY", db[r], "no_insert")
       /\ UNCHANGED <<ivars, xvars, lvars>>

(* NEW_ORDER, ORDER, and the ORDER_LINEs, in this order.                   *)
NewOrderInsert(t) ==
    LET p == Param(t)
        o == next_o_id[t]
        r == CASE i[t] = 1 -> NewOrderRow(o, p.d, p.w)
               [] i[t] = 2 -> OrderRow(o, p.d, p.w)
               [] OTHER -> OrderLineRow(o, p.d, p.w, i[t] - 2)
    IN /\ pc[t] = "no_insert"
       /\ InsertRecord(t, [row |-> r], p.access[r[1]] # "READ_ONLY")
       /\ Goto(t, LoopLabel(t, Len(p.items) + 2, "no_insert", "commit"))
       /\ i' = LoopCount(t, Len(p.items) + 2)
       /\ UNCHANGED <<ivars, xvars, no_o_ids, c_ids, sums, next_o_id, answer>>

(***************************************************************************)
(* PaymentProcedure::Execute.                                              *)
(***************************************************************************)
PaymentYtd(t, here, r, then) ==
    LET p == Param(t)
    IN /\ pc[t] = here
       /\ Query(t, r, p.access[r[1]], Paid(db[r], p.amount), then)
       /\ answer' = IF Succeeded(t) THEN [answer EXCEPT ![t] = Append(@, db[r].ytd)] ELSE answer
       /\ UNCHANGED <<ivars, xvars, i, no_o_ids, c_ids, sums, next_o_id>>

PaymentWarehouse(t) == PaymentYtd(t, "pay_warehouse", WarehouseRow(Param(t).w), "pay_district")

PaymentDistrict(t) == PaymentYtd(t, "pay_district", DistrictRow(Param(t).d, Param(t).w), "pay_customer")

PaymentCustomer(t) ==
    LET p == Param(t) r == CustomerRow(p.c, p.c_d, p.c_w)
    IN /\ pc[t] = "pay_customer"
       /\ Query(t, r, p.access.CUSTOMER, Charged(db[r], p.amount), "pay_history")
       /\ UNCHANGED <<ivars, xvars, lvars>>

PaymentHistory(t) ==
    LET p == Param(t)
    IN /\ pc[t] = "pay_history"
       /\ InsertRecord(t, [row |-> HistoryRow(p.c, p.d, p.w)], p.access.HISTORY # "READ_ONLY")
       /\ Goto(t, "commit")
       /\ UNCHANGED <<ivars, xvars, lvars>>

(***************************************************************************)
(* DeliveryProcedure::Execute: three loops over the districts of p.w.  The *)
(* last two skip the districts without an order to deliver.                *)
(***************************************************************************)
DeliveryDistrict(t) ==
    LET r == DistrictNewOrderRow(i[t], Param(t).w)
    IN /\ pc[t] = "del_district"
       /\ Query(t, r, "READ_WRITE", db[r], "del_new_order")
       /\ no_o_ids' = IF Succeeded(t) THEN [no_o_ids EXCEPT ![t][i[t]] = db[r].o_id] ELSE no_o_ids
       /\ UNCHANGED <<ivars, xvars, i, c_ids, sums, next_o_id, answer>>

(* A search, not a DB_QUERY: the procedure goes on when it returns false,   *)
(* also when it does so because SelectRecordCC has aborted the transaction. *)
DeliveryNewOrder(t) ==
    LET r == NewOrderRow(no_o_ids[t][i[t]], i[t], Param(t).w)
    IN /\ pc[t] = "del_new_order"
       /\ Search(t, r, "READ_ONLY", db[r], "del_found", "del_wrap")
       /\ UNCHANGED <<ivars, xvars, lvars>>

(* district_new_order_record->SetColumn: a change of the private copy that *)
(* DeliveryDistrict put on the access list at k, unless AbortTransaction   *)
(* has cleared the list and deleted the copy.                              *)
SetOldest(t, k, o) ==
    acc' = IF k \in DOMAIN acc[t] THEN [acc EXCEPT ![t][k].val = [o_id |-> o]] ELSE acc

NextDistrict(t) ==
    /\ Goto(t, LoopLabel(t, num_districts_per_warehouse, "del_district", "del_order"))
    /\ i' = LoopCount(t, num_districts_per_warehouse)

DeliveryFound(t) ==
    /\ pc[t] = "del_found"
    /\ SetOldest(t, Len(acc[t]) - 1, no_o_ids[t][i[t]] + 1)
    /\ NextDistrict(t)
    /\ UNCHANGED <<ivars, db, locks, pos, back, mallocs, xvars, no_o_ids, c_ids, sums, next_o_id, answer>>

DeliveryWrap(t) ==
    /\ pc[t] = "del_wrap"
    /\ SetOldest(t, Len(acc[t]), 1)
    /\ no_o_ids' = [no_o_ids EXCEPT ![t][i[t]] = -1]
    /\ NextDistrict(t)
    /\ UNCHANGED <<ivars, db, locks, pos, back, mallocs, xvars, c_ids, sums, next_o_id, answer>>

Skip(t, here, after) ==
    /\ no_o_ids[t][i[t]] = -1
    /\ Goto(t, LoopLabel(t, num_districts_per_warehouse, here, after))
    /\ i' = LoopCount(t, num_districts_per_warehouse)
    /\ UNCHANGED <<db, locks, acc, pos, back, mallocs, c_ids>>

DeliveryOrder(t) ==
    LET p == Param(t)
        r == OrderRow(no_o_ids[t][i[t]], i[t], p.w)
    IN /\ pc[t] = "del_order"
       /\ \/ Skip(t, "del_order", "del_customer")
          \/ /\ no_o_ids[t][i[t]] # -1
             /\ Query(t, r, "READ_WRITE", [db[r] EXCEPT !.carrier_id = p.carrier],
                      LoopLabel(t, num_districts_per_warehouse, "del_order", "del_customer"))
             /\ c_ids' = IF Succeeded(t) THEN [c_ids EXCEPT ![t][i[t]] = db[r].c_id] ELSE c_ids
             /\ i' = LoopCount(t, num_districts_per_warehouse)
       /\ UNCHANGED <<ivars, xvars, no_o_ids, sums, next_o_id, answer>>

DeliveryCustomer(t) ==
    LET r == CustomerRow(c_ids[t][i[t]], i[t], Param(t).w)
    IN /\ pc[t] = "del_customer"
       /\ \/ Skip(t, "del_customer", "del_done")
          \/ /\ no_o_ids[t][i[t]] # -1
             /\ Query(t, r, "READ_WRITE", Credited(db[r], sums[t][i[t]]),
                      LoopLabel(t, num_districts_per_warehouse, "del_customer", "del_done"))
             /\ i' = LoopCount(t, num_districts_per_warehouse)
             /\ UNCHANGED c_ids
       /\ UNCHANGED <<ivars, xvars, no_o_ids, sums, next_o_id, answer>>

DeliveryDone(t) ==
    /\ pc[t] = "del_done"
    /\ Goto(t, "commit")
    /\ answer' = [answer EXCEPT ![t] = no_o_ids[t]]
    /\ UNCHANGED <<ivars, db, locks, acc, pos, back, mallocs, xvars, i, no_o_ids, c_ids, sums, next_o_id>>

(***************************************************************************)
(* The end of a transaction.                                               *)
(***************************************************************************)
Committed(t) ==
    /\ CommitDone(t, IF finished[NodeOf(t)] THEN "returned" ELSE "ready")
    /\ done' = [done EXCEPT ![t] = @ + 1]
    /\ UNCHANGED <<ivars, fenced, batch, begun, finished, lvars>>

EndAccess(t) ==
    /\ CommitAccess(t) \/ AbortAccess(t) \/ AbortDone(t)
    /\ UNCHANGED <<ivars, xvars, lvars>>

Step(t) ==
    \/ ThreadReady(t) \/ Execute(t) \/ Failed(t) \/ BatchDone(t)
    \/ NewOrderItem(t) \/ NewOrderStock(t) \/ NewOrderWarehouse(t) \/ NewOrderDistrict(t)
    \/ NewOrderCustomer(t) \/ NewOrderInsert(t)
    \/ PaymentWarehouse(t) \/ PaymentDistrict(t) \/ PaymentCustomer(t) \/ PaymentHistory(t)
    \/ DeliveryDistrict(t) \/ DeliveryNewOrder(t) \/ DeliveryFound(t) \/ DeliveryWrap(t)
    \/ DeliveryOrder(t) \/ DeliveryCustomer(t) \/ DeliveryDone(t)
    \/ EndAccess(t) \/ Committed(t)

NodeStep(n) == Populate(n) \/ ReachFence(n) \/ ProcessQuery(n)

AllReturned ==
    /\ \A t \in Threads : pc[t] = "returned"
    /\ UNCHANGED vars

Next == (\E n \in Nodes : NodeStep(n)) \/ (\E t \in Threads : Step(t)) \/ AllReturned

Spec == Init /\ [][Next]_vars

(***************************************************************************)
(* When the nodes meet at the fence, a search for the key of any row of    *)
(* any of them finds that row: no insertion of two nodes into one chain is *)
(* lost (HashIndex::InsertRecord under the header's lock), no two rows of  *)
(* a table have the same key, and the radix tree leads every offset to a   *)
(* header of its own.                                                      *)
(***************************************************************************)
PopulatedFound ==
    Fence /\ (\A t \in Threads : pc[t] = "start") => \A r \in AllRows : Found(r) /\ AddrOf(r) = r

(***************************************************************************)
(* The transactions take effect one at a time: a transaction happens when  *)
(* its procedure has all its locks and calls CommitTransaction, whatever   *)
(* the other threads of this and of the other nodes are doing.  Those that *)
(* give up leave no trace, and what a procedure returns is what it would   *)
(* return if it ran alone.                                                 *)
(***************************************************************************)
Committing(t) == pc[t] = "commit"

CommittedInserts ==
    LET new == {r \in DOMAIN db : r[1] = "malloc"}
        pending == {r \in new : r \in AccessesOf(r[2], "INSERT_ONLY") /\ ~Committing(r[2])}
    IN {<<r[2], db[r].row>> : r \in new \ pending}

One == INSTANCE Serial WITH
    rows <- CommittedRecords(AllRows),
    inserted <- CommittedInserts,
    done <- [t \in Threads |-> IF Committing(t) THEN done[t] + 1 ELSE done[t]],
    answer <- [t \in Threads |-> IF Committing(t) THEN answer[t] ELSE <<>>]

Serializable == One!SerialSpec
=============================================================================
