------------------------------- MODULE Serial -------------------------------
(***************************************************************************)
(* What the stored procedures of database/tpcc/TpccProcedure.h promise:    *)
(* every transaction happens in one step on the whole database, in some    *)
(* order, and every thread's transactions in the order of its batch.  The  *)
(* SQL statements quoted there say what each one reads and writes.         *)
(***************************************************************************)
EXTENDS TpccData

CONSTANTS Threads, Batches

VARIABLES
    rows,      \* the populated rows
    inserted,  \* the rows inserted, and by whom
    batch,     \* batch[t]: the parameters of the transactions of thread t
    sums,      \* sums[t][d]: the amount that a Delivery of t credits
    done,      \* done[t]: how many of its transactions have happened
    answer     \* answer[t]: what the last one returned

svars == <<rows, inserted, batch, sums, done, answer>>

SerialInit ==
    /\ rows = InitialRecords
    /\ inserted = {}
    /\ batch \in Batches
    /\ sums \in [Threads -> [Districts -> Int]]
    /\ done = [t \in Threads |-> 0]
    /\ answer = [t \in Threads |-> <<>>]

Happen(t, new, ins, ans) ==
    /\ done' = [done EXCEPT ![t] = @ + 1]
    /\ answer' = [answer EXCEPT ![t] = ans]
    /\ rows' = new
    /\ inserted' = inserted \union {<<t, r>> : r \in ins}
    /\ UNCHANGED <<batch, sums>>

NewOrderHappens(t, p) ==
    LET district == DistrictRow(p.d, p.w)
        o == rows[district].next_o_id
        stocks == [k \in DOMAIN p.items |-> StockRow(p.items[k], p.supply[k])]
        New(r) == IF r = district /\ p.access.DISTRICT = "READ_WRITE" THEN NextOrder(rows[r])
                  ELSE IF \E k \in DOMAIN stocks : stocks[k] = r /\ p.access.STOCK = "READ_WRITE"
                       THEN Restocked(rows[r], 1, r[2] # p.w)
                  ELSE rows[r]
    IN Happen(t, [r \in DOMAIN rows |-> New(r)],
              {r \in {NewOrderRow(o, p.d, p.w), OrderRow(o, p.d, p.w)}
                        \union {OrderLineRow(o, p.d, p.w, k) : k \in DOMAIN p.items} :
                  p.access[r[1]] # "READ_ONLY"},
              <<o>>)

PaymentHappens(t, p) ==
    LET writes == {r \in DOMAIN rows : /\ r[1] \in DOMAIN p.access
                                       /\ p.access[r[1]] = "READ_WRITE"}
        New(r) == IF r \notin writes THEN rows[r]
                  ELSE IF r = WarehouseRow(p.w) \/ r = DistrictRow(p.d, p.w) THEN Paid(rows[r], p.amount)
                  ELSE IF r = CustomerRow(p.c, p.c_d, p.c_w) THEN Charged(rows[r], p.amount)
                  ELSE rows[r]
    IN Happen(t, [r \in DOMAIN rows |-> New(r)],
              IF p.access.HISTORY = "READ_ONLY" THEN {} ELSE {HistoryRow(p.c, p.d, p.w)},
              <<rows[WarehouseRow(p.w)].ytd, rows[DistrictRow(p.d, p.w)].ytd>>)

DeliveryHappens(t, p) ==
    LET oldest(d) == rows[DistrictNewOrderRow(d, p.w)].o_id
        some == {d \in Districts : NewOrderRow(oldest(d), d, p.w) \in DOMAIN rows}
        order(d) == OrderRow(oldest(d), d, p.w)
        New(r) == IF r[1] = "DISTRICT_NEW_ORDER" /\ r[2] = p.w
                  THEN [o_id |-> IF r[3] \in some THEN rows[r].o_id + 1 ELSE 1]
                  ELSE IF \E d \in some : r = order(d) THEN [rows[r] EXCEPT !.carrier_id = p.carrier]
                  ELSE IF \E d \in some : r = CustomerRow(rows[order(d)].c_id, d, p.w)
                       THEN Credited(rows[r], sums[t][r[3]])
                  ELSE rows[r]
    IN Happen(t, [r \in DOMAIN rows |-> New(r)], {},
              [d \in Districts |-> IF d \in some THEN oldest(d) ELSE -1])

Happens(t) ==
    /\ done[t] < Len(batch[t])
    /\ LET p == batch[t][done[t] + 1]
       IN \/ p.type = "NEW_ORDER" /\ NewOrderHappens(t, p)
          \/ p.type = "PAYMENT" /\ PaymentHappens(t, p)
          \/ p.type = "DELIVERY" /\ DeliveryHappens(t, p)
          \/ p.type \in {"ORDER_STATUS", "STOCK_LEVEL"} /\ Happen(t, rows, {}, <<>>)

(* The executor throws the answer away.                                    *)
Forget(t) ==
    /\ answer' = [answer EXCEPT ![t] = <<>>]
    /\ UNCHANGED <<rows, inserted, batch, sums, done>>

SerialSpec == SerialInit /\ [][\E t \in Threads : Happens(t) \/ Forget(t)]_svars
=============================================================================
