------------------------------ MODULE TpccData ------------------------------
(***************************************************************************)
(* The TPC-C database that the nodes populate before they run transactions *)
(* on it: database/tpcc/TpccPopulator.h and TpccKeyGenerator.h.  A row is  *)
(* named by its table and its identifiers <<table, warehouse, district,    *)
(* id, line>>, zero where the table has no such column; the name also      *)
(* stands for the address at which the populator stored it.  Of the        *)
(* columns, those that some transaction changes are kept.                  *)
(***************************************************************************)
EXTENDS Integers, Sequences, Bitwise

CONSTANTS starting_warehouse, ending_warehouse,  \* the warehouses of each node
          num_items, num_districts_per_warehouse, num_customers_per_district,
          num_new_orders_per_district,
          order_lines,          \* lines of every populated order
          kWarehouseBits, kTableIdLowBits, kDistrictLowBits, kOrderIdLowBits,
          kKeyBits              \* bits of an IndexKey (64): the warehouse is shifted out at the top

Districts == 1..num_districts_per_warehouse

TableId == [ITEM |-> 0, STOCK |-> 1, WAREHOUSE |-> 2, DISTRICT |-> 3, DISTRICT_NEW_ORDER |-> 4,
            NEW_ORDER |-> 5, ORDER |-> 6, ORDER_LINE |-> 7, CUSTOMER |-> 8, HISTORY |-> 9]

Tables == DOMAIN TableId

(***************************************************************************)
(* The rows, and the key under which the index knows each of them: the     *)
(* identifiers shifted into one integer.                                   *)
(***************************************************************************)
ItemRow(i, w) == <<"ITEM", w, 0, i, 0>>
StockRow(i, w) == <<"STOCK", w, 0, i, 0>>
WarehouseRow(w) == <<"WAREHOUSE", w, 0, 0, 0>>
DistrictRow(d, w) == <<"DISTRICT", w, d, 0, 0>>
DistrictNewOrderRow(d, w) == <<"DISTRICT_NEW_ORDER", w, d, 0, 0>>
CustomerRow(c, d, w) == <<"CUSTOMER", w, d, c, 0>>
HistoryRow(c, d, w) == <<"HISTORY", w, d, c, 0>>
OrderRow(o, d, w) == <<"ORDER", w, d, o, 0>>
NewOrderRow(o, d, w) == <<"NEW_ORDER", w, d, o, 0>>
OrderLineRow(o, d, w, l) == <<"ORDER_LINE", w, d, o, l>>

TableOf(r) == r[1]

KeyBase(r) == ((r[2] * 2^kWarehouseBits) % 2^kKeyBits) | (TableId[r[1]] * 2^kTableIdLowBits)

GetItemPrimaryKey(r) == KeyBase(r) | r[4]
GetDistrictPrimaryKey(r) == KeyBase(r) | (r[3] * 2^kDistrictLowBits)
GetCustomerPrimaryKey(r) == GetDistrictPrimaryKey(r) | r[4]
GetOrderPrimaryKey(r) == GetDistrictPrimaryKey(r) | (r[4] * 2^kOrderIdLowBits)
GetOrderLinePrimaryKey(r) == GetOrderPrimaryKey(r) | r[5]

PrimaryKey(r) ==
    CASE r[1] \in {"ITEM", "STOCK"} -> GetItemPrimaryKey(r)
      [] r[1] = "WAREHOUSE" -> KeyBase(r)
      [] r[1] \in {"DISTRICT", "DISTRICT_NEW_ORDER"} -> GetDistrictPrimaryKey(r)
      [] r[1] \in {"CUSTOMER", "HISTORY"} -> GetCustomerPrimaryKey(r)
      [] r[1] \in {"ORDER", "NEW_ORDER"} -> GetOrderPrimaryKey(r)
      [] r[1] = "ORDER_LINE" -> GetOrderLinePrimaryKey(r)

(***************************************************************************)
(* StartPopulate: the rows of a node, in the order it inserts them.        *)
(***************************************************************************)
initial_new_order_id == num_customers_per_district - num_new_orders_per_district + 1

Concat(n, RowsAt(_)) ==
    LET rows[k \in 0..n] == IF k = 0 THEN <<>> ELSE rows[k - 1] \o RowsAt(k)
    IN rows[n]

CustomerRows(d, w) ==
    Concat(num_customers_per_district, LAMBDA c : <<CustomerRow(c, d, w), HistoryRow(c, d, w)>>)

OrderRows(d, w) ==
    Concat(num_customers_per_district, LAMBDA o :
        <<OrderRow(o, d, w)>> \o [l \in 1..order_lines |-> OrderLineRow(o, d, w, l)]
        \o (IF o >= initial_new_order_id THEN <<NewOrderRow(o, d, w)>> ELSE <<>>))

DistrictRows(w) ==
    Concat(num_districts_per_warehouse, LAMBDA d :
        <<DistrictRow(d, w)>> \o CustomerRows(d, w) \o <<DistrictNewOrderRow(d, w)>> \o OrderRows(d, w))

WarehouseRows(n) ==
    Concat(ending_warehouse[n] - starting_warehouse[n] + 1, LAMBDA k :
        LET w == starting_warehouse[n] + k - 1
        IN <<WarehouseRow(w)>> \o DistrictRows(w) \o [i \in 1..num_items |-> StockRow(i, w)])

ItemRows(n) ==
    Concat(num_items, LAMBDA i :
        [k \in 1..(ending_warehouse[n] - starting_warehouse[n] + 1) |->
            ItemRow(i, starting_warehouse[n] + k - 1)])

Populated == [n \in DOMAIN starting_warehouse |-> ItemRows(n) \o WarehouseRows(n)]

AllRows == UNION {{Populated[n][i] : i \in DOMAIN Populated[n]} : n \in DOMAIN Populated}

Keys == [r \in AllRows |-> PrimaryKey(r)]

PopulatedBy(n) == Populated[n]
KeyOfRow(r) == Keys[r]

(***************************************************************************)
(* The columns that the Generate...Record functions fill in, of those that *)
(* some transaction changes.  Amounts of money start at zero, and a stock  *)
(* close to the quantity at which NewOrder restocks it.                    *)
(***************************************************************************)
Unchanging == [constant |-> TRUE]

GenerateItemRecord == Unchanging
GenerateWarehouseRecord == [ytd |-> 0]
GenerateDistrictRecord == [ytd |-> 0, next_o_id |-> num_customers_per_district + 1]
GenerateCustomerRecord == [balance |-> 0, payment_cnt |-> 1]
GenerateStockRecord == [quantity |-> 12, ytd |-> 0, order_cnt |-> 0, remote_cnt |-> 0]
GenerateOrderRecord(o) == [c_id |-> o, carrier_id |-> IF o >= initial_new_order_id THEN 0 ELSE 1]
GenerateNewOrderRecord == Unchanging
GenerateOrderLineRecord == Unchanging
GenerateHistoryRecord == Unchanging
GenerateDistrictNewOrderRecord == [o_id |-> initial_new_order_id]

Generated(r) ==
    CASE r[1] = "ITEM" -> GenerateItemRecord
      [] r[1] = "WAREHOUSE" -> GenerateWarehouseRecord
      [] r[1] = "DISTRICT" -> GenerateDistrictRecord
      [] r[1] = "CUSTOMER" -> GenerateCustomerRecord
      [] r[1] = "STOCK" -> GenerateStockRecord
      [] r[1] = "ORDER" -> GenerateOrderRecord(r[4])
      [] r[1] = "NEW_ORDER" -> GenerateNewOrderRecord
      [] r[1] = "ORDER_LINE" -> GenerateOrderLineRecord
      [] r[1] = "HISTORY" -> GenerateHistoryRecord
      [] r[1] = "DISTRICT_NEW_ORDER" -> GenerateDistrictNewOrderRecord

InitialRecords == [r \in AllRows |-> Generated(r)]

(***************************************************************************)
(* What a transaction writes into a row it has read: the SetColumn calls   *)
(* of TpccProcedure.h.                                                     *)
(***************************************************************************)
Restocked(s, qty, remote) ==
    [quantity |-> IF s.quantity >= qty + 10 THEN s.quantity - qty ELSE s.quantity + 91 - qty,
     ytd |-> s.ytd + qty,
     order_cnt |-> s.order_cnt + 1,
     remote_cnt |-> IF remote THEN s.remote_cnt + 1 ELSE s.remote_cnt]

NextOrder(s) == [s EXCEPT !.next_o_id = @ + 1]

Paid(s, amount) == [s EXCEPT !.ytd = @ + amount]

Charged(s, amount) == [s EXCEPT !.balance = @ - amount, !.payment_cnt = @ + 1]

Credited(s, sum) == [s EXCEPT !.balance = @ + sum]
=============================================================================
