------------------------------- MODULE MCTpcc -------------------------------
(***************************************************************************)
(* Two nodes with a warehouse each.                                        *)
(***************************************************************************)
EXTENDS Tpcc, TLC

CONSTANTS n1, n2, t1, t2, t3

WarehouseOf == (n1 :> 1) @@ (n2 :> 2)

ThreadNode(t) == IF t = t3 THEN n2 ELSE n1

(* The customers of a warehouse lie in one block, allocated one after the  *)
(* other; every other record is alone in its block.                        *)
Blocks(r) == IF r[1] = "CUSTOMER" THEN CustomerRow(1, 1, r[2]) ELSE r

Standard == [STOCK |-> "READ_WRITE", DISTRICT |-> "READ_WRITE", WAREHOUSE |-> "READ_WRITE",
             CUSTOMER |-> "READ_WRITE", NEW_ORDER |-> "INSERT_ONLY", ORDER |-> "INSERT_ONLY",
             ORDER_LINE |-> "INSERT_ONLY", HISTORY |-> "INSERT_ONLY"]
MoreReads == [Standard EXCEPT !.DISTRICT = "READ_ONLY", !.ORDER = "READ_ONLY", !.HISTORY = "READ_ONLY",
                              !.WAREHOUSE = "READ_ONLY"]

NewOrder(w, d, items, supply, access) ==
    [type |-> "NEW_ORDER", w |-> w, d |-> d, c |-> 1, items |-> items, supply |-> supply, access |-> access]
Payment(w, d, cw, access) ==
    [type |-> "PAYMENT", w |-> w, d |-> d, c |-> 1, c_d |-> d, c_w |-> cw, amount |-> 1, access |-> access]
Delivery(w) == [type |-> "DELIVERY", w |-> w, carrier |-> 3]
OrderStatus == [type |-> "ORDER_STATUS"]

Mixed ==
    {(t1 :> <<NewOrder(1, 1, <<1>>, <<1>>, Standard)>>) @@ (t2 :> <<Payment(1, 1, 1, Standard), OrderStatus>>) @@ (t3 :> <<>>),
     (t1 :> <<NewOrder(1, 1, <<1>>, <<2>>, Standard)>>) @@ (t2 :> <<>>) @@ (t3 :> <<NewOrder(2, 1, <<2, 1>>, <<2, 1>>, MoreReads)>>),
     (t1 :> <<Delivery(1), Delivery(1)>>) @@ (t2 :> <<Payment(1, 1, 2, MoreReads)>>)
        @@ (t3 :> <<Payment(2, 2, 1, Standard)>>)}
=============================================================================
