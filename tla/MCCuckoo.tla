------------------------------ MODULE MCCuckoo ------------------------------
(***************************************************************************)
(* A cuckoo table of four full buckets of one slot, so that insertions     *)
(* displace keys and double the table.                                     *)
(***************************************************************************)
EXTENDS Cuckoo

CONSTANTS t1, t2, k1, k2, k3, k4, k5, v1, v2

(* At hashpower 2 every key below fills the bucket of the same number, and *)
(* k5 can only come in by pushing others along 0 -> 1 -> 2 -> 3.           *)
KeyHash == (k1 :> 0) @@ (k2 :> 1) @@ (k3 :> 6) @@ (k4 :> 3) @@ (k5 :> 4)
TagHash == (0 :> 1) @@ (1 :> 3) @@ (6 :> 1) @@ (3 :> 6) @@ (4 :> 5)
FourStored == <<k1, k2, k3, k4>>

OneCall(kind, k, v, h) == [kind |-> kind, key |-> k, val |-> v, hp |-> h]

AllCalls ==
    {OneCall("find", k1, v1, 0), OneCall("contains", k2, v1, 0),
     OneCall("insert", k5, v2, 0), OneCall("upsert", k5, v1, 0),
     OneCall("update", k2, v2, 0), OneCall("erase", k4, v1, 0),
     OneCall("clear", k1, v1, 0), OneCall("iterate", k1, v1, 0),
     OneCall("rehash", k1, v1, 1), OneCall("rehash", k1, v1, 3), OneCall("rehash", k1, v1, 4)}

ThreadSymmetry == Permutations(Threads)
=============================================================================
