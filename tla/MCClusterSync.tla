---------------------------- MODULE MCClusterSync ----------------------------
(***************************************************************************)
(* Three small workers: one that keeps half of its memory for the cache,   *)
(* one that keeps nothing, and a cache-only one.                           *)
(***************************************************************************)
EXTENDS ClusterSync

Shares == (0 :> 1) @@ (1 :> 0) @@ (2 :> MemSize)

Mallocs(a, b, c) == (0 :> a) @@ (1 :> b) @@ (2 :> c)

Starting == [joined |-> FALSE, order |-> <<0, 1, 2>>, mallocs |-> Mallocs(0, 0, 0), rounds |-> 0]
Fencing == [joined |-> TRUE, order |-> <<1, 0, 2>>, mallocs |-> Mallocs(0, 0, 0), rounds |-> 2]
Alone == [joined |-> FALSE, order |-> <<0>>, mallocs |-> Mallocs(3, 0, 0), rounds |-> 0]
Two == [joined |-> TRUE, order |-> <<1, 0>>, mallocs |-> Mallocs(2, 2, 0), rounds |-> 0]
Three == [joined |-> TRUE, order |-> <<0, 2, 1>>, mallocs |-> Mallocs(1, 1, 1), rounds |-> 0]

StartingTwo == [joined |-> FALSE, order |-> <<1, 0>>, mallocs |-> Mallocs(1, 1, 0), rounds |-> 0]

SmallPlans == {Starting, StartingTwo, Fencing, Alone, Two, Three}
OneWorker == {Alone}
=============================================================================
