------------------------------- MODULE Barrier -------------------------------
(***************************************************************************)
(* What ClusterSync::Fence promises: the processes of the cluster pass the *)
(* same fences, and none leaves one before every process has reached it.   *)
(***************************************************************************)
EXTENDS Integers

CONSTANT Processes

VARIABLES reached, left     \* fences each process has reached, has left

Init == /\ reached = [p \in Processes |-> 0]
        /\ left = [p \in Processes |-> 0]

Reach(p) ==
    /\ reached[p] = left[p]
    /\ reached' = [reached EXCEPT ![p] = @ + 1]
    /\ UNCHANGED left

Leave(p) ==
    /\ left[p] < reached[p]
    /\ \A q \in Processes : reached[q] >= reached[p]
    /\ left' = [left EXCEPT ![p] = @ + 1]
    /\ UNCHANGED reached

Next == \E p \in Processes : Reach(p) \/ Leave(p)

Spec == Init /\ [][Next]_<<reached, left>>

=============================================================================
