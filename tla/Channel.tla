------------------------------- MODULE Channel -------------------------------
(***************************************************************************)
(* What the coherence protocol expects of a connection: the requests that  *)
(* were handed to it, numbered in that order, come out exactly once and in *)
(* the same order, several at a time when they have been merged.           *)
(***************************************************************************)
EXTENDS Integers, Sequences

VARIABLES accepted, sent

Init == accepted = 0 /\ sent = <<>>

Accept == accepted' = accepted + 1 /\ UNCHANGED sent

Deliver ==
    \E n \in 1..(accepted - Len(sent)) :
        /\ sent' = sent \o [k \in 1..n |-> Len(sent) + k]
        /\ UNCHANGED accepted

Next == Accept \/ Deliver

Spec == Init /\ [][Next]_<<accepted, sent>>

=============================================================================
