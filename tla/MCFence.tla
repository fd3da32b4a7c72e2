------------------------------- MODULE MCFence -------------------------------
(***************************************************************************)
(* Small instances of Fence.                                               *)
(***************************************************************************)
EXTENDS Fence, TLC

WritesAndFences == {"READ", "WRITE", "MFENCE"}
HelperSymmetry == Permutations(Helpers)

=============================================================================
