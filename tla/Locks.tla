-------------------------------- MODULE Locks --------------------------------
(***************************************************************************)
(* The lock table of one block.  A directory entry at the home worker and  *)
(* a cache line at any other worker each carry a map "locks" from an       *)
(* address to an int: an absent key is 0, a positive number counts shared  *)
(* holders, EXCLUSIVE_LOCK_TAG marks one exclusive holder.                 *)
(***************************************************************************)
EXTENDS Integers

CONSTANTS Addrs,              \* the lockable addresses inside the block
          EXCLUSIVE_LOCK_TAG  \* 255 in include/settings.h

ASSUME TagAssumption == EXCLUSIVE_LOCK_TAG \in Nat \ {0}

LockTable == [Addrs -> Int]

NoLocks == [a \in Addrs |-> 0]

IsWLocked(l, a) == l[a] = EXCLUSIVE_LOCK_TAG

IsRLocked(l, a) == l[a] > 0 /\ ~IsWLocked(l, a)

\* Mutant: the block never counts as locked.
NeverBlockLocked(l) == FALSE

IsBlockLocked(l) == \E a \in Addrs : l[a] # 0

IsBlockWLocked(l) == \E a \in Addrs : IsWLocked(l, a)

\* RLock succeeds unless the address is write locked.
CanRLock(l, a) == ~IsWLocked(l, a)

RLock(l, a) == [l EXCEPT ![a] = @ + 1]

\* WLock succeeds only on an address nobody has locked.
CanWLock(l, a) == ~IsWLocked(l, a) /\ ~IsRLocked(l, a)

WLock(l, a) == [l EXCEPT ![a] = EXCLUSIVE_LOCK_TAG]

\* Mutant: an exclusive lock is given back like a shared one.
UnLockShared(l, a) == [l EXCEPT ![a] = @ - 1]

UnLock(l, a) == [l EXCEPT ![a] = IF IsWLocked(l, a) THEN 0 ELSE @ - 1]

=============================================================================
