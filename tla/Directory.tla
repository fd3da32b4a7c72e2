------------------------------ MODULE Directory ------------------------------
(***************************************************************************)
(* The directory entry the home worker keeps for one of its blocks:        *)
(* include/directory.h and src/directory.cc.  The code erases an entry     *)
(* that is unshared and unlocked; GetState, GetEntry and the lock tests    *)
(* treat an absent entry as an unshared, unlocked one, so NoEntry stands   *)
(* for both.  "shared" lists the workers that hold a copy (the code stores *)
(* worker id and cache line address in one GAddr); in state DIRTY its one  *)
(* element is the owner.                                                   *)
(***************************************************************************)
EXTENDS Locks, FiniteSets

CONSTANT Remotes              \* the workers other than the home worker

ASSUME RemotesAssumption == IsFiniteSet(Remotes)

DirState == {"UNSHARED", "DIRTY", "SHARED",
             "TO_DIRTY", "TO_SHARED", "TO_UNSHARED"}

DirEntry == [state : DirState, shared : SUBSET Remotes, locks : LockTable]

NoEntry == [state |-> "UNSHARED", shared |-> {}, locks |-> NoLocks]

DirInTransition(e) == e.state \in {"TO_DIRTY", "TO_SHARED", "TO_UNSHARED"}

DirIsBlockWLocked(e) == IsBlockWLocked(e.locks)

DirIsBlockLocked(e) == IsBlockLocked(e.locks)

\* Mutant: the new sharer replaces the list.
DirToSharedAlone(e, w) == [e EXCEPT !.state = "SHARED", !.shared = {w}]

\* ToShared(entry, addr): w becomes one more sharer.
DirToShared(e, w) == [e EXCEPT !.state = "SHARED", !.shared = @ \cup {w}]

\* ToShared(entry, Gnullptr) and UndoShared: only the state changes.
DirUndoShared(e) == [e EXCEPT !.state = "SHARED"]

DirUndoDirty(e) == [e EXCEPT !.state = "DIRTY"]

\* Mutant: the list is not cleared for the new owner.
DirToDirtyKeep(e, w) == [e EXCEPT !.state = "DIRTY", !.shared = @ \cup {w}]

DirToDirty(e, w) == [e EXCEPT !.state = "DIRTY", !.shared = {w}]

DirToToShared(e) == [e EXCEPT !.state = "TO_SHARED"]

DirToToDirty(e) == [e EXCEPT !.state = "TO_DIRTY"]

DirToToUnShared(e) == [e EXCEPT !.state = "TO_UNSHARED"]

\* ToUnShared: the entry survives only to keep the locks.
DirToUnShared(e) ==
    IF DirIsBlockLocked(e)
    THEN [e EXCEPT !.state = "UNSHARED", !.shared = {}]
    ELSE NoEntry

\* Remove: worker w has given up its copy during an invalidation.  The entry
\* is erased, transition state included, with the last unlocked sharer.
DirRemove(e, w) ==
    LET s == e.shared \ {w}
    IN  IF s = {} /\ ~DirIsBlockLocked(e)
        THEN NoEntry
        ELSE [e EXCEPT !.shared = s]

\* Clear: worker w has evicted its copy.
DirClear(e, w) ==
    LET s == e.shared \ {w}
    IN  IF s = {} THEN DirToUnShared(e) ELSE [e EXCEPT !.shared = s]

\* RLock and WLock on the entry; IsWLocked and IsRLocked as directory.cc
\* defines them: a write lock counts only while the block is unshared.
DirIsWLocked(e, a) == e.state = "UNSHARED" /\ IsWLocked(e.locks, a)

DirCanRLock(e, a) == ~DirIsWLocked(e, a)

DirCanWLock(e, a) == ~DirIsWLocked(e, a) /\ ~IsRLocked(e.locks, a)

DirRLock(e, a) == [e EXCEPT !.locks = RLock(@, a)]

DirWLock(e, a) == [e EXCEPT !.locks = WLock(@, a)]

\* UnLock erases an entry it leaves unshared and unlocked.
DirUnLock(e, a) ==
    LET u == [e EXCEPT !.locks[a] = IF DirIsWLocked(e, a) THEN 0 ELSE @ - 1]
    IN  IF u.state = "UNSHARED" /\ ~DirIsBlockLocked(u) THEN NoEntry ELSE u

=============================================================================
