------------------------------ MODULE CacheLine ------------------------------
(***************************************************************************)
(* The cache line a worker keeps for one block of another worker:          *)
(* include/cache.h and src/cache.cc.  INVALID stands for "no line": the    *)
(* code allocates a line on a miss (SetCLine) and frees it in ToInvalid.   *)
(* "data" is the content of the 4 KB line, "lru" says whether the line is  *)
(* linked in one of the LRU lists, where Evict looks for victims.          *)
(***************************************************************************)
EXTENDS Locks

CacheState == {"INVALID", "SHARED", "DIRTY",
               "TO_INVALID", "TO_SHARED", "TO_DIRTY"}

CacheLineOf(Data) ==
    [state : CacheState, data : Data, locks : LockTable, lru : BOOLEAN]

\* SetCLine: a new line is zeroed, unlocked and not linked; d is zeroes.
NewLine(s, d) == [state |-> s, data |-> d, locks |-> NoLocks, lru |-> FALSE]

CacheInTransition(c) == c.state \in {"TO_DIRTY", "TO_INVALID", "TO_SHARED"}

\* ToShared links a line that comes from a miss; a dirty one is linked already.
CacheToShared(c) ==
    [c EXCEPT !.state = "SHARED", !.lru = (c.state = "TO_SHARED") \/ @]

\* Mutant: the line is linked, its state forgotten.
CacheToDirtyLinkOnly(c) == [c EXCEPT !.lru = TRUE]

CacheToDirty(c) == [c EXCEPT !.state = "DIRTY", !.lru = TRUE]

\* Mutant: the line stays usable while it is on its way out.
CacheStaysDirty(c) == c

CacheToToInvalid(c) == [c EXCEPT !.state = "TO_INVALID"]

\* ToToDirty, and the UnLinkLRU both callers with a shared line add to it.
CacheToToDirty(c) == [c EXCEPT !.state = "TO_DIRTY", !.lru = FALSE]

\* UndoShared does not link the line again.
CacheUndoShared(c) == [c EXCEPT !.state = "SHARED"]

\* UnLinkLRU followed by LinkLRU.
Touch(c) == [c EXCEPT !.lru = TRUE]

\* What Evict(n) requires of the line it takes from the tail of an LRU list.
Evictable(c) == c.lru /\ ~IsBlockLocked(c.locks) /\ ~CacheInTransition(c)

=============================================================================
