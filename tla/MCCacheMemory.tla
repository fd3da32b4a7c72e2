--------------------------- MODULE MCCacheMemory ---------------------------
(***************************************************************************)
(* Small instances of CacheMemory.                                         *)
(***************************************************************************)
EXTENDS CacheMemory

CONSTANTS t1, t2, b1, b2, b3

TwoThreads == {t1, t2}
ThreeBlocks == {b1, b2, b3}
TwoLists == {0, 1}

\* b1 and b2 share a bucket.
SharedBucket == (b1 :> 0) @@ (b2 :> 0) @@ (b3 :> 1)

Sizing(chunk, max, block, align, limit, num, den) ==
    [chunk_size |-> chunk, item_size_max |-> max, BLOCK_SIZE |-> block,
     CHUNK_ALIGN_BYTES |-> align, mem_limit |-> limit, num |-> num, den |-> den]

\* Classes of 2, 3, 4, 6, 8, 9 and 16 units, a block of 4, and one more slab
\* than the seven that are preallocated.
Small == Sizing(2, 16, 4, 1, 128, 3, 2)
\* The sizes of the build: ITEM_SIZE_MAX, BLOCK_SIZE and factor 1.25.
Real == Sizing(48, 524288, 4096, 8, 0, 5, 4)

\* Classes of 4 and 8 units, for lines of 4.
Tiny == Sizing(4, 8, 4, 1, 24, 2, 1)

Request(size, aligned) == [size |-> size, aligned |-> aligned]

\* An empty cache; a cache with three lines on one list; objects of many
\* classes; the class table alone.
Cold == [sizing |-> Tiny, prealloc |-> TRUE, lines |-> TRUE, requests |-> {},
         cached |-> <<>>, state |-> <<>>, maxOps |-> 3]
Full == [Cold EXCEPT !.cached = <<b1, b2, b3>>, !.state = <<"SHARED", "DIRTY", "SHARED">>]
Objects == [Cold EXCEPT !.sizing = Small, !.lines = FALSE, !.maxOps = 5,
               !.requests = {Request(2, FALSE), Request(3, TRUE), Request(7, FALSE),
                             Request(8, TRUE), Request(10, FALSE)}]
Table == [Cold EXCEPT !.sizing = Real, !.prealloc = FALSE, !.lines = FALSE]

SmallPlans == {Cold, Full, Objects, Table}

=============================================================================
