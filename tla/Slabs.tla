------------------------------- MODULE Slabs -------------------------------
(***************************************************************************)
(* The slab allocator that hands out a worker's registered memory          *)
(* (src/slabs.cc).  Its lock is held through every public call, so each    *)
(* call is an operator from one allocator state to the next.               *)
(*                                                                         *)
(* A sizing z gives what slabs_init works from:                            *)
(*   chunk_size, item_size_max, BLOCK_SIZE and CHUNK_ALIGN_BYTES,          *)
(*   mem_limit, and the growth factor num / den.                           *)
(* An allocator state sb has, for class i,                                 *)
(*   size[i]     the size of its chunks,                                   *)
(*   slots[i]    its free list, the most recently freed chunk first,       *)
(*   slabs[i]    how many slabs it has,                                    *)
(* and for the allocator                                                   *)
(*   mem_malloced, mem_avail, mem_free (what get_avail returns),           *)
(*   item        the class and size of every chunk that is handed out; a   *)
(*               chunk outside its domain has slabs_clsid 0 in the code.   *)
(* Addresses are offsets from mem_base, which mmap_malloc aligns to a      *)
(* block.  The statistic `requested' and the item flags are left out.      *)
(***************************************************************************)
EXTENDS Integers, Sequences, FiniteSets, FiniteSetsExt, Functions, TLC

POWER_LARGEST == 200    \* no class has a larger index
NULL == -1

ALIGN(n, a) == ((n + a - 1) \div a) * a

-----------------------------------------------------------------------------
(***************************************************************************)
(* slabs_init.  The class of a size that reaches into a new block is       *)
(* preceded by a class that ends where that block starts, so that a        *)
(* request for whole blocks finds chunks of whole blocks.                  *)
(***************************************************************************)
StartsBlock(z, pre_size, size) ==
    /\ pre_size \div z.BLOCK_SIZE < size \div z.BLOCK_SIZE
    /\ size % z.BLOCK_SIZE # 0

RECURSIVE ClassSizes(_, _, _, _)
ClassSizes(z, i, size, pre_size) ==
    IF i >= POWER_LARGEST \/ size * z.num > z.item_size_max * z.den
    THEN <<z.item_size_max>>
    ELSE LET aligned == ALIGN(size, z.CHUNK_ALIGN_BYTES)
             whole == IF StartsBlock(z, pre_size, aligned)
                      THEN <<(aligned \div z.BLOCK_SIZE) * z.BLOCK_SIZE>>
                      ELSE <<>>
         IN  whole \o <<aligned>> \o
             ClassSizes(z, i + Len(whole) + 1, (aligned * z.num) \div z.den, aligned)

\* Mutant: the last chunk may reach past the end of its slab.
perslab_rounded(z, sb, id) == (z.item_size_max + sb.size[id] - 1) \div sb.size[id]
perslab(z, sb, id) == z.item_size_max \div sb.size[id]

\* The chunks of a slab at ptr, the last one first: each is pushed in turn.
split_slab_page_into_freelist(z, sb, ptr, id) ==
    LET n == perslab(z, sb, id)
    IN  [sb EXCEPT !.slots[id] = [k \in 1..n |-> ptr + (n - k) * sb.size[id]] \o @]

\* Unchanged when there is no memory for another slab.
do_slabs_newslab(z, sb, id) ==
    LET len == z.item_size_max
        ptr == z.mem_limit - sb.mem_avail    \* mem_current
    IN  IF \/ sb.mem_malloced + len > z.mem_limit /\ sb.slabs[id] > 0
           \/ len > sb.mem_avail
        THEN sb
        ELSE [split_slab_page_into_freelist(z, sb, ptr, id) EXCEPT
                 !.slabs[id] = @ + 1,
                 !.mem_malloced = @ + len,
                 !.mem_avail = @ - len]

\* The class table alone, as slabs_init leaves it when prealloc is false.
EmptyClasses(z) ==
    LET sizes == ClassSizes(z, 1, z.chunk_size, z.chunk_size)
    IN  [size |-> sizes,
         slots |-> [i \in DOMAIN sizes |-> <<>>],
         slabs |-> [i \in DOMAIN sizes |-> 0],
         mem_malloced |-> 0, mem_avail |-> z.mem_limit, mem_free |-> z.mem_limit,
         item |-> [p \in {} |-> 0]]

RECURSIVE slabs_preallocate(_, _, _)
slabs_preallocate(z, sb, i) ==
    IF i > Len(sb.size) THEN sb
    ELSE slabs_preallocate(z, do_slabs_newslab(z, sb, i), i + 1)

slabs_init(z, prealloc) ==
    IF prealloc THEN slabs_preallocate(z, EmptyClasses(z), 1) ELSE EmptyClasses(z)

\* slabs_preallocate ends the program when a class cannot have its first slab.
Preallocated(sb) == \A i \in DOMAIN sb.size : sb.slabs[i] = 1

-----------------------------------------------------------------------------
\* The smallest class that fits, 0 when there is none.
slabs_clsid(sb, size) ==
    LET fits == {i \in DOMAIN sb.size : size <= sb.size[i]}
    IN  IF size = 0 \/ fits = {} THEN 0 ELSE Min(fits)

Pop(sb, id, size) ==
    LET it == Head(sb.slots[id])
    IN  [ret |-> it,
         sb |-> [sb EXCEPT !.slots[id] = Tail(@),
                           !.mem_free = @ - sb.size[id],
                           !.item = (it :> [slabs_clsid |-> id, size |-> size]) @@ @]]

do_slabs_alloc(z, sb, size, id) ==
    LET grown == IF id # 0 /\ sb.slots[id] = <<>> THEN do_slabs_newslab(z, sb, id) ELSE sb
    IN  IF id = 0 \/ grown.slots[id] = <<>>
        THEN [ret |-> NULL, sb |-> sb]
        ELSE Pop(grown, id, size)

sb_malloc(z, sb, size) == do_slabs_alloc(z, sb, size, slabs_clsid(sb, size))

sb_aligned_malloc(z, sb, size) ==
    LET newsize == ALIGN(size, z.BLOCK_SIZE)
    IN  do_slabs_alloc(z, sb, newsize, slabs_clsid(sb, newsize))

do_slabs_free(sb, ptr, id) ==
    [sb EXCEPT !.slots[id] = <<ptr>> \o @, !.mem_free = @ + sb.size[id]]

\* A chunk that is free already has class 0, which do_slabs_free ignores.
sb_free(sb, ptr) ==
    IF ptr \in DOMAIN sb.item
    THEN [do_slabs_free(sb, ptr, sb.item[ptr].slabs_clsid) EXCEPT
             !.item = Restrict(@, DOMAIN @ \ {ptr})]
    ELSE sb

\* Within a class only the recorded size changes.  Otherwise the chunk is
\* exchanged; a failed allocation leaves no state, the lookup of NULL throws.
sb_realloc(z, sb, ptr, size) ==
    LET id2 == slabs_clsid(sb, size)
        new == do_slabs_alloc(z, sb, size, id2)
    IN  IF sb.item[ptr].slabs_clsid = id2
        THEN [ret |-> ptr, sb |-> [sb EXCEPT !.item[ptr].size = size]]
        ELSE [ret |-> new.ret,
              sb |-> IF new.ret = NULL THEN sb ELSE sb_free(new.sb, ptr)]

=============================================================================
