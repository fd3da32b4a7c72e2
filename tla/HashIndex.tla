----------------------------- MODULE HashIndex ------------------------------
(***************************************************************************)
(* The primary index of a database table: database/storage/HashIndex.h,    *)
(* HashIndexHelper.h and GAddrArray.h.  The index lives in global memory.  *)
(* A GAddrArray, a radix tree of segments of N entries, holds one header   *)
(* per bucket; a header leads to a chain of nodes, one per key; a node     *)
(* leads to a list of Items of SLOT_NUM record addresses each.             *)
(*                                                                         *)
(* Every node of the cluster populates the same tables from one thread.    *)
(* An insertion locks the bucket's header, reads the chain, changes it,    *)
(* and unlocks; a search takes no lock, because the nodes meet at a fence  *)
(* between the two phases.                                                 *)
(***************************************************************************)
EXTENDS Integers, Sequences, FiniteSets, SequencesExt, FiniteSetsExt

CONSTANTS Nodes, IndexTables,
          N,               \* entries of a segment of the radix tree
          buckets_count,   \* headers of an index
          SLOT_NUM,        \* record addresses of one Items
          Gnullptr,
          RowsOf(_),         \* the rows a node populates, in order
          IndexOf(_),      \* the table of a row
          KeyOf(_)         \* the primary key of a row

ASSUME IndexAssumption ==
    /\ N \in Nat \ {0, 1} /\ buckets_count \in Nat \ {0} /\ SLOT_NUM \in Nat \ {0}

VARIABLES
    chain,   \* chain[t][h]: the nodes of header h of table t's index
    header,  \* header[t][h]: the node whose insertion locks the header
    pop      \* pop[n]: the rows node n has still to insert, and what its
             \* insertion has read

ivars == <<chain, header, pop>>

(***************************************************************************)
(* GAddrArray.  A segment is named by its layer and position; an entry of  *)
(* the last layer is the address of a header.                              *)
(***************************************************************************)
layer_num == CHOOSE l \in 0..buckets_count : N^l >= buckets_count /\ \A k \in 0..l-1 : N^k < buckets_count

Root == <<0, 0>>

path(layer, pos) == [j \in 1..layer-1 |-> (pos \div N^(layer - j)) % N]

Follow(links, steps) == FoldLeft(LAMBDA seg, k : links[<<seg, k>>], Root, steps)

Segments == FoldLeft(LAMBDA s, l : s \o [p \in 1..N^l |-> <<l, p - 1>>], <<>>, [l \in 1..layer_num-1 |-> l])

AllocSegment(links, s) ==
    [e \in DOMAIN links \union {<<Follow(links, path(s[1], s[2])), s[2] % N>>} |->
        IF e \in DOMAIN links THEN links[e] ELSE s]

layers == FoldLeft(AllocSegment, [e \in {} |-> Root], Segments)

LocateParentNode(layer, pos) == Follow(layers, path(layer, pos))

GetElementGAddr(offset) == <<LocateParentNode(layer_num, offset), offset % N>>

HeaderAt == [offset \in 0..buckets_count-1 |-> GetElementGAddr(offset)]

Headers == {HeaderAt[i] : i \in DOMAIN HeaderAt}

Hash(key) == key % buckets_count

HeaderOf(key) == HeaderAt[Hash(key)]

(***************************************************************************)
(* A chain of nodes.  The Items that were added last come first.           *)
(***************************************************************************)
AddRecordPtr(items, ptr) ==
    IF items # <<>> /\ Len(items[1]) < SLOT_NUM
    THEN [items EXCEPT ![1] = Append(@, ptr)]
    ELSE <<<<ptr>>>> \o items

NodesOf(nodes, key) == {i \in DOMAIN nodes : nodes[i].key = key}

InsertNode(nodes, key, ptr) ==
    IF NodesOf(nodes, key) # {}
    THEN [nodes EXCEPT ![Min(NodesOf(nodes, key))].items = AddRecordPtr(@, ptr)]
    ELSE Append(nodes, [key |-> key, items |-> AddRecordPtr(<<>>, ptr)])

SearchNode(nodes, key) ==
    IF NodesOf(nodes, key) = {} THEN <<>> ELSE nodes[Min(NodesOf(nodes, key))].items

SearchRecord(table, key) ==
    LET items == SearchNode(chain[table][HeaderOf(key)], key)
    IN IF items = <<>> THEN Gnullptr ELSE items[1][1]

(***************************************************************************)
(* Populating.                                                             *)
(***************************************************************************)
NoRead == [on |-> FALSE, nodes |-> <<>>]

IndexInit ==
    /\ chain = [t \in IndexTables |-> [h \in Headers |-> <<>>]]
    /\ header = [t \in IndexTables |-> [h \in Headers |-> Gnullptr]]
    /\ pop = [n \in Nodes |-> [todo |-> RowsOf(n), locked |-> FALSE, read |-> NoRead]]

Row(n) == Head(pop[n].todo)
Populating(n) == pop[n].todo # <<>>

(* A populator that does not lock the header.                              *)
TryWLockUnlocked(n) ==
    LET t == IndexOf(Row(n)) h == HeaderOf(KeyOf(Row(n)))
    IN /\ pop' = [pop EXCEPT ![n].locked = TRUE]
       /\ header' = [header EXCEPT ![t][h] = n]

TryWLockBucketHeader(n) ==
    LET t == IndexOf(Row(n)) h == HeaderOf(KeyOf(Row(n)))
    IN /\ header[t][h] = Gnullptr
       /\ pop' = [pop EXCEPT ![n].locked = TRUE]
       /\ header' = [header EXCEPT ![t][h] = n]

LockHeader(n) ==
    /\ Populating(n) /\ ~pop[n].locked
    /\ TryWLockBucketHeader(n)
    /\ UNCHANGED chain

ReadHeader(n) ==
    /\ Populating(n) /\ pop[n].locked /\ ~pop[n].read.on
    /\ pop' = [pop EXCEPT ![n].read =
           [on |-> TRUE, nodes |-> chain[IndexOf(Row(n))][HeaderOf(KeyOf(Row(n)))]]]
    /\ UNCHANGED <<chain, header>>

WriteHeader(n) ==
    LET t == IndexOf(Row(n)) h == HeaderOf(KeyOf(Row(n)))
    IN /\ Populating(n) /\ pop[n].read.on
       /\ chain' = [chain EXCEPT ![t][h] = InsertNode(pop[n].read.nodes, KeyOf(Row(n)), Row(n))]
       /\ header' = [header EXCEPT ![t][h] = Gnullptr]
       /\ pop' = [pop EXCEPT ![n] = [todo |-> Tail(@.todo), locked |-> FALSE, read |-> NoRead]]

IndexInsert(n) == LockHeader(n) \/ ReadHeader(n) \/ WriteHeader(n)
=============================================================================
