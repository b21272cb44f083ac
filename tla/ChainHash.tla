----------------------------- MODULE ChainHash -----------------------------
(***************************************************************************)
(* The chained table of hash/Hash.c.  Every call holds ht->mtx from its    *)
(* first access to its last, so a call is one step.  A chain is the        *)
(* sequence of its keys; a value travels in its key's node and is left     *)
(* out.  Keys are not negative: key % table_size is used as an index.      *)
(*                                                                         *)
(* A call that reads through a null pointer ends the process: dead.  After *)
(* a resize without memory ht->bucket is null or has buckets without a     *)
(* head; that the next call reads it is taken to be the end as well.       *)
(***************************************************************************)
EXTENDS Integers, FiniteSets, SequencesExt

CONSTANTS
  Keys,      \* not negative
  InitSize,  \* the argument of init_hashtable
  Load       \* 4: the load above which policy asks for a resize

VARIABLES
  bucket, table_size, setSize,
  last,      \* the last call, its key and its answer
  dead       \* the process has ended

table == <<bucket, table_size, setSize>>
vars == <<table, last, dead>>

hashCode(k, size) == k % size

init_bucket(size) == [h \in 0..(size - 1) |-> << >>]

init_hashtable ==
  /\ bucket = init_bucket(InitSize)
  /\ table_size = InitSize
  /\ setSize = 0

Init == init_hashtable /\ last = << >> /\ dead = FALSE

-----------------------------------------------------------------------------
\* Where the walk "while ((curr != NULL) && (curr->key < key))" along the chain
\* stops: 0 is NULL.
Stop(l, k) == SelectInSeq(l, LAMBDA x : x >= k)

\* Leaves the chain as it is if it holds the key (return false).
add_node_op(l, k) ==
  LET c == Stop(l, k)
  IN  IF c = 0 THEN Append(l, k) ELSE IF k # l[c] THEN InsertAt(l, c, k) ELSE l

policy(nodes, size) == nodes \div size > Load

\* Mutant: the nodes are put where they were in the smaller table.
resizeOldHash(old, size) ==
  FoldLeft(LAMBDA b, k : [b EXCEPT ![hashCode(k, size)] = add_node_op(@, k)],
           init_bucket(2 * size),
           FlattenSeq([i \in 1..size |-> old[i - 1]]))

\* The nodes of the old buckets, bucket by bucket, in buckets twice as many.
resize(old, size) ==
  FoldLeft(LAMBDA b, k : [b EXCEPT ![hashCode(k, 2 * size)] = add_node_op(@, k)],
           init_bucket(2 * size),
           FlattenSeq([i \in 1..size |-> old[i - 1]]))

\* The end of add, with b the buckets after add_node: the resize may find no
\* memory.
Grow(b) ==
  IF policy(setSize', table_size)
    THEN \/ /\ bucket' = resize(b, table_size)
            /\ table_size' = 2 * table_size
            /\ UNCHANGED dead
         \/ dead' = TRUE /\ bucket' = b /\ UNCHANGED table_size
    ELSE bucket' = b /\ UNCHANGED <<table_size, dead>>

add(k) ==
  LET h == hashCode(k, table_size)
      l == add_node_op(bucket[h], k)
      new == l # bucket[h]
  IN  /\ ~ dead
      /\ last' = <<"add", k, new>>
      /\ setSize' = IF new THEN setSize + 1 ELSE setSize
      /\ Grow([bucket EXCEPT ![h] = l])

\* create_node finds no memory.
add_fails(k) ==
  /\ ~ dead
  /\ last' = <<"add", k, FALSE, "no room">>
  /\ UNCHANGED setSize
  /\ Grow(bucket)

\* "(key == curr->key) && (curr != NULL)" reads through NULL when all keys of the
\* chain are below the key.
delete_node_reads_null(l, k) == l # << >> /\ Stop(l, k) = 0

\* Mutant: the nodes behind the deleted one are not linked again.
delete_nodeCuts(l, k) ==
  IF l # << >> /\ l[Stop(l, k)] = k THEN SubSeq(l, 1, Stop(l, k) - 1) ELSE l

delete_node(l, k) ==
  IF l # << >> /\ l[Stop(l, k)] = k THEN RemoveAt(l, Stop(l, k)) ELSE l

delete(k) ==
  LET h == hashCode(k, table_size)
      l == delete_node(bucket[h], k)
      found == l # bucket[h]
  IN  /\ ~ dead /\ ~ delete_node_reads_null(bucket[h], k)
      /\ bucket' = [bucket EXCEPT ![h] = l]
      /\ setSize' = IF found THEN setSize - 1 ELSE setSize
      /\ last' = <<"delete", k, found>>
      /\ UNCHANGED <<table_size, dead>>

delete_dies(k) ==
  /\ ~ dead /\ delete_node_reads_null(bucket[hashCode(k, table_size)], k)
  /\ dead' = TRUE
  /\ UNCHANGED <<table, last>>

find_node(l, k) == LET c == Stop(l, k) IN c # 0 /\ l[c] = k

find(k) ==
  /\ ~ dead
  /\ last' = <<"find", k, find_node(bucket[hashCode(k, table_size)], k)>>
  /\ UNCHANGED <<table, dead>>

Next == \E k \in Keys : add(k) \/ add_fails(k) \/ delete(k) \/ delete_dies(k) \/ find(k)

Spec == Init /\ [][Next]_vars

-----------------------------------------------------------------------------
(* Properties *)

\* Every answer is that of a set of keys, through any number of resizes.
Count(k) == Cardinality({h \in DOMAIN bucket : Contains(bucket[h], k)})
Refines == INSTANCE AtomicTable WITH
  Duplicates <- FALSE, count <- [k \in Keys |-> Count(k)]
IsSet == Refines!Spec

\* setSize is the "number of nodes" Hash.h says it is, and no chain is longer
\* for want of a resize than the policy allows.
SetSizeExact ==
  /\ setSize = SumFunction([h \in DOMAIN bucket |-> Len(bucket[h])])
  /\ ~ dead => ~ policy(setSize, table_size)
=============================================================================
