-------------------------- MODULE OpenAddressHash --------------------------
(***************************************************************************)
(* The open-addressed table of hash/OpenAddressHash.c: linear probing, a   *)
(* mark DEL where a node was deleted.  Every call holds ht->mtx, so a call *)
(* is one step.  add does not look for the key: the table is a bag.  The   *)
(* value travels with its key and is left out.                             *)
(***************************************************************************)
EXTENDS Integers, FiniteSets, SequencesExt

CONSTANTS
  Keys,      \* not negative
  InitBits,  \* the argument of init_hashtable: the table has 2^InitBits cells
  MaxNodes   \* a bound on the nodes in the table, duplicates included

VARIABLES
  bucket, table_size, setSize,
  last,      \* the last call, its key and its answer
  dead       \* the process has ended: a resize found no memory, and the next
             \* call reads the null ht->bucket

vars == <<bucket, table_size, setSize, last, dead>>

node(k, s) == [key |-> k, stat |-> s]

\* EMP cells, and setSize = 0.
init_bucket(size) == [cell |-> [i \in 0..(size - 1) |-> node(0, "EMP")], n |-> 0]

Init ==
  /\ table_size = 2^InitBits
  /\ bucket = init_bucket(2^InitBits).cell
  /\ setSize = init_bucket(2^InitBits).n
  /\ last = << >>
  /\ dead = FALSE

-----------------------------------------------------------------------------
hashCode(k, i, size) == (k + i) % size

\* The first probe of k, if there is one, that a loop over the table stops at.
Probe(k, size, Test(_)) ==
  LET at == SelectInSeq([i \in 1..size |-> hashCode(k, i - 1, size)], Test)
  IN  IF at = 0 THEN -1 ELSE hashCode(k, at - 1, size)

\* The first probe that is not OCC takes the node, and setSize is counted up.
add_op(t, k) ==
  LET h == Probe(k, Cardinality(DOMAIN t.cell), LAMBDA c : t.cell[c].stat # "OCC")
  IN  IF h = -1 THEN t
      ELSE [cell |-> [t.cell EXCEPT ![h] = node(k, "OCC")], n |-> t.n + 1]

policy(n, size) == (size * 4) \div 5 < n

\* Mutant: init_bucket does not reset setSize.
resizeNoReset(t, size) ==
  LET old == SelectSeq([i \in 1..size |-> t.cell[i - 1]], LAMBDA c : c.stat = "OCC")
  IN  FoldLeft(LAMBDA u, c : add_op(u, c.key),
               [cell |-> init_bucket(2 * size).cell, n |-> t.n], old)

resize(t, size) ==
  LET old == SelectSeq([i \in 1..size |-> t.cell[i - 1]], LAMBDA c : c.stat = "OCC")
  IN  FoldLeft(LAMBDA u, c : add_op(u, c.key), init_bucket(2 * size), old)

Store(u, size) == bucket' = u.cell /\ setSize' = u.n /\ table_size' = size

add(k) ==
  LET old == [cell |-> bucket, n |-> setSize]
      t == add_op(old, k)
  IN  /\ ~ dead /\ setSize < MaxNodes
      /\ last' = IF t # old THEN <<"add", k, TRUE>> ELSE <<"add", k, FALSE, "no room">>
      /\ IF policy(t.n, table_size)
           THEN \/ Store(resize(t, table_size), 2 * table_size) /\ UNCHANGED dead
                \/ Store(t, table_size) /\ dead' = TRUE
           ELSE Store(t, table_size) /\ UNCHANGED dead

\* The cell at which the search for k ends: an EMP one, or one that holds k.
Lookup(k) ==
  Probe(k, table_size, LAMBDA c : \/ bucket[c].stat = "EMP"
                                  \/ bucket[c].stat # "DEL" /\ bucket[c].key = k)

Found(k) == Lookup(k) # -1 /\ bucket[Lookup(k)].stat # "EMP"

\* Mutant: the cell is made EMP again.
del_opEmpty(h) ==
  /\ bucket' = [bucket EXCEPT ![h] = node(0, "EMP")]
  /\ setSize' = setSize - 1

del_op(h) ==
  /\ bucket' = [bucket EXCEPT ![h] = node(0, "DEL")]
  /\ setSize' = setSize - 1

delete(k) ==
  /\ ~ dead
  /\ last' = <<"delete", k, Found(k)>>
  /\ IF Found(k) THEN del_op(Lookup(k)) ELSE UNCHANGED <<bucket, setSize>>
  /\ UNCHANGED <<table_size, dead>>

find(k) ==
  /\ ~ dead
  /\ last' = <<"find", k, Found(k)>>
  /\ UNCHANGED <<bucket, table_size, setSize, dead>>

Next == \E k \in Keys : add(k) \/ delete(k) \/ find(k)

Spec == Init /\ [][Next]_vars

-----------------------------------------------------------------------------
(* Properties *)

Cells(k) == {h \in DOMAIN bucket : bucket[h] = node(k, "OCC")}

\* Every answer is that of a bag of keys: a search that stops at the first EMP
\* cell misses no node, however adds, deletes and resizes have followed each
\* other.
Refines == INSTANCE AtomicTable WITH
  Duplicates <- TRUE, count <- [k \in Keys |-> Cardinality(Cells(k))]
IsBag == Refines!Spec

\* setSize is the "number of nodes" OpenAddressHash.h says it is, and the policy
\* keeps a cell free, so that add always finds room.
RoomLeft ==
  /\ setSize = Cardinality({h \in DOMAIN bucket : bucket[h].stat = "OCC"})
  /\ ~ dead => setSize < table_size
=============================================================================
