----------------------------- MODULE CuckooHash -----------------------------
(***************************************************************************)
(* The cuckoo table of hash/CuckooHash.c.  Every call holds ht->mtx, so a  *)
(* call is one step, with all the evictions and resizes it does.  The      *)
(* value travels with its key and is left out.                             *)
(*                                                                         *)
(* add and resize call swap_node with 1 and 2, where get_node tells 0 from *)
(* the rest: both calls are for table[1], and table[0] stays empty.        *)
(***************************************************************************)
EXTENDS Integers, FiniteSets, SequencesExt

CONSTANTS
  Keys,      \* not negative
  InitBits,  \* the argument of init_hashtable
  Try        \* 10: the resizes an add may do

VARIABLES
  table, table_size, setSize,
  last,      \* the last call, its key and its answer
  dead       \* the process has ended, or will at the next call: a resize found no
             \* memory, and one of the two tables is null

vars == <<table, table_size, setSize, last, dead>>

node(k, s) == [key |-> k, stat |-> s]

\* Two tables of EMP cells, and setSize = 0.
init_tables(sz) ==
  [cell |-> [no \in {0, 1} |-> [i \in 0..(sz - 1) |-> node(0, "EMP")]], n |-> 0, size |-> sz]

CH_DEFAULT_MAX_SIZE == 10

init_hashtable(size) ==
  init_tables(2^(IF CH_DEFAULT_MAX_SIZE <= size THEN CH_DEFAULT_MAX_SIZE ELSE size))

Init ==
  /\ table = init_hashtable(InitBits).cell
  /\ table_size = init_hashtable(InitBits).size
  /\ setSize = init_hashtable(InitBits).n
  /\ last = << >>
  /\ dead = FALSE

-----------------------------------------------------------------------------
hashCode0(k, size) == (k * 269) % size
hashCode1(k, size) == (k * 271) % size

\* The place of a key: its table and its cell.
get_node(size, no, k) ==
  IF no = 0 THEN <<0, hashCode0(k, size)>> ELSE <<1, hashCode1(k, size)>>

\* Puts k in its cell; next is what was there before.
swap_node(t, no, k) ==
  LET p == get_node(t.size, no, k)
  IN  [t |-> [t EXCEPT !.cell[p[1]][p[2]] = node(k, "OCC")], next |-> t.cell[p[1]][p[2]]]

\* The loop of add and of resize: at most table_size rounds of two swaps, until
\* one of them finds a free cell; k is the key without a place when it gives up.
RECURSIVE place(_, _, _)
place(t, k, round) ==
  IF round = t.size THEN [t |-> t, ok |-> FALSE, k |-> k]
  ELSE LET a == swap_node(t, 1, k)
           b == swap_node(a.t, 2, a.next.key)
       IN  IF a.next.stat # "OCC" THEN [t |-> [a.t EXCEPT !.n = @ + 1], ok |-> TRUE, k |-> k]
           ELSE IF b.next.stat # "OCC" THEN [t |-> [b.t EXCEPT !.n = @ + 1], ok |-> TRUE, k |-> k]
           ELSE place(b.t, b.next.key, round + 1)

\* Mutant: setSize goes on from its old value.
resizeKeepsCount(t) ==
  LET old == SelectSeq([i \in 1..(2 * t.size) |-> t.cell[(i - 1) \div t.size][(i - 1) % t.size]],
                       LAMBDA c : c.stat = "OCC")
  IN  FoldLeft(LAMBDA u, c : place(u, c.key, 0).t, [init_tables(2 * t.size) EXCEPT !.n = t.n], old)

\* The nodes of table[0], then those of table[1], placed in larger tables; one
\* that finds no place is dropped.
resize(t) ==
  LET old == SelectSeq([i \in 1..(2 * t.size) |-> t.cell[(i - 1) \div t.size][(i - 1) % t.size]],
                       LAMBDA c : c.stat = "OCC")
  IN  FoldLeft(LAMBDA u, c : place(u, c.key, 0).t, init_tables(2 * t.size), old)

\* place, and after each failure a resize and another try.
RECURSIVE retry(_, _, _)
retry(t, k, try) ==
  LET r == place(t, k, 0)
  IN  IF r.ok \/ try = 0 THEN r ELSE retry(resize(r.t), r.k, try - 1)

\* Mutant: a cell is taken for k's whatever its key.
find_opAnyKey(k) ==
  LET Holds(no) == LET p == get_node(table_size, no, k)
                   IN  table[p[1]][p[2]].stat = "OCC"
  IN  IF Holds(0) THEN 0 ELSE IF Holds(1) THEN 1 ELSE -1

\* The table in which k is found, or -1.
find_op(k) ==
  LET Holds(no) == LET p == get_node(table_size, no, k)
                   IN  table[p[1]][p[2]] = node(k, "OCC")
  IN  IF Holds(0) THEN 0 ELSE IF Holds(1) THEN 1 ELSE -1

Tables == [cell |-> table, n |-> setSize, size |-> table_size]
Store(t) == table' = t.cell /\ setSize' = t.n /\ table_size' = t.size

\* A resize without memory leaves table[1] null, which add reads next, or
\* table[0], which the next resize or the next call reads.
add(k) ==
  /\ ~ dead
  /\ LET r == retry(Tables, k, Try)
     IN  IF find_op(k) # -1
           THEN last' = <<"add", k, FALSE>> /\ Store(Tables) /\ UNCHANGED dead
           ELSE \/ /\ last' = IF r.ok THEN <<"add", k, TRUE>>
                                      ELSE <<"add", k, FALSE, "no room">>
                   /\ Store(r.t) /\ UNCHANGED dead
                \/ /\ r.t.size # table_size
                   /\ dead' = TRUE
                   /\ last' \in {last, <<"add", k, FALSE, "no room">>}
                   /\ Store(Tables)

del_op(p) ==
  /\ table' = [table EXCEPT ![p[1]][p[2]] = node(0, "DEL")]
  /\ setSize' = setSize - 1

delete(k) ==
  LET no == find_op(k)
  IN  /\ ~ dead
      /\ last' = <<"delete", k, no # -1>>
      /\ IF no # -1 THEN del_op(get_node(table_size, no, k))
                    ELSE UNCHANGED <<table, setSize>>
      /\ UNCHANGED <<table_size, dead>>

find(k) ==
  /\ ~ dead
  /\ last' = <<"find", k, find_op(k) # -1>>
  /\ UNCHANGED <<table, table_size, setSize, dead>>

Next == \E k \in Keys : add(k) \/ delete(k) \/ find(k)

Spec == Init /\ [][Next]_vars

-----------------------------------------------------------------------------
(* Properties *)

Cells == {0, 1} \X (0..(table_size - 1))
Count(k) == Cardinality({p \in Cells : table[p[1]][p[2]] = node(k, "OCC")})

\* Every answer is that of a set of keys: the evictions of an add, and the
\* resizes it does before it gives up, lose no key and keep no key twice.
Refines == INSTANCE AtomicTable WITH
  Duplicates <- FALSE, count <- [k \in Keys |-> Count(k)]
IsSet == Refines!Spec

\* setSize is the "number of nodes" CuckooHash.h says it is, and each of them is
\* where get_node looks for it.
InPlace ==
  /\ setSize = Cardinality({p \in Cells : table[p[1]][p[2]].stat = "OCC"})
  /\ \A p \in Cells :
       table[p[1]][p[2]].stat = "OCC" => get_node(table_size, p[1], table[p[1]][p[2]].key) = p
=============================================================================
